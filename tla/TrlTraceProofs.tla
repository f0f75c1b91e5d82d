---------------------------- MODULE TrlTraceProofs ----------------------------
(***************************************************************************)
(* Proofs about the writer and about what a reader finds in the file, for   *)
(* every value of the constants.                                            *)
(*                                                                          *)
(* Of the writer: its types, that the index covers the blocks it lists,     *)
(* that the header points to the index, that the file only grows and that a *)
(* string id keeps its string.  The argument is one induction over          *)
(* WriterInv.  An index entry is made when a block is flushed, from times   *)
(* the context gathered before, so the invariant says beforehand of every   *)
(* context that its times enclose its records (ContextsSpan), and that the  *)
(* block a shared codec state holds, which is the one a flush writes, is a  *)
(* context of that codec (BlkTypes).                                        *)
(*                                                                          *)
(* Of the file: that an index on disk lists the blocks of the file, that    *)
(* what is read through it is what was written, and that writer, crash and  *)
(* disk implement the store of TraceStore.                                  *)
(***************************************************************************)
EXTENDS TrlTrace, TrlLemmas, SequenceTheorems

-----------------------------------------------------------------------------
(* The writer *)

\* Interning gives every string one id, and leaves the ids given before alone.
LEMMA InternProperties ==
  ASSUME NEW tab \in Seq(Strings), NEW s \in Strings
  PROVE  /\ Intern(tab, s) \in Seq(Strings)
         /\ Len(tab) <= Len(Intern(tab, s))
         /\ \A i \in 1..Len(tab) : Intern(tab, s)[i] = tab[i]
         /\ IdOf(Intern(tab, s), s) \in 1..Len(Intern(tab, s))
         /\ Intern(tab, s)[IdOf(Intern(tab, s), s)] = s
<1>1. CASE \E i \in 1..Len(tab) : tab[i] = s
  BY <1>1 DEF Intern, IdOf
<1>2. CASE ~\E i \in 1..Len(tab) : tab[i] = s
  <2>1. Intern(tab, s) = Append(tab, s)
    BY <1>2 DEF Intern
  <2>2. /\ Append(tab, s) \in Seq(Strings) /\ Len(Append(tab, s)) = Len(tab) + 1
        /\ \A i \in 1..Len(tab) : Append(tab, s)[i] = tab[i]
        /\ Append(tab, s)[Len(tab) + 1] = s
    BY AppendProperties
  <2>3. Len(tab) \in Nat
    OBVIOUS
  <2>4. \E i \in 1..Len(Append(tab, s)) : Append(tab, s)[i] = s
    BY <2>2, <2>3
  <2>. QED
    BY <2>1, <2>2, <2>3, <2>4 DEF IdOf
<1>. QED
  BY <1>1, <1>2

\* The same for two strings interned one after the other.
LEMMA InternTwo ==
  ASSUME NEW tab \in Seq(Strings), NEW s \in Strings, NEW v \in Strings
  PROVE  LET new == Intern(Intern(tab, s), v)
         IN  /\ new \in Seq(Strings) /\ Len(tab) <= Len(new)
             /\ \A i \in 1..Len(tab) : new[i] = tab[i]
             /\ IdOf(new, s) \in Nat /\ IdOf(new, v) \in Nat
             /\ IdOf(new, s) \in 1..Len(new) /\ IdOf(new, v) \in 1..Len(new)
<1>. DEFINE one == Intern(tab, s)
            new == Intern(one, v)
<1>1. /\ one \in Seq(Strings) /\ Len(tab) <= Len(one)
      /\ \A i \in 1..Len(tab) : one[i] = tab[i]
      /\ IdOf(one, s) \in 1..Len(one) /\ one[IdOf(one, s)] = s
  BY InternProperties
<1>2. /\ new \in Seq(Strings) /\ Len(one) <= Len(new)
      /\ \A i \in 1..Len(one) : new[i] = one[i]
      /\ IdOf(new, v) \in 1..Len(new)
  BY <1>1, InternProperties
<1>. Len(tab) \in Nat /\ Len(one) \in Nat /\ Len(new) \in Nat
  BY <1>1, <1>2
<1>. HIDE DEF one, new
<1>3. new[IdOf(one, s)] = s /\ IdOf(one, s) \in 1..Len(new)
  BY <1>1, <1>2
<1>4. IdOf(new, s) \in 1..Len(new)
  BY <1>3 DEF IdOf
<1>. QED
  BY <1>1, <1>2, <1>4 DEF one, new

\* Some times have a latest one.
LEMMA MaxExists ==
  ASSUME NEW S \in SUBSET Times, S # {}
  PROVE  \E t \in S : \A u \in S : u <= t
<1>. DEFINE D == {n \in Nat : MaxTime - n \in S}
<1>1. D \subseteq Nat /\ D # {}
  <2>1. PICK t \in S : TRUE
    OBVIOUS
  <2>2. t \in Nat /\ t <= MaxTime /\ MaxTime \in Nat
    BY WriterAssumption DEF Times
  <2>3. MaxTime - t \in Nat /\ MaxTime - (MaxTime - t) = t
    BY <2>2
  <2>. QED
    BY <2>1, <2>3
<1>2. PICK n \in D : \A m \in D : <<m, n>> \notin OpToRel(<, Nat)
  BY <1>1, WFMin, NatLessThanWellFounded, Zenon
<1>3. \A m \in D : ~(m < n)
  BY <1>1, <1>2, Zenon DEF OpToRel
<1>4. \A u \in S : u <= MaxTime - n
  <2>1. TAKE u \in S
  <2>2. MaxTime - u \in D /\ u \in Nat /\ n \in Nat
    BY WriterAssumption DEF Times
  <2>. HIDE DEF D
  <2>3. ~(MaxTime - u < n)
    BY <1>3, <2>2
  <2>4. MaxTime \in Nat /\ u \in Nat
    BY WriterAssumption DEF Times
  <2>. QED
    BY <2>2, <2>3, <2>4
<1>. QED
  BY <1>4

\* The end time of a block rebuilt from its changes is one of its times and bounds them.
LEMMA EndTimeProperties ==
  ASSUME NEW start \in Times, NEW recs,
         \A r \in recs : r.time \in Times
  PROVE  /\ EndTime(start, recs) \in Times
         /\ start <= EndTime(start, recs)
         /\ \A r \in recs : r.time <= EndTime(start, recs)
<1>. DEFINE S == {start} \cup {r.time : r \in recs}
<1>1. S \in SUBSET Times /\ S # {}
  OBVIOUS
<1>2. \E t \in S : \A u \in S : u <= t
  BY <1>1, MaxExists
<1>3. EndTime(start, recs) \in S /\ \A u \in S : u <= EndTime(start, recs)
  BY <1>2 DEF EndTime
<1>. QED
  BY <1>1, <1>3

\* What the assumption says of the constants.
LEMMA ConstantTypes ==
  /\ Names \subseteq Strings /\ DerivedEncs \subseteq Enc
  /\ Codecs \subseteq {"core", "split"} /\ BlockStreams \subseteq Streams \cup {Mixed}
  /\ MaxTime \in Nat /\ MaxTypes \in Nat /\ MaxHiers \in Nat /\ MaxVars \in Nat
  /\ MaxScopes \in Nat /\ MaxDerived \in Nat
BY WriterAssumption

\* A part of the state that a step leaves alone keeps its type.
LEMMA FileKept == FileTypes /\ UNCHANGED fileVars => FileTypes'
BY DEF FileTypes, fileVars

\* The same for strings and metadata.
LEMMA MetaKept == MetaTypes /\ UNCHANGED <<strtab, meta>> => MetaTypes'
BY DEF MetaTypes

\* The same for the hierarchies and the types they refer to.
LEMMA HierKept == HierTypes /\ UNCHANGED <<typereg, hierVars>> => HierTypes'
BY DEF HierTypes, hierVars

\* The same for the block contexts.
LEMMA BlkKept == BlkTypes /\ UNCHANGED blkVars => BlkTypes'
BY DEF BlkTypes, blkVars

\* The same for the index.
LEMMA IndexKept ==
  IndexTypes /\ UNCHANGED <<vcEntries, txnEntries, auxVars>> => IndexTypes'
BY DEF IndexTypes, auxVars

\* A block appended to the file.
LEMMA FileAppend ==
  ASSUME FileTypes, NEW blk \in Blocks, file' = Append(file, blk), UNCHANGED <<phase, hdr>>
  PROVE  FileTypes'
BY AppendProperties DEF FileTypes

\* One more entry in any part of the registry.
LEMMA RegistryParts ==
  ASSUME NEW reg \in Registry
  PROVE  /\ \A e \in Enc : [reg EXCEPT !.sigs = Append(@, e)] \in Registry
         /\ \A id \in Nat : /\ [reg EXCEPT !.schemas = Append(@, id)] \in Registry
                            /\ [reg EXCEPT !.streams = Append(@, id)] \in Registry
<1>1. /\ reg = [sigs |-> reg.sigs, schemas |-> reg.schemas, streams |-> reg.streams]
      /\ reg.sigs \in Seq(Enc) /\ reg.schemas \in Seq(Nat) /\ reg.streams \in Seq(Nat)
  BY DEF Registry
<1>2. /\ \A e \in Enc : Append(reg.sigs, e) \in Seq(Enc)
      /\ \A id \in Nat : Append(reg.schemas, id) \in Seq(Nat) /\ Append(reg.streams, id) \in Seq(Nat)
  BY <1>1, AppendProperties
<1>. QED
  BY <1>1, <1>2 DEF Registry

\* The string and type calls, and the two flushes that are not indexed.
LEMMA MetadataTypes ==
  ASSUME TypeOK,
         \/ \E s \in Names : InternString(s) \/ AddTxnSchema(s) \/ AddStreamType(s)
         \/ \E e \in Enc : AddSignalType(e)
         \/ \E s, v \in Names : AddTraceMetadata(s, v)
         \/ FlushStringTable
         \/ FlushTypeRegistry
  PROVE  TypeOK'
<1>. USE DEF TypeOK
<1>1. ASSUME NEW s \in Names, InternString(s) PROVE TypeOK'
  BY <1>1, ConstantTypes, InternProperties, FileKept, HierKept, BlkKept, IndexKept
     DEF InternString, MetaTypes, fileVars, hierVars, blkVars, auxVars
<1>2. ASSUME NEW s \in Names, AddTxnSchema(s) PROVE TypeOK'
  <2>1. strtab' \in Seq(Strings) /\ IdOf(strtab', s) \in Nat
    BY <1>2, ConstantTypes, InternProperties DEF AddTxnSchema, MetaTypes
  <2>2. typereg' \in Registry /\ typereg'.sigs = typereg.sigs
    BY <1>2, <2>1, RegistryParts DEF AddTxnSchema, HierTypes, Registry
  <2>3. HierTypes'
    BY <1>2, <2>2 DEF AddTxnSchema, HierTypes, hierVars
  <2>. QED
    BY <1>2, <2>1, <2>3, FileKept, BlkKept, IndexKept DEF AddTxnSchema, MetaTypes
<1>3. ASSUME NEW s \in Names, AddStreamType(s) PROVE TypeOK'
  <2>1. strtab' \in Seq(Strings) /\ IdOf(strtab', s) \in Nat
    BY <1>3, ConstantTypes, InternProperties DEF AddStreamType, MetaTypes
  <2>2. typereg' \in Registry /\ typereg'.sigs = typereg.sigs
    BY <1>3, <2>1, RegistryParts DEF AddStreamType, HierTypes, Registry
  <2>3. HierTypes'
    BY <1>3, <2>2 DEF AddStreamType, HierTypes, hierVars
  <2>. QED
    BY <1>3, <2>1, <2>3, FileKept, BlkKept, IndexKept DEF AddStreamType, MetaTypes
<1>4. ASSUME NEW e \in Enc, AddSignalType(e) PROVE TypeOK'
  <2>a. /\ typereg \in Registry /\ typereg.sigs \in Seq(Enc) /\ Len(typereg.sigs) \in Nat
        /\ typereg' = [typereg EXCEPT !.sigs = Append(@, e)]
    BY <1>4 DEF AddSignalType, HierTypes, Registry
  <2>1. /\ typereg' \in Registry /\ Len(typereg'.sigs) = Len(typereg.sigs) + 1
    <3>1. typereg' \in Registry
      BY <2>a, RegistryParts
    <3>2. typereg'.sigs = Append(typereg.sigs, e)
      BY <2>a DEF Registry
    <3>. QED
      BY <2>a, <3>1, <3>2, AppendProperties
  <2>2. \A h \in 1..Len(hiers) : \A k \in 1..Len(hiers[h].vars) :
          k \in 1..MaxVars /\ hiers[h].vars[k] \in 1..Len(typereg'.sigs)
    <3>1. \A i \in 1..Len(typereg.sigs) : i \in 1..Len(typereg'.sigs)
      BY <2>a, <2>1
    <3>. QED
      BY <3>1 DEF HierTypes
  <2>3. Len(typereg'.sigs) <= MaxTypes
    <3>1. Len(typereg.sigs) < MaxTypes
      BY <1>4 DEF AddSignalType
    <3>. QED
      BY <2>a, <2>1, <3>1, ConstantTypes
  <2>4. HierTypes'
    BY <1>4, <2>1, <2>2, <2>3 DEF AddSignalType, HierTypes, hierVars
  <2>. QED
    BY <1>4, <2>4, FileKept, MetaKept, BlkKept, IndexKept DEF AddSignalType
<1>5. ASSUME NEW s \in Names, NEW v \in Names, AddTraceMetadata(s, v) PROVE TypeOK'
  <2>1. strtab' \in Seq(Strings) /\ IdOf(strtab', s) \in Nat /\ IdOf(strtab', v) \in Nat
    BY <1>5, ConstantTypes, InternTwo DEF AddTraceMetadata, MetaTypes
  <2>2. meta' \in Seq(Attrs)
    BY <1>5, <2>1 DEF AddTraceMetadata, MetaTypes, Attrs
  <2>. QED
    BY <1>5, <2>1, <2>2, FileKept, HierKept, BlkKept, IndexKept DEF AddTraceMetadata, MetaTypes
<1>6. ASSUME FlushStringTable PROVE TypeOK'
  <2>1. [type |-> "STR", strings |-> strtab] \in Blocks
    BY DEF MetaTypes, Blocks
  <2>2. FileTypes'
    BY <1>6, <2>1, FileAppend DEF FlushStringTable
  <2>. QED
    BY <1>6, <2>2, MetaKept, HierKept, BlkKept, IndexKept DEF FlushStringTable, metaVars
<1>7. ASSUME FlushTypeRegistry PROVE TypeOK'
  <2>1. [type |-> "TYPE", reg |-> typereg] \in Blocks
    BY DEF HierTypes, Blocks
  <2>2. FileTypes'
    BY <1>7, <2>1, FileAppend DEF FlushTypeRegistry
  <2>. QED
    BY <1>7, <2>2, MetaKept, HierKept, BlkKept, IndexKept DEF FlushTypeRegistry, metaVars
<1>. QED
  BY <1>1, <1>2, <1>3, <1>4, <1>5, <1>6, <1>7

\* A partial function with one more value.
LEMMA PartialExtend ==
  ASSUME NEW D, NEW R, NEW f \in PartialFcn(D, R), NEW d \in D, NEW r \in R
  PROVE  [u \in DOMAIN f \cup {d} |-> IF u = d THEN r ELSE f[u]] \in PartialFcn(D, R)
<1>. DEFINE E == DOMAIN f \cup {d}
<1>1. DOMAIN f \in SUBSET D /\ f \in [DOMAIN f -> R]
  BY DEF PartialFcn
<1>2. E \in SUBSET D /\ [u \in E |-> IF u = d THEN r ELSE f[u]] \in [E -> R]
  BY <1>1
<1>. QED
  BY <1>2 DEF PartialFcn

\* What one hierarchy's new state needs for the types of all.
LEMMA HierarchyUpdate ==
  ASSUME HierTypes, NEW h \in 1..Len(hiers), NEW new \in Hierarchies,
         hiers' = [hiers EXCEPT ![h] = new], UNCHANGED typereg,
         \A k \in 1..Len(new.vars) : k \in 1..MaxVars /\ new.vars[k] \in 1..Len(typereg.sigs)
  PROVE  /\ hiers' \in Seq(Hierarchies)
         /\ \A g \in 1..Len(hiers') : \A k \in 1..Len(hiers'[g].vars) :
              k \in 1..MaxVars /\ hiers'[g].vars[k] \in 1..Len(typereg'.sigs)
<1>1. hiers \in Seq(Hierarchies)
  BY DEF HierTypes
<1>2. /\ hiers' \in Seq(Hierarchies) /\ Len(hiers') = Len(hiers)
      /\ \A g \in 1..Len(hiers) : hiers'[g] = IF g = h THEN new ELSE hiers[g]
  BY <1>1, ExceptSeq
<1>. QED
  BY <1>2 DEF HierTypes

\* Scopes are numbered by one counter, variables within their hierarchy.
LEMMA HierarchyTypes ==
  ASSUME TypeOK, NEW h \in 1..Len(hiers),
         \/ \E s, c \in Names : BeginScope(h, s, c)
         \/ EndScope(h)
         \/ \E s \in Names, ty \in 1..MaxTypes : AddVar(h, s, ty)
         \/ FlushHierarchy(h)
  PROVE  TypeOK'
<1>. USE DEF TypeOK
<1>. DEFINE H == hiers[h]
<1>a. /\ H \in Hierarchies /\ H.strs \subseteq Nat /\ H.stack \in Seq(1..MaxScopes)
      /\ H.vars \in Seq(1..MaxTypes) /\ hiers \in Seq(Hierarchies)
  <2>1. hiers \in Seq(Hierarchies)
    BY DEF HierTypes
  <2>2. H \in Hierarchies
    BY <2>1, ElementOfSeq
  <2>. QED
    BY <2>1, <2>2 DEF Hierarchies
<1>b. \A k \in 1..Len(H.vars) : k \in 1..MaxVars /\ H.vars[k] \in 1..Len(typereg.sigs)
  BY DEF HierTypes
<1>1. ASSUME NEW s \in Names, NEW c \in Names, BeginScope(h, s, c) PROVE TypeOK'
  <2>1. strtab' \in Seq(Strings) /\ IdOf(strtab', s) \in Nat /\ IdOf(strtab', c) \in Nat
    BY <1>1, ConstantTypes, InternTwo DEF BeginScope, MetaTypes
  <2>2. scopes + 1 \in 1..MaxScopes
    BY <1>1, ConstantTypes DEF BeginScope, HierTypes
  <2>. DEFINE new == [H EXCEPT !.stack = Append(@, scopes + 1),
                               !.strs = @ \cup {IdOf(strtab', s), IdOf(strtab', c)}]
  <2>3. Append(H.stack, scopes + 1) \in Seq(1..MaxScopes)
    BY <1>a, <2>2, AppendProperties
  <2>4. new \in Hierarchies /\ new.vars = H.vars
    BY <1>a, <2>1, <2>3 DEF Hierarchies
  <2>5. hiers' = [hiers EXCEPT ![h] = new]
    BY <1>1, <1>a DEF BeginScope
  <2>6. HierTypes'
    <3>. HIDE DEF new
    <3>. QED
      <4>1. /\ hiers' \in Seq(Hierarchies)
            /\ \A g \in 1..Len(hiers') : \A k \in 1..Len(hiers'[g].vars) :
                 k \in 1..MaxVars /\ hiers'[g].vars[k] \in 1..Len(typereg'.sigs)
        BY <1>1, <1>b, <2>4, <2>5, HierarchyUpdate DEF BeginScope
      <4>. QED
        BY <1>1, <2>2, <4>1 DEF BeginScope, HierTypes
  <2>. QED
    BY <1>1, <2>1, <2>6, FileKept, BlkKept, IndexKept DEF BeginScope, MetaTypes
<1>2. ASSUME EndScope(h) PROVE TypeOK'
  <2>. DEFINE new == [H EXCEPT !.stack = SubSeq(@, 1, Len(@) - 1)]
  <2>1. SubSeq(H.stack, 1, Len(H.stack) - 1) \in Seq(1..MaxScopes)
    <3>1. Len(H.stack) \in Nat /\ Len(H.stack) > 0
      BY <1>2, <1>a, EmptySeq DEF EndScope
    <3>2. \A i \in 1..Len(H.stack) - 1 : H.stack[i] \in 1..MaxScopes
      <4>1. \A i \in 1..Len(H.stack) : H.stack[i] \in 1..MaxScopes
        BY <1>a, ElementOfSeq
      <4>. QED
        BY <3>1, <4>1
    <3>. QED
      BY <3>1, <3>2, SubSeqProperties
  <2>2. new \in Hierarchies /\ new.vars = H.vars
    BY <1>a, <2>1 DEF Hierarchies
  <2>3. hiers' = [hiers EXCEPT ![h] = new]
    BY <1>2, <1>a DEF EndScope
  <2>4. HierTypes'
    <3>. HIDE DEF new
    <3>. QED
      BY <1>2, <1>b, <2>2, <2>3, HierarchyUpdate DEF EndScope, HierTypes, metaVars
  <2>. QED
    BY <1>2, <2>4, FileKept, MetaKept, BlkKept, IndexKept DEF EndScope, metaVars
<1>3. ASSUME NEW s \in Names, NEW ty \in 1..MaxTypes, AddVar(h, s, ty) PROVE TypeOK'
  <2>. DEFINE v   == Len(H.vars) + 1
              new == [H EXCEPT !.vars = Append(@, ty), !.strs = @ \cup {IdOf(strtab', s)}]
  <2>1. strtab' \in Seq(Strings) /\ IdOf(strtab', s) \in Nat
    BY <1>3, ConstantTypes, InternProperties DEF AddVar, MetaTypes
  <2>2. v \in 1..MaxVars /\ v \in VarIds /\ typereg.sigs[ty] \in Enc /\ ty \in 1..Len(typereg.sigs)
    <3>1. Len(H.vars) \in Nat /\ v <= MaxVars /\ ty \in 1..Len(typereg.sigs)
      BY <1>3, <1>a DEF AddVar
    <3>2. typereg.sigs \in Seq(Enc)
      BY DEF HierTypes, Registry
    <3>. QED
      BY <3>1, <3>2, ConstantTypes, ElementOfSeq DEF VarIds
  <2>3. /\ Append(H.vars, ty) \in Seq(1..MaxTypes)
        /\ \A k \in 1..Len(Append(H.vars, ty)) :
             k \in 1..MaxVars /\ Append(H.vars, ty)[k] \in 1..Len(typereg.sigs)
    <3>1. /\ Append(H.vars, ty) \in Seq(1..MaxTypes) /\ Len(Append(H.vars, ty)) = v
          /\ \A k \in 1..Len(H.vars) : Append(H.vars, ty)[k] = H.vars[k]
          /\ Append(H.vars, ty)[v] = ty
      BY <1>a, AppendProperties
    <3>. QED
      BY <1>a, <1>b, <2>2, <3>1
  <2>4. new \in Hierarchies /\ new.vars = Append(H.vars, ty)
    BY <1>a, <2>1, <2>3 DEF Hierarchies
  <2>5. hiers' = [hiers EXCEPT ![h] = new]
    BY <1>3, <1>a DEF AddVar
  <2>6. varTypes' \in PartialFcn(VarIds, Enc)
    BY <1>3, <2>2, PartialExtend DEF AddVar, HierTypes
  <2>7. varScope' \in PartialFcn(VarIds, 1..MaxScopes)
    <3>1. CASE H.stack = << >>
      BY <1>3, <3>1 DEF AddVar, HierTypes
    <3>2. CASE H.stack # << >>
      <4>1. H.stack[Len(H.stack)] \in 1..MaxScopes
        <5>1. Len(H.stack) \in 1..Len(H.stack)
          BY <1>a, <3>2, EmptySeq
        <5>. QED
          BY <1>a, <5>1, ElementOfSeq
      <4>. QED
        BY <1>3, <2>2, <3>2, <4>1, PartialExtend DEF AddVar, HierTypes
    <3>. QED
      BY <3>1, <3>2
  <2>8. HierTypes'
    <3>. HIDE DEF new
    <3>. QED
      BY <1>3, <2>3, <2>4, <2>5, <2>6, <2>7, HierarchyUpdate DEF AddVar, HierTypes
  <2>. QED
    BY <1>3, <2>1, <2>8, FileKept, BlkKept, IndexKept DEF AddVar, MetaTypes
<1>4. ASSUME FlushHierarchy(h) PROVE TypeOK'
  <2>. DEFINE new == [H EXCEPT !.open = FALSE]
  <2>1. new \in Hierarchies /\ new.vars = H.vars
    BY <1>a DEF Hierarchies
  <2>2. hiers' = [hiers EXCEPT ![h] = new]
    BY <1>4, <1>a DEF FlushHierarchy
  <2>3. hierOffsets' \in Seq(Nat)
    BY <1>4, AppendProperties, LenProperties DEF FlushHierarchy, FileTypes, HierTypes
  <2>4. HierTypes'
    <3>. HIDE DEF new
    <3>. QED
      BY <1>4, <1>b, <2>1, <2>2, <2>3, HierarchyUpdate DEF FlushHierarchy, HierTypes, metaVars
  <2>5. [type |-> "HIER", id |-> H.id, strs |-> H.strs, vars |-> H.vars] \in Blocks
    <3>1. H.vars \in Seq(Nat) /\ H.id \in Nat
      <4>1. 1..MaxTypes \subseteq Nat
        OBVIOUS
      <4>2. H.vars \in Seq(Nat)
        BY <1>a, <4>1, SeqMonotonic
      <4>. QED
        BY <1>a, <4>2 DEF Hierarchies
    <3>. QED
      BY <1>a, <3>1 DEF Blocks
  <2>6. FileTypes'
    BY <1>4, <2>5, FileAppend DEF FlushHierarchy
  <2>. QED
    BY <1>4, <2>4, <2>6, MetaKept, BlkKept, IndexKept DEF FlushHierarchy, metaVars
<1>. QED
  BY <1>1, <1>2, <1>3, <1>4

\* A hierarchy begun has no variables and no scopes.
LEMMA BeginHierarchyTypes ==
  ASSUME TypeOK, NEW i \in 1..MaxHiers, NEW s \in Names, BeginHierarchy(i, s)
  PROVE  TypeOK'
<1>. USE DEF TypeOK
<1>1. strtab' \in Seq(Strings) /\ IdOf(strtab', s) \in Nat
  BY ConstantTypes, InternProperties DEF BeginHierarchy, MetaTypes
<1>. DEFINE new == [id |-> i, strs |-> {IdOf(strtab', s)}, vars |-> << >>, stack |-> << >>,
                    open |-> TRUE]
<1>2. new \in Hierarchies /\ Len(new.vars) = 0
  BY <1>1, ConstantTypes, EmptySeq DEF Hierarchies
<1>3. /\ hiers' \in Seq(Hierarchies) /\ Len(hiers') = Len(hiers) + 1 /\ Len(hiers) \in Nat
      /\ \A g \in 1..Len(hiers) : hiers'[g] = hiers[g]
      /\ hiers'[Len(hiers) + 1] = new
  BY <1>2, AppendProperties, LenProperties DEF BeginHierarchy, HierTypes
<1>4. \A g \in 1..Len(hiers') : \A k \in 1..Len(hiers'[g].vars) :
        k \in 1..MaxVars /\ hiers'[g].vars[k] \in 1..Len(typereg.sigs)
  <2>. HIDE DEF new
  <2>1. \A g \in 1..Len(hiers') : g \in 1..Len(hiers) \/ g = Len(hiers) + 1
    BY <1>3
  <2>2. ASSUME NEW g \in 1..Len(hiers)
        PROVE  \A k \in 1..Len(hiers'[g].vars) :
                 k \in 1..MaxVars /\ hiers'[g].vars[k] \in 1..Len(typereg.sigs)
    BY <1>3 DEF HierTypes
  <2>3. \A k : k \notin 1..Len(hiers'[Len(hiers) + 1].vars)
    BY <1>2, <1>3
  <2>. QED
    BY <2>1, <2>2, <2>3
<1>5. HierTypes'
  BY <1>3, <1>4 DEF BeginHierarchy, HierTypes
<1>. QED
  BY <1>1, <1>5, FileKept, BlkKept, IndexKept DEF BeginHierarchy, MetaTypes

\* A block context taken into the sequence of contexts, or put in the place of one.
LEMMA ContextAdded ==
  ASSUME BlkTypes, NEW new \in VcContexts \cup TxnContexts, IsFiniteSet(new.recs),
         blks' = Append(blks, new),
         vcState' = IF new.codec = "core" THEN Len(blks') ELSE vcState,
         txnState' = IF new.codec = "record" THEN Len(blks') ELSE txnState
  PROVE  BlkTypes'
<1>1. /\ blks' \in Seq(VcContexts \cup TxnContexts) /\ Len(blks') = Len(blks) + 1
      /\ Len(blks) \in Nat
      /\ \A b \in 1..Len(blks) : blks'[b] = blks[b]
      /\ blks'[Len(blks) + 1] = new
  BY AppendProperties, LenProperties DEF BlkTypes
<1>2. \A b \in 1..Len(blks') : b \in 1..Len(blks) \/ b = Len(blks) + 1
  BY <1>1
<1>3. \A b \in 1..Len(blks') : IsFiniteSet(blks'[b].recs)
  BY <1>1, <1>2 DEF BlkTypes
<1>4. vcState' \in 0..Len(blks') /\ txnState' \in 0..Len(blks')
  BY <1>1 DEF BlkTypes
<1>5. \A b \in 1..Len(blks') : blks'[b].codec = "core" =>
        vcState' # 0 /\ blks'[vcState'].codec = "core"
  BY <1>1, <1>2 DEF BlkTypes
<1>6. \A b \in 1..Len(blks') : blks'[b].codec = "record" =>
        txnState' # 0 /\ blks'[txnState'].codec = "record"
  BY <1>1, <1>2 DEF BlkTypes
<1>. QED
  BY <1>1, <1>3, <1>4, <1>5, <1>6 DEF BlkTypes

\* The same for a context changed in its place, its codec being kept.
LEMMA ContextUpdated ==
  ASSUME BlkTypes, NEW b \in 1..Len(blks), NEW new \in VcContexts \cup TxnContexts,
         IsFiniteSet(new.recs), new.codec = blks[b].codec,
         blks' = [blks EXCEPT ![b] = new], UNCHANGED <<vcState, txnState>>
  PROVE  BlkTypes'
<1>1. /\ blks' \in Seq(VcContexts \cup TxnContexts) /\ Len(blks') = Len(blks)
      /\ \A c \in 1..Len(blks) : blks'[c] = IF c = b THEN new ELSE blks[c]
  BY ExceptSeq DEF BlkTypes
<1>2. \A c \in 1..Len(blks') : IsFiniteSet(blks'[c].recs)
  BY <1>1 DEF BlkTypes
<1>3. \A c \in 1..Len(blks') : blks'[c].codec = blks[c].codec
  BY <1>1
<1>4. \A c \in 1..Len(blks') : blks'[c].codec = "core" =>
        vcState' # 0 /\ blks'[vcState'].codec = "core"
  BY <1>1, <1>3 DEF BlkTypes
<1>5. \A c \in 1..Len(blks') : blks'[c].codec = "record" =>
        txnState' # 0 /\ blks'[txnState'].codec = "record"
  BY <1>1, <1>3 DEF BlkTypes
<1>. QED
  BY <1>1, <1>2, <1>4, <1>5 DEF BlkTypes

\* What a context is made of.
LEMMA VcContextParts ==
  ASSUME NEW c \in VcContexts
  PROVE  /\ c.kind = "vc" /\ c.codec \in {"core", "split"} /\ c.start \in Times /\ c.end \in Times
         /\ c.recs \subseteq Changes /\ c.init \subseteq Changes
         /\ c.types \in PartialFcn(1..MaxTypes \cup VarIds, Enc)
BY DEF VcContexts

\* The same for a transaction context.
LEMMA TxnContextParts ==
  ASSUME NEW c \in TxnContexts
  PROVE  /\ c.kind = "txn" /\ c.codec = "record" /\ c.start \in Times /\ c.end \in Times
         /\ c.recs \subseteq TxnRecs /\ c.sid \in BlockStreams
BY DEF TxnContexts

\* The types a block encodes with are types of signals and variables.
LEMMA SigTypesType ==
  ASSUME HierTypes, NEW ofVar \in PartialFcn(VarIds, Enc)
  PROVE  SigTypes(ofVar) \in PartialFcn(1..MaxTypes \cup VarIds, Enc)
<1>. DEFINE E == 1..Len(typereg.sigs) \cup DOMAIN ofVar
<1>1. /\ typereg.sigs \in Seq(Enc) /\ Len(typereg.sigs) \in Nat
      /\ \A v \in 1..Len(typereg.sigs) : typereg.sigs[v] \in Enc
      /\ Len(typereg.sigs) <= MaxTypes
  BY DEF HierTypes, Registry
<1>2. DOMAIN ofVar \in SUBSET VarIds /\ \A v \in DOMAIN ofVar : ofVar[v] \in Enc
  BY DEF PartialFcn
<1>3. E \in SUBSET (1..MaxTypes \cup VarIds)
  BY <1>1, <1>2, ConstantTypes
<1>4. SigTypes(ofVar) \in [E -> Enc]
  BY <1>1, <1>2 DEF SigTypes
<1>. QED
  BY <1>3, <1>4 DEF PartialFcn

\* The later of two times is a time not before either.
LEMMA LaterProperties ==
  ASSUME NEW t \in Times, NEW u \in Times
  PROVE  Later(t, u) \in Times /\ t <= Later(t, u) /\ u <= Later(t, u)
BY ConstantTypes DEF Later, Times

\* Contexts left alone keep their span.
LEMMA SpanKept == ContextsSpan /\ UNCHANGED blks => ContextsSpan'
BY DEF ContextsSpan

\* A context added to the sequence brings its own span.
LEMMA SpanAdded ==
  ASSUME BlkTypes, ContextsSpan, NEW new \in VcContexts \cup TxnContexts, Spans(new),
         blks' = Append(blks, new)
  PROVE  ContextsSpan'
<1>1. /\ Len(blks') = Len(blks) + 1 /\ Len(blks) \in Nat
      /\ \A b \in 1..Len(blks) : blks'[b] = blks[b]
      /\ blks'[Len(blks) + 1] = new
  BY AppendProperties, LenProperties DEF BlkTypes
<1>2. \A b \in 1..Len(blks') : b \in 1..Len(blks) \/ b = Len(blks) + 1
  BY <1>1
<1>. QED
  BY <1>1, <1>2 DEF ContextsSpan

\* A block begun is empty and its span is its start time.
LEMMA BeginTypes ==
  ASSUME TypeOK, ContextsSpan,
         \/ \E c \in Codecs, t \in Times : BeginVc(c, t)
         \/ \E sid \in BlockStreams, t \in Times : BeginTxn(sid, t)
  PROVE  TypeOK' /\ ContextsSpan'
<1>. USE DEF TypeOK
<1>1. ASSUME NEW c \in Codecs, NEW t \in Times, BeginVc(c, t) PROVE TypeOK' /\ ContextsSpan'
  <2>1. NewVc(c, t) \in VcContexts /\ NewVc(c, t).recs = {} /\ NewVc(c, t).codec = c
    <3>1. SigTypes(varTypes) \in PartialFcn(1..MaxTypes \cup VarIds, Enc)
      BY SigTypesType DEF HierTypes
    <3>. QED
      BY <3>1, ConstantTypes DEF NewVc, VcContexts
  <2>2. BlkTypes'
    <3>1. c # "record"
      BY ConstantTypes
    <3>. QED
      BY <1>1, <2>1, <3>1, ContextAdded, FS_EmptySet DEF BeginVc
  <2>3. ContextsSpan'
    <3>1. Spans(NewVc(c, t))
      BY ConstantTypes DEF NewVc, Spans, Times
    <3>. QED
      BY <1>1, <2>1, <3>1, SpanAdded DEF BeginVc
  <2>. QED
    BY <1>1, <2>2, <2>3, FileKept, MetaKept, HierKept, IndexKept DEF BeginVc, metaVars
<1>2. ASSUME NEW sid \in BlockStreams, NEW t \in Times, BeginTxn(sid, t) PROVE TypeOK' /\ ContextsSpan'
  <2>1. NewTxn(sid, t) \in TxnContexts /\ NewTxn(sid, t).recs = {} /\ NewTxn(sid, t).codec = "record"
    BY DEF NewTxn, TxnContexts
  <2>2. BlkTypes'
    BY <1>2, <2>1, ContextAdded, FS_EmptySet DEF BeginTxn
  <2>3. ContextsSpan'
    <3>1. Spans(NewTxn(sid, t))
      BY ConstantTypes DEF NewTxn, Spans, Times
    <3>. QED
      BY <1>2, <2>1, <3>1, SpanAdded DEF BeginTxn
  <2>. QED
    BY <1>2, <2>2, <2>3, FileKept, MetaKept, HierKept, IndexKept DEF BeginTxn, metaVars
<1>. QED
  BY <1>1, <1>2

\* A value the client passes for a variable it declared is a change of that variable.
LEMMA ChangeOfVar ==
  ASSUME HierTypes, NEW h \in 1..Len(hiers), NEW k \in 1..Len(hiers[h].vars), NEW t \in Times,
         NEW n \in Int
  PROVE  [var |-> k, time |-> t, ty |-> typereg.sigs[hiers[h].vars[k]], n |-> n] \in Changes
<1>1. k \in VarIds /\ hiers[h].vars[k] \in 1..Len(typereg.sigs)
  BY DEF HierTypes, VarIds
<1>2. typereg.sigs[hiers[h].vars[k]] \in Enc
  BY <1>1, ElementOfSeq DEF HierTypes, Registry
<1>. QED
  BY <1>1, <1>2 DEF Changes

\* A change and an initial value keep the types and the span of their context.
LEMMA RecordedTypes ==
  ASSUME TypeOK, ContextsSpan, NEW b \in 1..Len(blks), NEW h \in 1..Len(hiers), NEW k \in 1..MaxVars,
         (\E t \in Times : AddChange(b, h, k, t)) \/ SetInitial(b, h, k)
  PROVE  TypeOK' /\ ContextsSpan'
<1>. USE DEF TypeOK
<1>. DEFINE c == blks[b]
<1>1. /\ c \in VcContexts /\ c.codec \in {"core", "split"} /\ c.start \in Times /\ c.end \in Times
      /\ c.recs \subseteq Changes /\ c.init \subseteq Changes /\ c.kind = "vc"
      /\ c.types \in PartialFcn(1..MaxTypes \cup VarIds, Enc)
  <2>1. c \in VcContexts \cup TxnContexts
    BY ElementOfSeq DEF BlkTypes
  <2>2. c.kind = "vc"
    BY DEF AddChange, SetInitial
  <2>. QED
    BY <2>1, <2>2, VcContextParts, TxnContextParts
<1>2. IsFiniteSet(c.recs) /\ Cardinality(c.recs) \in Nat
  BY FS_CardinalityType DEF BlkTypes
<1>3. Spans(c)
  BY DEF ContextsSpan
<1>4. ASSUME NEW t \in Times, AddChange(b, h, k, t) PROVE TypeOK' /\ ContextsSpan'
  <2>. DEFINE rec == [var |-> k, time |-> t, ty |-> typereg.sigs[hiers[h].vars[k]],
                      n |-> Cardinality(c.recs)]
              new == [c EXCEPT !.recs = @ \cup {rec}, !.end = Later(@, t)]
  <2>1. rec \in Changes
    <3>1. k \in 1..Len(hiers[h].vars) /\ Cardinality(c.recs) \in Int
      <4>1. k \in 1..Len(hiers[h].vars)
        BY <1>4 DEF AddChange
      <4>2. Cardinality(c.recs) \in Int
        BY <1>2
      <4>. QED
        BY <4>1, <4>2
    <3>. QED
      BY <3>1, ChangeOfVar
  <2>2. /\ Later(c.end, t) \in Times /\ c.end <= Later(c.end, t) /\ t <= Later(c.end, t)
    BY <1>1, LaterProperties
  <2>3. new \in VcContexts /\ new.codec = c.codec /\ new.recs = c.recs \cup {rec}
    BY <1>1, <2>1, <2>2 DEF VcContexts
  <2>4. blks' = [blks EXCEPT ![b] = new]
    BY <1>1, <1>4 DEF AddChange
  <2>5. IsFiniteSet(new.recs)
    <3>1. IsFiniteSet(c.recs \cup {rec})
      <4>. HIDE DEF rec
      <4>. QED
        BY <1>2, FS_AddElement
    <3>. QED
      BY <2>3, <3>1
  <2>6. BlkTypes'
    <3>. HIDE DEF new
    <3>. QED
      BY <1>4, <2>3, <2>4, <2>5, ContextUpdated DEF AddChange
  <2>7. Spans(new)
    <3>1. \A r \in c.recs : r.time <= Later(c.end, t)
      BY <1>1, <1>3, <2>2, ConstantTypes DEF Spans, Times, Changes
    <3>2. c.start <= Later(c.end, t)
      BY <1>1, <1>3, <2>2, ConstantTypes DEF Spans, Times
    <3>3. c.codec = "split" => c.start <= t
      BY <1>4 DEF AddChange
    <3>. QED
      BY <1>1, <1>3, <2>2, <3>1, <3>2, <3>3 DEF Spans, VcContexts
  <2>8. ContextsSpan'
    <3>. HIDE DEF new
    <3>. QED
      BY <2>4, <2>7 DEF ContextsSpan, BlkTypes
  <2>. QED
    BY <1>4, <2>6, <2>8, FileKept, MetaKept, HierKept, IndexKept DEF AddChange, metaVars
<1>5. ASSUME SetInitial(b, h, k) PROVE TypeOK' /\ ContextsSpan'
  <2>. DEFINE rec(n) == [var |-> k, time |-> c.start, ty |-> typereg.sigs[hiers[h].vars[k]], n |-> n]
              init == IF c.codec = "split" THEN c.init ELSE {r \in c.init : r.var # k} \cup {rec(0)}
              recs == IF c.codec = "split" THEN c.recs \cup {rec(-1 - Cardinality(c.recs))}
                      ELSE c.recs
              new == [c EXCEPT !.init = init, !.recs = recs]
  <2>1. rec(0) \in Changes /\ rec(-1 - Cardinality(c.recs)) \in Changes
    BY <1>1, <1>2, <1>5, ChangeOfVar DEF SetInitial
  <2>2. init \subseteq Changes /\ recs \subseteq Changes /\ IsFiniteSet(recs)
    BY <1>1, <1>2, <2>1, FS_AddElement
  <2>3. blks' = [blks EXCEPT ![b] = new]
    BY <1>1, <1>5 DEF SetInitial
  <2>4. /\ \A r \in init : r.time = c.start
        /\ \A r \in recs : r.time <= c.end
        /\ c.codec = "split" => \A r \in recs : c.start <= r.time
    BY <1>1, <1>3, ConstantTypes DEF Spans, Times
  <2>5. /\ new \in VcContexts /\ new.codec = c.codec /\ new.kind = "vc" /\ new.recs = recs
        /\ new.init = init /\ new.start = c.start /\ new.end = c.end
    <3>. HIDE DEF init, recs
    <3>. QED
      BY <1>1, <2>2 DEF VcContexts
  <2>. HIDE DEF new, init, recs
  <2>6. BlkTypes'
    BY <1>5, <2>2, <2>3, <2>5, ContextUpdated DEF SetInitial
  <2>7. Spans(new)
    BY <1>3, <2>4, <2>5 DEF Spans
  <2>8. ContextsSpan'
    BY <2>3, <2>7 DEF ContextsSpan, BlkTypes
  <2>. QED
    BY <1>5, <2>6, <2>8, FileKept, MetaKept, HierKept, IndexKept DEF SetInitial, metaVars
<1>. QED
  BY <1>4, <1>5

\* What a flush makes of one encoded block: a block of the file whose changes lie
\* between the block's times.
LEMMA VcBlockProperties ==
  ASSUME NEW p \in VcContexts, NEW id \in Nat, Spans(p), ~EncodeFails(p)
  PROVE  /\ VcBlock(p, id) \in Blocks /\ VcBlock(p, id).type = "VC"
         /\ \A r \in VcBlock(p, id).recs : p.start <= r.time /\ r.time <= p.end
<1>. DEFINE kept == {r \in p.init : \A s \in p.recs : s.var # r.var}
            recs == p.recs \cup kept
            enc  == [v \in {r.var : r \in recs} |-> EncodedType(p, v)]
<1>1. VcBlock(p, id) = [type |-> "VC", codec |-> id, recs |-> recs, enc |-> enc]
  BY DEF VcBlock
<1>2. recs \subseteq Changes
  BY VcContextParts
<1>3. enc \in PartialFcn(VarIds, Enc)
  <2>1. {r.var : r \in recs} \in SUBSET VarIds
    BY <1>2 DEF Changes
  <2>2. \A v : EncodedType(p, v) \in Enc
    BY VcContextParts, WriterAssumption DEF EncodedType, PartialFcn
  <2>. DEFINE E == {r.var : r \in recs}
  <2>. HIDE DEF E
  <2>3. [v \in E |-> EncodedType(p, v)] \in [E -> Enc]
    BY <2>2
  <2>. QED
    BY <2>1, <2>3 DEF PartialFcn, E
<1>4. \A r \in recs : p.start <= r.time /\ r.time <= p.end
  <2>1. ASSUME NEW r \in p.recs PROVE p.start <= r.time /\ r.time <= p.end
    <3>1. r.time \in Times /\ p.start \in Times
      BY VcContextParts DEF Changes
    <3>2. CASE p.codec = "core"
      BY <3>1, <3>2, VcContextParts, ConstantTypes DEF Spans, EncodeFails, Times
    <3>3. CASE p.codec = "split"
      BY <3>3, VcContextParts DEF Spans
    <3>. QED
      BY <3>2, <3>3, VcContextParts
  <2>2. ASSUME NEW r \in kept PROVE p.start <= r.time /\ r.time <= p.end
    BY <2>2, VcContextParts, ConstantTypes DEF Spans, Times
  <2>. QED
    BY <2>1, <2>2
<1>. QED
  <2>. HIDE DEF recs, enc
  <2>. QED
    BY <1>1, <1>2, <1>3, <1>4 DEF Blocks

\* The same for the blocks of one flush and their index entries.
LEMMA VcBlocksProperties ==
  ASSUME NEW parts \in Seq(VcContexts), NEW id \in Nat, NEW off \in Nat,
         \A i \in 1..Len(parts) : Spans(parts[i]) /\ ~EncodeFails(parts[i])
  PROVE  /\ VcBlocks(parts, id) \in Seq(Blocks) /\ Len(VcBlocks(parts, id)) = Len(parts)
         /\ VcIndex(parts, off) \in Seq(Ranges) /\ Len(VcIndex(parts, off)) = Len(parts)
         /\ \A i \in 1..Len(parts) :
              /\ VcIndex(parts, off)[i].off = off + i /\ VcBlocks(parts, id)[i].type = "VC"
              /\ \A r \in VcBlocks(parts, id)[i].recs :
                   /\ VcIndex(parts, off)[i].start <= r.time
                   /\ r.time <= VcIndex(parts, off)[i].end
<1>1. Len(parts) \in Nat /\ \A i \in 1..Len(parts) : parts[i] \in VcContexts
  BY ElementOfSeq
<1>2. \A i \in 1..Len(parts) :
        /\ VcBlock(parts[i], id) \in Blocks /\ VcBlock(parts[i], id).type = "VC"
        /\ \A r \in VcBlock(parts[i], id).recs : parts[i].start <= r.time /\ r.time <= parts[i].end
  BY <1>1, VcBlockProperties
<1>3. VcBlocks(parts, id) \in Seq(Blocks) /\ Len(VcBlocks(parts, id)) = Len(parts)
  BY <1>1, <1>2 DEF VcBlocks
<1>4. \A i \in 1..Len(parts) :
        [start |-> parts[i].start, end |-> parts[i].end, off |-> off + i] \in Ranges
  BY <1>1, VcContextParts DEF Ranges
<1>5. VcIndex(parts, off) \in Seq(Ranges) /\ Len(VcIndex(parts, off)) = Len(parts)
  BY <1>1, <1>4 DEF VcIndex
<1>. QED
  BY <1>1, <1>2, <1>3, <1>5 DEF VcBlocks, VcIndex

\* The blocks a flush encodes have the types and the times of contexts.
LEMMA VcPartsProperties ==
  ASSUME TypeOK, ContextsSpan, NEW b \in 1..Len(blks), blks[b].kind = "vc", NEW parts \in VcParts(b)
  PROVE  parts \in Seq(VcContexts) /\ \A i \in 1..Len(parts) : Spans(parts[i])
<1>. USE DEF TypeOK
<1>. DEFINE c == blks[b]
<1>1. \A d \in 1..Len(blks) : blks[d].kind = "vc" =>
        blks[d] \in VcContexts /\ Spans(blks[d])
  <2>1. TAKE d \in 1..Len(blks)
  <2>2. blks[d] \in VcContexts \cup TxnContexts
    BY ElementOfSeq DEF BlkTypes
  <2>. QED
    BY <2>2, TxnContextParts DEF ContextsSpan
<1>2. CASE c.codec = "core" /\ ScopeGrouped
  <2>1. \A r \in c.recs \cup c.init : ScopeOf(r.var) \in 0..MaxScopes
    BY ConstantTypes DEF ScopeOf, HierTypes, PartialFcn
  <2>2. \A s : ScopePart(c, s) \in VcContexts /\ Spans(ScopePart(c, s))
    <3>1. TAKE s
    <3>. DEFINE recs == {r \in c.recs : ScopeOf(r.var) = s}
                init == {r \in c.init : ScopeOf(r.var) = s}
    <3>2. recs \subseteq Changes /\ init \subseteq Changes /\ c.start \in Times
      BY <1>1, VcContextParts
    <3>3. /\ EndTime(c.start, recs) \in Times /\ c.start <= EndTime(c.start, recs)
          /\ \A r \in recs : r.time <= EndTime(c.start, recs)
      BY <3>2, EndTimeProperties DEF Changes
    <3>4. ScopePart(c, s) = [c EXCEPT !.recs = recs, !.init = init, !.end = EndTime(c.start, recs)]
      BY DEF ScopePart
    <3>. DEFINE last == EndTime(c.start, recs)
    <3>. HIDE DEF last
    <3>5. ScopePart(c, s) = [c EXCEPT !.recs = recs, !.init = init, !.end = last]
      BY <3>4 DEF last
    <3>6. last \in Times /\ c.start <= last /\ \A r \in recs : r.time <= last
      BY <3>3 DEF last
    <3>7. ScopePart(c, s) \in VcContexts
      BY <1>1, <3>2, <3>5, <3>6 DEF VcContexts
    <3>8. /\ ScopePart(c, s).start = c.start /\ ScopePart(c, s).end = last
          /\ ScopePart(c, s).recs = recs /\ ScopePart(c, s).init = init
          /\ ScopePart(c, s).kind = "vc" /\ ScopePart(c, s).codec = "core"
      BY <1>1, <1>2, <3>5 DEF VcContexts
    <3>. QED
      BY <1>1, <3>6, <3>7, <3>8 DEF Spans
  <2>. DEFINE used == {ScopeOf(r.var) : r \in c.recs \cup c.init}
  <2>3. Cardinality(used) \in Nat
    <3>1. used \in SUBSET (0..MaxScopes)
      BY <2>1
    <3>2. IsFiniteSet(0..MaxScopes)
      BY ConstantTypes, FS_Interval
    <3>. QED
      BY <3>1, <3>2, FS_Subset, FS_CardinalityType
  <2>4. PICK order \in [1..Cardinality(used) -> used] :
          parts = [i \in 1..Len(order) |-> ScopePart(c, order[i])]
    BY <1>2 DEF VcParts, ScopeOrders
  <2>5. Len(order) = Cardinality(used)
    BY <2>3, <2>4
  <2>. QED
    BY <2>2, <2>3, <2>4, <2>5
<1>3. CASE ~(c.codec = "core" /\ ScopeGrouped)
  <2>1. CASE c.codec = "core"
    <3>1. vcState \in 1..Len(blks) /\ blks[vcState].codec = "core"
      BY <2>1 DEF BlkTypes
    <3>2. blks[vcState].kind = "vc"
      BY <3>1, ElementOfSeq, TxnContextParts, VcContextParts DEF BlkTypes
    <3>3. parts = <<blks[vcState]>>
      BY <1>3, <2>1 DEF VcParts
    <3>. QED
      BY <1>1, <3>1, <3>2, <3>3
  <2>2. CASE c.codec # "core"
    <3>1. parts = <<c>>
      BY <1>3, <2>2 DEF VcParts
    <3>. QED
      BY <1>1, <3>1
  <2>. QED
    BY <2>1, <2>2
<1>. QED
  BY <1>2, <1>3

\* After its flush a context is as it was, closed or still open.
LEMMA FlushedContext ==
  ASSUME BlkTypes, NEW b \in 1..Len(blks), AfterFlush(b)
  PROVE  \E o \in {FALSE, blks[b].open} : blks' = [blks EXCEPT ![b] = [blks[b] EXCEPT !.open = o]]
<1>1. CASE blks' = [blks EXCEPT ![b].open = FALSE]
  BY <1>1
<1>2. CASE UNCHANGED blks
  <2>1. blks[b] \in VcContexts \cup TxnContexts
    BY ElementOfSeq DEF BlkTypes
  <2>2. [blks[b] EXCEPT !.open = blks[b].open] = blks[b]
    BY <2>1 DEF VcContexts, TxnContexts
  <2>3. [blks EXCEPT ![b] = blks[b]] = blks
    BY DEF BlkTypes
  <2>. QED
    BY <1>2, <2>2, <2>3
<1>. QED
  BY <1>1, <1>2 DEF AfterFlush

\* A flushed context keeps all but its openness.
LEMMA Left ==
  ASSUME BlkTypes, ContextsSpan, NEW b \in 1..Len(blks), AfterFlush(b), UNCHANGED <<vcState, txnState>>
  PROVE  BlkTypes' /\ ContextsSpan'
<1>. DEFINE c == blks[b]
<1>0. PICK o \in {FALSE, c.open} : blks' = [blks EXCEPT ![b] = [c EXCEPT !.open = o]]
  BY FlushedContext
<1>. DEFINE new == [c EXCEPT !.open = o]
<1>1. c \in VcContexts \cup TxnContexts /\ IsFiniteSet(c.recs)
  BY ElementOfSeq DEF BlkTypes
<1>2. new \in VcContexts \cup TxnContexts
  BY <1>1 DEF VcContexts, TxnContexts
<1>3. /\ new.codec = c.codec /\ new.recs = c.recs /\ new.init = c.init /\ new.kind = c.kind
      /\ new.start = c.start /\ new.end = c.end
  BY <1>1 DEF VcContexts, TxnContexts
<1>4. blks' = [blks EXCEPT ![b] = new]
  BY <1>0
<1>. HIDE DEF new
<1>5. BlkTypes'
  BY <1>1, <1>2, <1>3, <1>4, ContextUpdated
<1>6. Spans(new)
  BY <1>3 DEF ContextsSpan, Spans
<1>. QED
  BY <1>4, <1>5, <1>6 DEF ContextsSpan, BlkTypes

\* The file is only ever appended to.
Grows == Len(file) <= Len(file') /\ \A i \in 1..Len(file) : file'[i] = file[i]

\* Blocks written at the end of the file.
LEMMA Concatenated ==
  ASSUME FileTypes, NEW more \in Seq(Blocks), file' = file \o more
  PROVE  /\ file' \in Seq(Blocks) /\ Grows /\ Len(file') = Len(file) + Len(more)
         /\ \A i \in 1..Len(more) : file'[Len(file) + i] = more[i]
<1>1. file \in Seq(Blocks) /\ Len(file) \in Nat /\ Len(more) \in Nat
  BY DEF FileTypes
<1>2. /\ file' \in Seq(Blocks) /\ Len(file') = Len(file) + Len(more)
      /\ \A i \in 1..Len(file) + Len(more) :
           file'[i] = IF i <= Len(file) THEN file[i] ELSE more[i - Len(file)]
  BY <1>1, ConcatProperties
<1>. QED
  BY <1>1, <1>2 DEF Grows

\* Entries made before keep leading to their blocks.
LEMMA EntriesKept ==
  ASSUME FileTypes, Grows
  PROVE  /\ VcIndexCovers /\ UNCHANGED vcEntries => VcIndexCovers'
         /\ TxnIndexCovers /\ UNCHANGED txnEntries => TxnIndexCovers'
<1>1. \A n \in 1..Len(file) : n \in 1..Len(file') /\ file'[n] = file[n]
  BY DEF Grows, FileTypes
<1>2. ASSUME VcIndexCovers, UNCHANGED vcEntries PROVE VcIndexCovers'
  BY <1>1, <1>2 DEF VcIndexCovers
<1>3. ASSUME TxnIndexCovers, UNCHANGED txnEntries PROVE TxnIndexCovers'
  BY <1>1, <1>3 DEF TxnIndexCovers
<1>. QED
  BY <1>2, <1>3

\* Blocks written at the end of the file with their entries.
LEMMA VcEntriesAdded ==
  ASSUME FileTypes, IndexTypes, VcIndexCovers,
         NEW parts \in Seq(VcContexts), NEW id \in Nat, NEW off \in Nat,
         \A i \in 1..Len(parts) : Spans(parts[i]) /\ ~EncodeFails(parts[i]),
         Grows, Len(file') = off + Len(parts),
         \A i \in 1..Len(parts) : file'[off + i] = VcBlocks(parts, id)[i],
         vcEntries' = vcEntries \o VcIndex(parts, off)
  PROVE  VcIndexCovers' /\ vcEntries' \in Seq(Ranges)
<1>. DEFINE new == VcIndex(parts, off)
<1>1. /\ new \in Seq(Ranges) /\ Len(new) = Len(parts)
      /\ \A i \in 1..Len(parts) :
           /\ new[i].off = off + i /\ VcBlocks(parts, id)[i].type = "VC"
           /\ \A r \in VcBlocks(parts, id)[i].recs : new[i].start <= r.time /\ r.time <= new[i].end
  BY VcBlocksProperties
<1>. HIDE DEF new
<1>2. /\ vcEntries \in Seq(Ranges) /\ Len(vcEntries) \in Nat /\ Len(parts) \in Nat
  BY DEF IndexTypes
<1>3. /\ vcEntries' \in Seq(Ranges) /\ Len(vcEntries') = Len(vcEntries) + Len(parts)
      /\ \A i \in 1..Len(vcEntries) + Len(parts) :
           vcEntries'[i] = IF i <= Len(vcEntries) THEN vcEntries[i] ELSE new[i - Len(vcEntries)]
  <2>1. vcEntries' = vcEntries \o new
    BY DEF new
  <2>2. /\ vcEntries \o new \in Seq(Ranges)
        /\ Len(vcEntries \o new) = Len(vcEntries) + Len(new)
        /\ \A i \in 1..Len(vcEntries) + Len(new) : (vcEntries \o new)[i] =
             IF i <= Len(vcEntries) THEN vcEntries[i] ELSE new[i - Len(vcEntries)]
    <3>1. new \in Seq(Ranges) /\ vcEntries \in Seq(Ranges)
      BY <1>1, <1>2
    <3>. QED
      BY <3>1, ConcatProperties
  <2>. QED
    BY <1>1, <2>1, <2>2
<1>4. ASSUME NEW i \in 1..Len(vcEntries')
      PROVE  LET e == vcEntries'[i]
             IN  /\ e.off \in 1..Len(file') /\ file'[e.off].type = "VC"
                 /\ \A r \in file'[e.off].recs : e.start <= r.time /\ r.time <= e.end
  <2>1. CASE i <= Len(vcEntries)
    <3>1. i \in 1..Len(vcEntries) /\ vcEntries'[i] = vcEntries[i]
      BY <1>2, <1>3, <2>1
    <3>2. /\ vcEntries[i].off \in 1..Len(file') 
          /\ file'[vcEntries[i].off] = file[vcEntries[i].off]
      BY <3>1 DEF VcIndexCovers, Grows, FileTypes
    <3>. QED
      BY <3>1, <3>2 DEF VcIndexCovers
  <2>2. CASE ~(i <= Len(vcEntries))
    <3>. DEFINE j == i - Len(vcEntries)
    <3>1. j \in 1..Len(parts) /\ vcEntries'[i] = new[j]
      BY <1>2, <1>3, <2>2
    <3>2. new[j].off = off + j /\ off + j \in 1..Len(file') /\ file'[off + j] = VcBlocks(parts, id)[j]
      BY <1>1, <1>2, <3>1
    <3>. HIDE DEF j
    <3>. QED
      BY <1>1, <3>1, <3>2
  <2>. QED
    BY <2>1, <2>2
<1>. QED
  BY <1>3, <1>4 DEF VcIndexCovers

\* A flush of value changes writes blocks and entries that fit each other.
LEMMA FlushVcTypes ==
  ASSUME TypeOK, ContextsSpan, VcIndexCovers, NEW b \in 1..Len(blks), FlushVc(b)
  PROVE  TypeOK' /\ ContextsSpan' /\ VcIndexCovers' /\ Grows
<1>. USE DEF TypeOK
<1>1. strtab' \in Seq(Strings) /\ (blks[b].codec = "split" => IdOf(strtab', SplitName) \in Nat)
  <2>1. CASE blks[b].codec = "split"
    <3>1. strtab' = Intern(strtab, SplitName) /\ SplitName \in Strings /\ strtab \in Seq(Strings)
      BY <2>1, WriterAssumption DEF FlushVc, MetaTypes
    <3>. QED
      BY <3>1, InternProperties
  <2>2. CASE blks[b].codec # "split"
    BY <2>2 DEF FlushVc, MetaTypes
  <2>. QED
    BY <2>1, <2>2
<1>. DEFINE id == IF blks[b].codec = "split" THEN IdOf(strtab', SplitName) ELSE 0
<1>0. PICK parts \in VcParts(b) : \E n \in 0..Len(parts) :
        /\ Encoded(parts, n)
        /\ file' = file \o VcBlocks(SubSeq(parts, 1, n), id)
        /\ vcEntries' = vcEntries \o VcIndex(SubSeq(parts, 1, n), Len(file))
  BY DEF FlushVc
<1>2. PICK n \in 0..Len(parts) :
        /\ Encoded(parts, n)
        /\ file' = file \o VcBlocks(SubSeq(parts, 1, n), id)
        /\ vcEntries' = vcEntries \o VcIndex(SubSeq(parts, 1, n), Len(file))
  BY <1>0
<1>3. id \in Nat
  BY <1>1
<1>. DEFINE written == SubSeq(parts, 1, n)
<1>. HIDE DEF id
<1>4. parts \in Seq(VcContexts) /\ \A i \in 1..Len(parts) : Spans(parts[i])
  BY VcPartsProperties DEF FlushVc
<1>5. /\ written \in Seq(VcContexts) /\ Len(written) = n
      /\ \A i \in 1..n : written[i] = parts[i]
  <2>1. n \in Nat /\ \A i \in 1..n : parts[i] \in VcContexts
    BY <1>4, ElementOfSeq
  <2>. QED
    BY <2>1, SubSeqProperties
<1>. HIDE DEF written
<1>6. \A i \in 1..Len(written) : Spans(written[i]) /\ ~EncodeFails(written[i])
  <2>1. Len(parts) \in Nat /\ n \in 0..Len(parts) /\ \A i \in 1..n : ~EncodeFails(parts[i])
    BY <1>2, <1>4 DEF Encoded
  <2>2. \A i \in 1..n : i \in 1..Len(parts)
    BY <2>1
  <2>3. \A i \in 1..n : Spans(parts[i]) /\ ~EncodeFails(parts[i])
    BY <1>4, <2>1, <2>2
  <2>. QED
    BY <1>5, <2>3
<1>7. /\ VcBlocks(written, id) \in Seq(Blocks) /\ Len(VcBlocks(written, id)) = Len(written)
      /\ Len(file) \in Nat
  <2>1. Len(file) \in Nat
    BY DEF FileTypes
  <2>. QED
    BY <1>3, <1>5, <1>6, <2>1, VcBlocksProperties
<1>8. file' = file \o VcBlocks(written, id) /\ vcEntries' = vcEntries \o VcIndex(written, Len(file))
  BY <1>2 DEF written
<1>9. /\ file' \in Seq(Blocks) /\ Grows /\ Len(file') = Len(file) + Len(written)
      /\ \A i \in 1..Len(written) : file'[Len(file) + i] = VcBlocks(written, id)[i]
  BY <1>7, <1>8, Concatenated
<1>10. VcIndexCovers' /\ vcEntries' \in Seq(Ranges)
  BY <1>3, <1>5, <1>6, <1>7, <1>8, <1>9, VcEntriesAdded
<1>11. BlkTypes' /\ ContextsSpan'
  BY Left DEF FlushVc
<1>12. FileTypes' /\ MetaTypes' /\ IndexTypes'
  BY <1>1, <1>9, <1>10 DEF FlushVc, FileTypes, MetaTypes, IndexTypes, auxVars
<1>. QED
  BY <1>9, <1>10, <1>11, <1>12, HierKept DEF FlushVc

\* One more record of a transaction block: its times are times, and a completed
\* transaction or an end moves the block's end.
LEMMA AddRecordTypes ==
  ASSUME TypeOK, ContextsSpan, NEW b \in 1..Len(blks), NEW rec \in TxnRecs, NEW until \in Times,
         rec.tag \in {"FULL", "END"} => rec.until <= until,
         AddRecord(b, rec, until), strtab' \in Seq(Strings)
  PROVE  TypeOK' /\ ContextsSpan'
<1>. USE DEF TypeOK
<1>. DEFINE c    == blks[b]
            last == Later(c.end, until)
            new  == [c EXCEPT !.recs = @ \cup {rec}, !.end = last]
<1>1. /\ c \in TxnContexts /\ c.recs \subseteq TxnRecs /\ c.start \in Times /\ c.end \in Times
      /\ c.kind = "txn" /\ c.codec = "record"
  <2>1. c \in VcContexts \cup TxnContexts
    BY ElementOfSeq DEF BlkTypes
  <2>. QED
    BY <2>1, VcContextParts, TxnContextParts DEF AddRecord
<1>2. last \in Times /\ c.end <= last /\ until <= last
  BY <1>1, LaterProperties
<1>3. blks' = [blks EXCEPT ![b] = new]
  BY <1>1 DEF AddRecord
<1>. HIDE DEF last
<1>4. /\ new \in TxnContexts /\ new.recs = c.recs \cup {rec} /\ new.kind = "txn"
      /\ new.codec = "record" /\ new.start = c.start /\ new.end = last
  BY <1>1, <1>2 DEF TxnContexts
<1>5. IsFiniteSet(new.recs)
  BY <1>4, FS_AddElement DEF BlkTypes
<1>. HIDE DEF new
<1>6. BlkTypes'
  BY <1>1, <1>3, <1>4, <1>5, ContextUpdated DEF AddRecord
<1>7. Spans(new)
  <2>1. Spans(c)
    BY DEF ContextsSpan
  <2>2. \A r \in c.recs \cup {rec} : r.tag \in {"FULL", "END"} => r.until <= last
    <3>1. \A r \in c.recs \cup {rec} : r.until \in Times
      BY <1>1 DEF TxnRecs
    <3>. QED
      BY <1>1, <1>2, <2>1, <3>1, ConstantTypes DEF Spans, Times
  <2>3. c.start <= last
    BY <1>1, <1>2, <2>1, ConstantTypes DEF Spans, Times
  <2>. QED
    BY <1>4, <2>2, <2>3 DEF Spans
<1>8. ContextsSpan'
  BY <1>3, <1>7 DEF ContextsSpan, BlkTypes
<1>. QED
  BY <1>6, <1>8, FileKept, HierKept, IndexKept DEF AddRecord, MetaTypes

\* Every call that adds a record to a transaction block.
LEMMA RecordTypes ==
  ASSUME TypeOK, ContextsSpan, NEW b \in 1..Len(blks), NEW i \in TxnIds,
         \/ \E sid \in Streams, t, u \in Times : WriteFull(b, sid, i, t, u)
         \/ \E sid \in Streams, t \in Times : WriteBegin(b, sid, i, t)
         \/ \E t \in Times : WriteEnd(b, i, t)
         \/ WriteNote(b, i)
         \/ \E s, v \in Names : WriteMeta(b, i, s, v)
  PROVE  TypeOK' /\ ContextsSpan'
<1>. USE DEF TypeOK
<1>a. blks[b].end \in Times /\ 0 \in Times /\ << >> \in Seq(Nat)
  BY ElementOfSeq, VcContextParts, TxnContextParts, ConstantTypes DEF BlkTypes, Times
<1>b. Cardinality(blks[b].recs) \in Nat
  BY FS_CardinalityType DEF BlkTypes
<1>1. ASSUME NEW sid \in Streams, NEW t \in Times, NEW u \in Times, WriteFull(b, sid, i, t, u)
      PROVE  TypeOK' /\ ContextsSpan'
  <2>. DEFINE rec == TxnRec(b, "FULL", sid, i, t, u, << >>)
  <2>1. rec \in TxnRecs /\ rec.tag = "FULL" /\ rec.until = u /\ u <= u
    BY <1>a, <1>b, ConstantTypes DEF TxnRec, TxnRecs, Times
  <2>. QED
    BY <1>1, <2>1, AddRecordTypes DEF WriteFull, MetaTypes
<1>2. ASSUME NEW sid \in Streams, NEW t \in Times, WriteBegin(b, sid, i, t)
      PROVE  TypeOK' /\ ContextsSpan'
  <2>. DEFINE rec == TxnRec(b, "BEGIN", sid, i, t, t, << >>)
  <2>1. rec \in TxnRecs /\ rec.tag = "BEGIN"
    BY <1>a, <1>b DEF TxnRec, TxnRecs
  <2>. QED
    BY <1>a, <1>2, <2>1, AddRecordTypes DEF WriteBegin, MetaTypes
<1>3. ASSUME NEW t \in Times, WriteEnd(b, i, t)
      PROVE  TypeOK' /\ ContextsSpan'
  <2>. DEFINE rec == TxnRec(b, "END", Mixed, i, t, t, << >>)
  <2>1. rec \in TxnRecs /\ rec.tag = "END" /\ rec.until = t /\ t <= t
    BY <1>a, <1>b, ConstantTypes DEF TxnRec, TxnRecs, Times
  <2>. QED
    BY <1>3, <2>1, AddRecordTypes DEF WriteEnd, MetaTypes
<1>4. ASSUME WriteNote(b, i)
      PROVE  TypeOK' /\ ContextsSpan'
  <2>. DEFINE rec == TxnRec(b, "NOTE", Mixed, i, 0, 0, << >>)
  <2>1. rec \in TxnRecs /\ rec.tag = "NOTE"
    BY <1>a, <1>b DEF TxnRec, TxnRecs
  <2>. QED
    BY <1>a, <1>4, <2>1, AddRecordTypes DEF WriteNote, MetaTypes
<1>5. ASSUME NEW s \in Names, NEW v \in Names, WriteMeta(b, i, s, v)
      PROVE  TypeOK' /\ ContextsSpan'
  <2>1. strtab' \in Seq(Strings) /\ IdOf(strtab', s) \in Nat /\ IdOf(strtab', v) \in Nat
    BY <1>5, ConstantTypes, InternTwo DEF WriteMeta, MetaTypes
  <2>. DEFINE ids == <<IdOf(strtab', s), IdOf(strtab', v)>>
              rec == TxnRec(b, "META", Mixed, i, 0, 0, ids)
  <2>2. ids \in Seq(Nat)
    BY <2>1
  <2>3. rec \in TxnRecs /\ rec.tag = "META"
    <3>. HIDE DEF ids
    <3>. QED
      BY <1>a, <1>b, <2>2 DEF TxnRec, TxnRecs
  <2>. QED
    BY <1>a, <1>5, <2>1, <2>3, AddRecordTypes DEF WriteMeta
<1>. QED
  BY <1>1, <1>2, <1>3, <1>4, <1>5

\* A flush of transactions that is refused leaves file and index alone.
LEMMA RefusedTxn ==
  ASSUME TypeOK, ContextsSpan, TxnIndexCovers, NEW b \in 1..Len(blks), FlushTxn(b),
         UNCHANGED <<file, txnEntries>>
  PROVE  TypeOK' /\ ContextsSpan' /\ TxnIndexCovers' /\ Grows
<1>. USE DEF TypeOK
<1>1. BlkTypes' /\ ContextsSpan'
  BY Left DEF FlushTxn
<1>2. FileTypes' /\ IndexTypes' /\ Grows /\ TxnIndexCovers'
  BY FileKept, IndexKept DEF FlushTxn, FileTypes, fileVars, Grows, TxnIndexCovers
<1>. QED
  BY <1>1, <1>2, MetaKept, HierKept DEF FlushTxn, metaVars

\* A flush of transactions takes the block and its times from the same context.
LEMMA PutTxnTypes ==
  ASSUME TypeOK, ContextsSpan, TxnIndexCovers, NEW b \in 1..Len(blks), FlushTxn(b), PutTxn(b)
  PROVE  TypeOK' /\ ContextsSpan' /\ TxnIndexCovers' /\ Grows
<1>. USE DEF TypeOK
<1>. DEFINE c   == blks[txnState]
            blk == [type |-> "TXN", recs |-> c.recs]
            e   == [start |-> c.start, end |-> c.end, off |-> Len(file) + 1, sid |-> blks[b].sid]
<1>1. blks[b] \in TxnContexts /\ blks[b].codec = "record" /\ blks[b].sid \in BlockStreams
  <2>1. blks[b] \in VcContexts \cup TxnContexts
    BY ElementOfSeq DEF BlkTypes
  <2>. QED
    BY <2>1, VcContextParts, TxnContextParts DEF FlushTxn
<1>2. txnState \in 1..Len(blks) /\ blks[txnState].codec = "record"
  BY <1>1 DEF BlkTypes
<1>3. /\ c \in TxnContexts /\ c.start \in Times /\ c.end \in Times /\ c.recs \subseteq TxnRecs
      /\ c.kind = "txn"
  <2>1. c \in VcContexts \cup TxnContexts
    BY <1>2, ElementOfSeq DEF BlkTypes
  <2>. QED
    BY <1>2, <2>1, VcContextParts, TxnContextParts
<1>4. \A r \in c.recs : r.tag \in {"FULL", "END"} => r.until <= c.end
  BY <1>2, <1>3 DEF ContextsSpan, Spans
<1>5. blk \in Blocks /\ e \in TxnRanges /\ Len(file) \in Nat
  BY <1>1, <1>3 DEF Blocks, TxnRanges, FileTypes
<1>6. /\ file' = Append(file, blk) /\ txnEntries' = Append(txnEntries, e)
  BY DEF PutTxn
<1>7. /\ file' \in Seq(Blocks) /\ Grows /\ Len(file') = Len(file) + 1
      /\ file'[Len(file) + 1] = blk
  BY <1>5, <1>6, AppendProperties DEF FileTypes, Grows
<1>8. /\ txnEntries' \in Seq(TxnRanges) /\ Len(txnEntries') = Len(txnEntries) + 1
      /\ \A i \in 1..Len(txnEntries) : txnEntries'[i] = txnEntries[i]
      /\ txnEntries'[Len(txnEntries) + 1] = e /\ Len(txnEntries) \in Nat
  BY <1>5, <1>6, AppendProperties DEF IndexTypes
<1>9. ASSUME NEW i \in 1..Len(txnEntries')
      PROVE  LET f == txnEntries'[i]
             IN  /\ f.off \in 1..Len(file') /\ file'[f.off].type = "TXN"
                 /\ \A r \in file'[f.off].recs : r.tag \in {"FULL", "END"} => r.until <= f.end
  <2>1. CASE i \in 1..Len(txnEntries)
    <3>1. txnEntries'[i] = txnEntries[i]
      BY <1>8, <2>1
    <3>2. /\ txnEntries[i].off \in 1..Len(file) /\ file[txnEntries[i].off].type = "TXN"
          /\ \A r \in file[txnEntries[i].off].recs :
               r.tag \in {"FULL", "END"} => r.until <= txnEntries[i].end
      BY <2>1 DEF TxnIndexCovers
    <3>3. /\ txnEntries[i].off \in 1..Len(file')
          /\ file'[txnEntries[i].off] = file[txnEntries[i].off]
      BY <1>5, <1>7, <3>2 DEF Grows
    <3>. QED
      BY <3>1, <3>2, <3>3
  <2>2. CASE i = Len(txnEntries) + 1
    <3>1. /\ e.off = Len(file) + 1 /\ e.end = c.end /\ blk.type = "TXN" /\ blk.recs = c.recs
      OBVIOUS
    <3>2. Len(file) + 1 \in 1..Len(file')
      BY <1>5, <1>7
    <3>. HIDE DEF e, blk
    <3>. QED
      BY <1>4, <1>7, <1>8, <2>2, <3>1, <3>2
  <2>. QED
    BY <1>8, <2>1, <2>2
<1>10. BlkTypes' /\ ContextsSpan'
  BY Left DEF FlushTxn
<1>11. FileTypes' /\ IndexTypes'
  BY <1>7, <1>8 DEF FlushTxn, FileTypes, IndexTypes, auxVars
<1>. QED
  BY <1>7, <1>9, <1>10, <1>11, MetaKept, HierKept DEF FlushTxn, metaVars, TxnIndexCovers

\* Either way a flush of transactions keeps the invariant.
LEMMA FlushTxnTypes ==
  ASSUME TypeOK, ContextsSpan, TxnIndexCovers, NEW b \in 1..Len(blks), FlushTxn(b)
  PROVE  TypeOK' /\ ContextsSpan' /\ TxnIndexCovers' /\ Grows
<1>1. UNCHANGED <<file, txnEntries>> \/ PutTxn(b)
  BY DEF FlushTxn
<1>. QED
  BY <1>1, RefusedTxn, PutTxnTypes

\* A keyed block of a client or of a derived signal.
LEMMA PutAuxTypes ==
  ASSUME FileTypes, IndexTypes, NEW key \in AllAuxKeys, PutAux(key), NEW strs \in Seq(Nat)
  PROVE  /\ keyEntries' \in Seq(KeyEntries) /\ auxOrdinals' \in [AllAuxKeys -> Nat]
         /\ AuxBlock(key, strs) \in Blocks
<1>1. auxOrdinals[key] \in Nat /\ Len(file) \in Nat
  BY DEF IndexTypes, FileTypes
<1>2. AuxBlock(key, strs) \in Blocks
  BY <1>1 DEF AuxBlock, Blocks
<1>3. [key |-> key, ordinal |-> auxOrdinals[key], off |-> Len(file) + 1] \in KeyEntries
  BY <1>1 DEF KeyEntries
<1>4. keyEntries' \in Seq(KeyEntries)
  BY <1>3, AppendProperties DEF PutAux, IndexTypes
<1>. QED
  BY <1>1, <1>2, <1>4 DEF PutAux, IndexTypes

\* The id and the key of the next derived signal.
LEMMA DerivedKey ==
  ASSUME IndexTypes, derived < MaxDerived
  PROVE  /\ DerivedBase + derived \in VarIds /\ derived + 1 \in 0..MaxDerived
         /\ <<DerivedOwner, DerivedBase + derived>> \in AllAuxKeys
<1>1. derived \in 0..MaxDerived /\ derived \in Nat
  BY DEF IndexTypes
<1>2. DerivedBase + derived \in DerivedBase..DerivedBase + MaxDerived
  BY <1>1, ConstantTypes DEF DerivedBase
<1>. QED
  BY <1>1, <1>2, ConstantTypes DEF VarIds, AllAuxKeys

\* The declaration of a derived signal keeps the types.
LEMMA DeclareDerivedTypes ==
  ASSUME TypeOK, NEW e \in DerivedEncs, NEW name \in Names, DeclareDerived(e, name)
  PROVE  /\ MetaTypes' /\ HierTypes' /\ varTypes' \in PartialFcn(VarIds, Enc)
         /\ keyEntries' \in Seq(KeyEntries) /\ auxOrdinals' \in [AllAuxKeys -> Nat]
         /\ derived' \in 0..MaxDerived /\ DefinitionBlock(name) \in Blocks
<1>. USE DEF TypeOK
<1>. DEFINE id == DerivedBase + derived
<1>1. /\ id \in VarIds /\ derived + 1 \in 0..MaxDerived /\ <<DerivedOwner, id>> \in AllAuxKeys
      /\ e \in Enc
  BY DerivedKey, ConstantTypes DEF DeclareDerived
<1>2. varTypes' \in PartialFcn(VarIds, Enc)
  BY <1>1, PartialExtend DEF DeclareDerived, HierTypes
<1>3. strtab' \in Seq(Strings) /\ IdOf(Intern(strtab, name), name) \in Nat
  BY ConstantTypes, InternProperties DEF DeclareDerived, MetaTypes
<1>4. <<IdOf(Intern(strtab, name), name)>> \in Seq(Nat)
  BY <1>3
<1>5. /\ keyEntries' \in Seq(KeyEntries) /\ auxOrdinals' \in [AllAuxKeys -> Nat]
      /\ DefinitionBlock(name) \in Blocks
  BY <1>1, <1>4, PutAuxTypes DEF DeclareDerived, DefinitionBlock
<1>6. MetaTypes' /\ HierTypes'
  BY <1>2, <1>3 DEF DeclareDerived, MetaTypes, HierTypes
<1>. QED
  BY <1>1, <1>2, <1>5, <1>6 DEF DeclareDerived

\* One block written at the end of the file.
LEMMA Appended ==
  ASSUME FileTypes, NEW blk \in Blocks, file' = Append(file, blk)
  PROVE  /\ file' \in Seq(Blocks) /\ Grows /\ Len(file') = Len(file) + 1
         /\ file'[Len(file) + 1] = blk
BY AppendProperties DEF FileTypes, Grows

\* Keyed blocks, extension blocks, virtual signals and refused ones.
LEMMA KeyedTypes ==
  ASSUME TypeOK, ContextsSpan,
         \/ \E k \in AuxKeys : WriteAux(k)
         \/ WriteExt
         \/ RefuseDerived
         \/ \E e \in DerivedEncs, s \in Names : AddDerived(e, s)
  PROVE  TypeOK' /\ ContextsSpan' /\ Grows
<1>. USE DEF TypeOK
<1>1. ASSUME NEW k \in AuxKeys, WriteAux(k) PROVE TypeOK' /\ ContextsSpan' /\ Grows
  <2>1. k \in AllAuxKeys /\ << >> \in Seq(Nat)
    BY DEF AllAuxKeys
  <2>2. /\ keyEntries' \in Seq(KeyEntries) /\ auxOrdinals' \in [AllAuxKeys -> Nat]
        /\ AuxBlock(k, << >>) \in Blocks
    BY <1>1, <2>1, PutAuxTypes DEF WriteAux
  <2>3. file' \in Seq(Blocks) /\ Grows
    BY <1>1, <2>2, Appended DEF WriteAux
  <2>4. FileTypes' /\ IndexTypes'
    BY <1>1, <2>2, <2>3 DEF WriteAux, FileTypes, IndexTypes
  <2>. QED
    BY <1>1, <2>3, <2>4, MetaKept, HierKept, BlkKept, SpanKept DEF WriteAux, metaVars, blkVars
<1>2. ASSUME WriteExt PROVE TypeOK' /\ ContextsSpan' /\ Grows
  <2>1. [type |-> "EXT"] \in Blocks
    BY DEF Blocks
  <2>2. file' \in Seq(Blocks) /\ Grows
    BY <1>2, <2>1, Appended DEF WriteExt
  <2>3. FileTypes'
    BY <1>2, <2>2 DEF WriteExt, FileTypes
  <2>. QED
    BY <1>2, <2>2, <2>3, MetaKept, HierKept, BlkKept, IndexKept, SpanKept
       DEF WriteExt, metaVars, blkVars
<1>3. ASSUME NEW e \in DerivedEncs, NEW s \in Names, AddDerived(e, s)
      PROVE  TypeOK' /\ ContextsSpan' /\ Grows
  <2>1. /\ MetaTypes' /\ HierTypes' /\ DefinitionBlock(s) \in Blocks
        /\ keyEntries' \in Seq(KeyEntries) /\ auxOrdinals' \in [AllAuxKeys -> Nat]
        /\ derived' \in 0..MaxDerived
    BY <1>3, DeclareDerivedTypes DEF AddDerived
  <2>2. file' \in Seq(Blocks) /\ Grows
    BY <1>3, <2>1, Appended DEF AddDerived
  <2>3. FileTypes' /\ IndexTypes'
    BY <1>3, <2>1, <2>2 DEF AddDerived, DeclareDerived, FileTypes, IndexTypes
  <2>. QED
    BY <1>3, <2>1, <2>2, <2>3, BlkKept, SpanKept DEF AddDerived, DeclareDerived, blkVars
<1>4. ASSUME RefuseDerived PROVE TypeOK' /\ ContextsSpan' /\ Grows
  <2>1. FileTypes' /\ MetaTypes' /\ HierTypes' /\ BlkTypes' /\ ContextsSpan'
    BY <1>4, FileKept, MetaKept, HierKept, BlkKept, SpanKept DEF RefuseDerived, metaVars, blkVars
  <2>2. derived' \in 0..MaxDerived
    BY <1>4, ConstantTypes DEF RefuseDerived, IndexTypes
  <2>3. IndexTypes'
    BY <1>4, <2>2 DEF RefuseDerived, IndexTypes
  <2>. QED
    BY <1>4, <2>1, <2>3 DEF RefuseDerived, fileVars, FileTypes, Grows
<1>. QED
  BY <1>1, <1>2, <1>3, <1>4

\* The earliest of some times.
LEMMA MinExists ==
  ASSUME NEW S \in SUBSET Times, S # {}
  PROVE  \E t \in S : \A u \in S : t <= u
<1>1. S \subseteq Nat
  BY ConstantTypes DEF Times
<1>2. PICK t \in S : \A u \in S : <<u, t>> \notin OpToRel(<, Nat)
  BY <1>1, WFMin, NatLessThanWellFounded, Zenon
<1>3. \A u \in S : ~(u < t)
  BY <1>1, <1>2, Zenon DEF OpToRel
<1>. QED
  BY <1>1, <1>3

\* A materialized signal's changes make a block that the default codec accepts.
LEMMA MaterializedTypes ==
  ASSUME TypeOK, ContextsSpan, VcIndexCovers, NEW e \in DerivedEncs, NEW s \in Names,
         NEW times \in SUBSET Times, AddMaterialized(e, s, times)
  PROVE  TypeOK' /\ ContextsSpan' /\ VcIndexCovers' /\ Grows
<1>. USE DEF TypeOK
<1>. DEFINE id    == DerivedBase + derived
            start == IF times = {} THEN 0 ELSE CHOOSE t \in times : \A u \in times : t <= u
            recs  == {[var |-> id, time |-> t, ty |-> e, n |-> t] : t \in times}
            last  == EndTime(start, recs)
            types == SigTypes(varTypes')
            base  == NewVc("core", start)
            blk   == [base EXCEPT !.recs = recs, !.end = last, !.types = types, !.open = FALSE]
            parts == IF ScopeGrouped /\ times = {} THEN << >> ELSE <<blk>>
<1>1. /\ MetaTypes' /\ HierTypes' /\ DefinitionBlock(s) \in Blocks
      /\ varTypes' \in PartialFcn(VarIds, Enc)
      /\ keyEntries' \in Seq(KeyEntries) /\ auxOrdinals' \in [AllAuxKeys -> Nat]
      /\ derived' \in 0..MaxDerived
  BY DeclareDerivedTypes DEF AddMaterialized
<1>2. start \in Times /\ \A t \in times : start <= t
  <2>1. CASE times = {}
    BY <2>1, ConstantTypes DEF Times
  <2>2. CASE times # {}
    <3>1. \E t \in times : \A u \in times : t <= u
      BY <2>2, MinExists
    <3>. QED
      BY <2>2, <3>1
  <2>. QED
    BY <2>1, <2>2
<1>. HIDE DEF start
<1>3. id \in VarIds /\ e \in Enc
  BY DerivedKey, ConstantTypes DEF AddMaterialized, DeclareDerived
<1>4. recs \subseteq Changes /\ \A r \in recs : r.time \in Times /\ start <= r.time
  <2>1. \A t \in times : t \in Times /\ t \in Int
    BY ConstantTypes DEF Times
  <2>2. \A t \in times : [var |-> id, time |-> t, ty |-> e, n |-> t] \in Changes
    <3>. HIDE DEF id
    <3>. QED
      BY <1>3, <2>1 DEF Changes
  <2>. QED
    BY <1>2, <2>1, <2>2
<1>5. IsFiniteSet(recs)
  <2>1. IsFiniteSet(times)
    <3>1. IsFiniteSet(0..MaxTime) /\ times \in SUBSET (0..MaxTime)
      BY ConstantTypes, FS_Interval DEF Times
    <3>. QED
      BY <3>1, FS_Subset
  <2>. DEFINE f == [t \in times |-> [var |-> id, time |-> t, ty |-> e, n |-> t]]
  <2>2. f \in Surjection(times, recs)
    BY DEF Surjection
  <2>. HIDE DEF f, recs
  <2>. QED
    BY <2>1, <2>2, FS_Surjection
<1>6. last \in Times /\ start <= last /\ \A r \in recs : r.time <= last
  <2>. HIDE DEF recs
  <2>. QED
    BY <1>2, <1>4, EndTimeProperties
<1>7. types \in PartialFcn(1..MaxTypes \cup VarIds, Enc)
  BY <1>1, SigTypesType
<1>8. \A r, q \in recs : r.time = q.time => r = q
  OBVIOUS
<1>. HIDE DEF recs, last, types
<1>9. /\ base \in VcContexts /\ base.codec = "core" /\ base.init = {} /\ base.start = start
      /\ base.kind = "vc"
  <2>1. SigTypes(varTypes) \in PartialFcn(1..MaxTypes \cup VarIds, Enc)
    BY SigTypesType DEF HierTypes
  <2>. QED
    BY <1>2, <2>1 DEF NewVc, VcContexts
<1>10. /\ blks' = Append(blks, blk) /\ vcState' = Len(blks')
       /\ file' = Append(file, DefinitionBlock(s)) \o VcBlocks(parts, 0)
       /\ vcEntries' = vcEntries \o VcIndex(parts, Len(file) + 1)
  BY DEF AddMaterialized, start, recs, last, types
<1>. HIDE DEF base
<1>11. /\ blk \in VcContexts /\ blk.recs = recs /\ blk.codec = "core" /\ blk.init = {}
       /\ blk.start = start /\ blk.end = last /\ blk.kind = "vc"
  BY <1>4, <1>6, <1>7, <1>9 DEF VcContexts
<1>. HIDE DEF blk
<1>12. Spans(blk)
  BY <1>6, <1>11 DEF Spans
<1>13. ~EncodeFails(blk)
  <2>1. \A r \in recs : ~(r.time < start)
    BY <1>2, <1>4, ConstantTypes DEF Times
  <2>. QED
    BY <1>8, <1>11, <2>1 DEF EncodeFails
<1>14. BlkTypes' /\ ContextsSpan'
  <2>1. BlkTypes'
    BY <1>5, <1>10, <1>11, ContextAdded DEF DeclareDerived, AddMaterialized
  <2>2. ContextsSpan'
    BY <1>10, <1>11, <1>12, SpanAdded
  <2>. QED
    BY <2>1, <2>2
<1>15. parts \in Seq(VcContexts) /\ \A i \in 1..Len(parts) : Spans(parts[i]) /\ ~EncodeFails(parts[i])
  BY <1>11, <1>12, <1>13
<1>. HIDE DEF parts
<1>16. /\ VcBlocks(parts, 0) \in Seq(Blocks) /\ Len(VcBlocks(parts, 0)) = Len(parts)
       /\ Len(file) \in Nat /\ Len(parts) \in Nat
  BY <1>15, VcBlocksProperties DEF FileTypes
<1>17. /\ file' \in Seq(Blocks) /\ Grows /\ Len(file') = Len(file) + 1 + Len(parts)
       /\ \A i \in 1..Len(parts) : file'[Len(file) + 1 + i] = VcBlocks(parts, 0)[i]
  <2>. DEFINE one == Append(file, DefinitionBlock(s))
  <2>1. /\ one \in Seq(Blocks) /\ Len(one) = Len(file) + 1
        /\ \A i \in 1..Len(file) : one[i] = file[i]
    BY <1>1, AppendProperties DEF FileTypes
  <2>2. file' = one \o VcBlocks(parts, 0)
    BY <1>10
  <2>. HIDE DEF one
  <2>. DEFINE two == VcBlocks(parts, 0)
  <2>a. one \in Seq(Blocks) /\ two \in Seq(Blocks) /\ Len(two) = Len(parts) /\ file' = one \o two
    BY <1>16, <2>1, <2>2
  <2>. HIDE DEF two
  <2>b. /\ one \o two \in Seq(Blocks) /\ Len(one \o two) = Len(one) + Len(two)
        /\ \A i \in 1..Len(one) + Len(two) :
             (one \o two)[i] = IF i <= Len(one) THEN one[i] ELSE two[i - Len(one)]
    BY <2>a, ConcatProperties
  <2>3. /\ file' \in Seq(Blocks) /\ Len(file') = Len(one) + Len(parts)
        /\ \A i \in 1..Len(one) + Len(parts) :
             file'[i] = IF i <= Len(one) THEN one[i] ELSE two[i - Len(one)]
    BY <2>a, <2>b
  <2>4. \A i \in 1..Len(parts) :
          /\ Len(one) + i \in 1..Len(one) + Len(parts) /\ ~(Len(one) + i <= Len(one))
          /\ Len(one) + i - Len(one) = i
    BY <1>16, <2>1
  <2>5. \A i \in 1..Len(parts) : file'[Len(one) + i] = two[i]
    BY <2>3, <2>4
  <2>6. Grows
    BY <1>16, <2>1, <2>3 DEF Grows
  <2>. QED
    BY <1>16, <2>1, <2>3, <2>5, <2>6 DEF two
<1>18. VcIndexCovers' /\ vcEntries' \in Seq(Ranges)
  <2>1. Len(file) + 1 \in Nat /\ 0 \in Nat
    BY <1>16
  <2>. QED
    BY <1>10, <1>15, <1>17, <2>1, VcEntriesAdded
<1>19. FileTypes' /\ IndexTypes'
  BY <1>1, <1>10, <1>17, <1>18 DEF AddMaterialized, DeclareDerived, FileTypes, IndexTypes
<1>. QED
  BY <1>1, <1>14, <1>17, <1>18, <1>19

\* While the writer is open its header holds no offset and there is no index.
LEMMA StillOpen ==
  ASSUME phase = "open", HeaderPoints, UNCHANGED <<phase, hdr>>
  PROVE  HeaderPoints' /\ IndexLast'
BY DEF HeaderPoints, IndexLast

\* A step that writes nothing.
LEMMA Same == FileTypes /\ UNCHANGED file => Grows
BY DEF Grows, FileTypes

\* What a block of any kind appended to the file does to it.
LEMMA AnyAppended ==
  ASSUME FileTypes, NEW blk, file' = Append(file, blk)
  PROVE  Grows
BY DEF Grows, FileTypes

\* A call that makes no index entry of a data block.
LEMMA QuietStep ==
  ASSUME WriterInv, phase = "open", TypeOK', ContextsSpan', Grows,
         UNCHANGED <<phase, hdr, vcEntries, txnEntries>>
  PROVE  WriterInv'
BY StillOpen, EntriesKept DEF WriterInv, TypeOK

\* The calls that declare keep the invariant.
LEMMA DeclareStep ==
  ASSUME WriterInv, phase = "open", Declare
  PROVE  WriterInv' /\ Grows
<1>. USE DEF WriterInv, TypeOK
<1>1. CASE \/ \E s \in Names : InternString(s) \/ AddTxnSchema(s) \/ AddStreamType(s)
           \/ \E e \in Enc : AddSignalType(e)
           \/ \E s, v \in Names : AddTraceMetadata(s, v)
           \/ FlushStringTable
           \/ FlushTypeRegistry
  <2>1. TypeOK'
    BY <1>1, MetadataTypes
  <2>2. UNCHANGED <<phase, hdr, blks, vcEntries, txnEntries>> /\ Grows
    BY <1>1, Same, AnyAppended
       DEF InternString, AddTxnSchema, AddStreamType, AddSignalType, AddTraceMetadata,
           FlushStringTable, FlushTypeRegistry, fileVars, blkVars
  <2>. QED
    BY <2>1, <2>2, SpanKept, QuietStep
<1>2. ASSUME NEW i \in 1..MaxHiers, NEW s \in Names, BeginHierarchy(i, s)
      PROVE  WriterInv' /\ Grows
  <2>1. UNCHANGED <<phase, hdr, blks, vcEntries, txnEntries>> /\ Grows
    BY <1>2, Same DEF BeginHierarchy, fileVars, blkVars
  <2>. QED
    BY <1>2, <2>1, BeginHierarchyTypes, SpanKept, QuietStep
<1>3. ASSUME NEW h \in 1..Len(hiers),
             \/ \E s, c \in Names : BeginScope(h, s, c)
             \/ EndScope(h)
             \/ \E s \in Names, ty \in 1..MaxTypes : AddVar(h, s, ty)
             \/ FlushHierarchy(h)
      PROVE  WriterInv' /\ Grows
  <2>1. TypeOK'
    BY <1>3, HierarchyTypes
  <2>2. UNCHANGED <<phase, hdr, blks, vcEntries, txnEntries>> /\ Grows
    BY <1>3, Same, AnyAppended
       DEF BeginScope, EndScope, AddVar, FlushHierarchy, fileVars, blkVars
  <2>. QED
    BY <2>1, <2>2, SpanKept, QuietStep
<1>. QED
  BY <1>1, <1>2, <1>3 DEF Declare

\* The calls on value changes keep the invariant.
LEMMA ChangesStep ==
  ASSUME WriterInv, phase = "open", RecordChanges
  PROVE  WriterInv' /\ Grows
<1>. USE DEF WriterInv, TypeOK
<1>1. ASSUME NEW c \in Codecs, NEW t \in Times, BeginVc(c, t)
      PROVE  WriterInv' /\ Grows
  <2>1. UNCHANGED <<phase, hdr, vcEntries, txnEntries>> /\ Grows
    BY <1>1, Same DEF BeginVc, fileVars
  <2>. QED
    BY <1>1, <2>1, BeginTypes, QuietStep
<1>2. ASSUME NEW b \in 1..Len(blks), NEW h \in 1..Len(hiers), NEW k \in 1..MaxVars,
             (\E t \in Times : AddChange(b, h, k, t)) \/ SetInitial(b, h, k)
      PROVE  WriterInv' /\ Grows
  <2>1. UNCHANGED <<phase, hdr, vcEntries, txnEntries>> /\ Grows
    BY <1>2, Same DEF AddChange, SetInitial, fileVars
  <2>. QED
    BY <1>2, <2>1, RecordedTypes, QuietStep
<1>3. ASSUME NEW b \in 1..Len(blks), FlushVc(b)
      PROVE  WriterInv' /\ Grows
  <2>1. TypeOK' /\ ContextsSpan' /\ VcIndexCovers' /\ Grows
    BY <1>3, FlushVcTypes
  <2>2. UNCHANGED <<phase, hdr, txnEntries>>
    BY <1>3 DEF FlushVc
  <2>. QED
    BY <2>1, <2>2, StillOpen, EntriesKept
<1>. QED
  BY <1>1, <1>2, <1>3 DEF RecordChanges

\* The calls on transactions keep the invariant.
LEMMA TxnsStep ==
  ASSUME WriterInv, phase = "open", RecordTxns
  PROVE  WriterInv' /\ Grows
<1>. USE DEF WriterInv, TypeOK
<1>1. ASSUME NEW sid \in BlockStreams, NEW t \in Times, BeginTxn(sid, t)
      PROVE  WriterInv' /\ Grows
  <2>1. UNCHANGED <<phase, hdr, vcEntries, txnEntries>> /\ Grows
    BY <1>1, Same DEF BeginTxn, fileVars
  <2>. QED
    BY <1>1, <2>1, BeginTypes, QuietStep
<1>2. ASSUME NEW b \in 1..Len(blks), NEW i \in TxnIds,
             \/ \E sid \in Streams, t, u \in Times : WriteFull(b, sid, i, t, u)
             \/ \E sid \in Streams, t \in Times : WriteBegin(b, sid, i, t)
             \/ \E t \in Times : WriteEnd(b, i, t)
             \/ WriteNote(b, i)
             \/ \E s, v \in Names : WriteMeta(b, i, s, v)
      PROVE  WriterInv' /\ Grows
  <2>1. UNCHANGED <<phase, hdr, vcEntries, txnEntries>> /\ Grows
    BY <1>2, Same
       DEF WriteFull, WriteBegin, WriteEnd, WriteNote, WriteMeta, AddRecord, fileVars
  <2>. QED
    BY <1>2, <2>1, RecordTypes, QuietStep
<1>3. ASSUME NEW b \in 1..Len(blks), FlushTxn(b)
      PROVE  WriterInv' /\ Grows
  <2>1. TypeOK' /\ ContextsSpan' /\ TxnIndexCovers' /\ Grows
    BY <1>3, FlushTxnTypes
  <2>2. UNCHANGED <<phase, hdr, vcEntries>>
    BY <1>3 DEF FlushTxn
  <2>. QED
    BY <2>1, <2>2, StillOpen, EntriesKept
<1>. QED
  BY <1>1, <1>2, <1>3 DEF RecordTxns

\* The remaining calls keep the invariant.
LEMMA OtherStep ==
  ASSUME WriterInv, phase = "open", RecordOther
  PROVE  WriterInv' /\ Grows
<1>. USE DEF WriterInv, TypeOK
<1>1. CASE \/ \E k \in AuxKeys : WriteAux(k)
           \/ WriteExt
           \/ RefuseDerived
           \/ \E e \in DerivedEncs, s \in Names : AddDerived(e, s)
  <2>1. TypeOK' /\ ContextsSpan' /\ Grows
    BY <1>1, KeyedTypes
  <2>2. UNCHANGED <<phase, hdr, vcEntries, txnEntries>>
    BY <1>1 DEF WriteAux, WriteExt, RefuseDerived, AddDerived, DeclareDerived, fileVars
  <2>. QED
    BY <2>1, <2>2, QuietStep
<1>2. ASSUME NEW e \in DerivedEncs, NEW s \in Names, NEW times \in SUBSET Times,
             AddMaterialized(e, s, times)
      PROVE  WriterInv' /\ Grows
  <2>1. TypeOK' /\ ContextsSpan' /\ VcIndexCovers' /\ Grows
    BY <1>2, MaterializedTypes
  <2>2. UNCHANGED <<phase, hdr, txnEntries>>
    BY <1>2 DEF AddMaterialized, DeclareDerived
  <2>. QED
    BY <2>1, <2>2, StillOpen, EntriesKept
<1>. QED
  BY <1>1, <1>2 DEF RecordOther

\* The close appends the index of all entries, the patch makes the header point to it.
LEMMA CloseStep ==
  ASSUME WriterInv, Close
  PROVE  WriterInv' /\ Grows
<1>. USE DEF WriterInv, TypeOK
<1>. DEFINE off   == Len(file) + Len(MetaBlocks)
            str   == [type |-> "STR", strings |-> strtab]
            reg   == [type |-> "TYPE", reg |-> typereg]
            index == [type |-> "INDEX", vc |-> vcEntries, txn |-> txnEntries, key |-> keyEntries,
                      strtab |-> off + 1, typereg |-> off + 2, hier |-> hierOffsets,
                      meta |-> IF meta = << >> THEN 0 ELSE Len(file) + 1]
            one   == file \o MetaBlocks
            two   == <<str, reg, index>>
<1>1. MetaBlocks \in Seq(Blocks)
  <2>1. [type |-> "META", attrs |-> meta] \in Blocks
    BY DEF MetaTypes, Blocks
  <2>. QED
    BY <2>1 DEF MetaBlocks
<1>2. Len(file) \in Nat /\ off \in Nat /\ file \in Seq(Blocks)
  BY <1>1, LenProperties DEF FileTypes
<1>3. str \in Blocks /\ reg \in Blocks
  BY DEF MetaTypes, HierTypes, Blocks
<1>4. index \in Blocks
  <2>1. (IF meta = << >> THEN 0 ELSE Len(file) + 1) \in Nat /\ off + 1 \in Nat /\ off + 2 \in Nat
    BY <1>2
  <2>2. /\ vcEntries \in Seq(Ranges) /\ txnEntries \in Seq(TxnRanges)
        /\ keyEntries \in Seq(KeyEntries) /\ hierOffsets \in Seq(Nat)
    BY DEF IndexTypes, HierTypes
  <2>. HIDE DEF off
  <2>. QED
    BY <2>1, <2>2 DEF Blocks
<1>5. /\ one \in Seq(Blocks) /\ Len(one) = off
      /\ \A i \in 1..Len(file) : one[i] = file[i]
  BY <1>1, <1>2, ConcatProperties
<1>6. index.type = "INDEX" /\ index.vc = vcEntries /\ index.txn = txnEntries
      /\ index.key = keyEntries /\ index.hier = hierOffsets
  OBVIOUS
<1>7. file' = one \o two
  BY DEF Close
<1>. HIDE DEF str, reg, index, one, off
<1>8. two \in Seq(Blocks) /\ Len(two) = 3 /\ two[3] = index
  BY <1>3, <1>4
<1>. HIDE DEF two
<1>9. /\ file' \in Seq(Blocks) /\ Len(file') = off + 3
      /\ \A i \in 1..off + 3 : file'[i] = IF i <= off THEN one[i] ELSE two[i - off]
  <2>1. one \in Seq(Blocks) /\ two \in Seq(Blocks)
    BY <1>5, <1>8
  <2>2. /\ one \o two \in Seq(Blocks) /\ Len(one \o two) = Len(one) + Len(two)
        /\ \A i \in 1..Len(one) + Len(two) :
             (one \o two)[i] = IF i <= Len(one) THEN one[i] ELSE two[i - Len(one)]
    BY <2>1, ConcatProperties
  <2>. QED
    BY <1>5, <1>7, <1>8, <2>2
<1>10. file'[Len(file')] = index /\ Len(file') > 0
  BY <1>2, <1>8, <1>9
<1>11. Grows
  <2>1. Len(file) <= off
    BY <1>1, <1>2, LenProperties DEF off
  <2>. QED
    BY <1>2, <1>5, <1>9, <2>1 DEF Grows
<1>12. phase' = "closing" /\ UNCHANGED <<hdr, vcEntries, txnEntries, keyEntries, hierOffsets>>
       /\ phase = "open"
  BY DEF Close, hierVars, auxVars
<1>13. IndexLast' /\ HeaderPoints'
  <2>1. file' # << >>
    BY <1>10
  <2>. QED
    BY <1>6, <1>10, <1>12, <2>1 DEF IndexLast, HeaderPoints
<1>14. FileTypes'
  BY <1>9, <1>12 DEF FileTypes
<1>15. MetaTypes' /\ HierTypes' /\ BlkTypes' /\ IndexTypes' /\ ContextsSpan'
  BY MetaKept, HierKept, BlkKept, IndexKept, SpanKept DEF Close, metaVars, blkVars
<1>. QED
  BY <1>11, <1>12, <1>13, <1>14, <1>15, EntriesKept

\* Once patched, the header holds the place of the last block, and nothing moves.
LEMMA PatchStep ==
  ASSUME WriterInv, PatchHeader \/ Release
  PROVE  WriterInv' /\ Grows
<1>. USE DEF WriterInv, TypeOK
<1>1. UNCHANGED <<file, metaVars, hierVars, blkVars, vcEntries, txnEntries, auxVars>>
  BY DEF PatchHeader, Release
<1>2. Grows
  BY <1>1, Same
<1>3. MetaTypes' /\ HierTypes' /\ BlkTypes' /\ IndexTypes' /\ ContextsSpan'
  BY <1>1, MetaKept, HierKept, BlkKept, IndexKept, SpanKept DEF metaVars, blkVars
<1>4. phase # "open" /\ phase' # "open"
  BY DEF PatchHeader, Release
<1>5. IndexLast'
  BY <1>1, <1>4 DEF IndexLast, hierVars, auxVars
<1>6. FileTypes' /\ HeaderPoints'
  <2>1. Len(file) \in Nat /\ (file # << >> => Len(file) # 0)
    BY DEF FileTypes
  <2>2. CASE PatchHeader
    BY <1>1, <1>4, <2>1, <2>2 DEF PatchHeader, FileTypes, HeaderPoints, IndexLast, hierVars, auxVars
  <2>3. CASE Release
    BY <1>1, <1>4, <2>3 DEF Release, FileTypes, HeaderPoints, hierVars, auxVars
  <2>. QED
    BY <2>2, <2>3
<1>. QED
  BY <1>1, <1>2, <1>3, <1>5, <1>6, EntriesKept

\* The invariant holds of a new writer.
LEMMA InitInv == Init => WriterInv
<1>. SUFFICES ASSUME Init PROVE WriterInv
  OBVIOUS
<1>2. FileTypes /\ MetaTypes /\ IndexTypes
  BY ConstantTypes DEF Init, FileTypes, MetaTypes, IndexTypes
<1>3. HierTypes
  <2>1. typereg \in Registry /\ Len(typereg.sigs) = 0
    BY DEF Init, Registry
  <2>2. \A R : << >> \in PartialFcn(VarIds, R)
    BY DEF PartialFcn
  <2>. QED
    BY <2>1, <2>2, ConstantTypes DEF Init, HierTypes
<1>4. BlkTypes
  BY DEF Init, BlkTypes
<1>. QED
  BY <1>2, <1>3, <1>4
     DEF Init, WriterInv, TypeOK, ContextsSpan, VcIndexCovers, TxnIndexCovers, IndexLast, HeaderPoints

\* It is inductive, and every step only appends to the file.
LEMMA Inductive == WriterInv /\ [Next]_vars => WriterInv' /\ Grows
<1>1. SUFFICES ASSUME WriterInv, [Next]_vars PROVE WriterInv' /\ Grows
  OBVIOUS
<1>2. CASE Client
  BY <1>1, <1>2, DeclareStep, ChangesStep, TxnsStep, OtherStep DEF Client
<1>3. CASE Close
  BY <1>1, <1>3, CloseStep
<1>4. CASE PatchHeader \/ Release
  BY <1>1, <1>4, PatchStep
<1>5. CASE UNCHANGED vars
  <2>1. UNCHANGED <<fileVars, metaVars, hierVars, blkVars, vcEntries, txnEntries, auxVars>>
    BY <1>5 DEF vars
  <2>2. TypeOK' /\ ContextsSpan'
    BY <1>1, <2>1, FileKept, MetaKept, HierKept, BlkKept, IndexKept, SpanKept
       DEF WriterInv, TypeOK, metaVars, blkVars
  <2>3. Grows
    BY <1>1, <2>1, Same DEF WriterInv, TypeOK, fileVars
  <2>. QED
    BY <1>1, <2>1, <2>2, <2>3
       DEF WriterInv, VcIndexCovers, TxnIndexCovers, IndexLast, HeaderPoints, fileVars, hierVars, auxVars
<1>. QED
  BY <1>1, <1>2, <1>3, <1>4, <1>5 DEF Next


\* Every reachable state of the writer satisfies the inductive invariant.
THEOREM Invariance == Spec => []WriterInv
BY InitInv, Inductive, PTL DEF Spec

\* The writer's state is well typed, and each shared codec state holds a block of
\* its own codec whenever one was begun (_vc_state and _txn_state of _writer.py).
THEOREM TypeCorrect == Spec => []TypeOK
BY Invariance, PTL DEF WriterInv

\* Whatever blocks are interleaved, however their changes are ordered and grouped
\* by scope, no change on file lies outside the range of its index entry, so the
\* reader's search of the index cannot miss it (_flush_vc, find_vc_blocks).
THEOREM VcIndexSound == Spec => []VcIndexCovers
BY Invariance, PTL DEF WriterInv

\* The same for completed transactions and ends, of a transaction block that may
\* be another context's (_flush_txn takes block and times from the shared state).
THEOREM TxnIndexSound == Spec => []TxnIndexCovers
BY Invariance, PTL DEF WriterInv

\* A header that holds an offset holds that of the complete index (close).
THEOREM HeaderSoundly == Spec => []HeaderPoints
BY Invariance, PTL DEF WriterInv

\* No step changes or drops a block once written: index offsets stay good.
THEOREM AppendOnly == Spec => [][Grows]_vars
<1>1. WriterInv /\ [Next]_vars => [Grows]_vars
  BY Inductive
<1>. QED
  BY <1>1, Invariance, PTL DEF Spec

-----------------------------------------------------------------------------
(* String ids *)

\* A string keeps the id it was given.
IdsKept == Len(strtab) <= Len(strtab') /\ \A i \in 1..Len(strtab) : strtab'[i] = strtab[i]

\* Interning one string, two strings, or none, keeps the ids.
LEMMA IdsKeptBy ==
  ASSUME MetaTypes,
         \/ UNCHANGED strtab
         \/ \E s \in Strings : strtab' = Intern(strtab, s)
         \/ \E s, v \in Strings : strtab' = Intern(Intern(strtab, s), v)
  PROVE  IdsKept
<1>1. CASE UNCHANGED strtab
  BY <1>1 DEF IdsKept, MetaTypes
<1>2. CASE \E s \in Strings : strtab' = Intern(strtab, s)
  <2>1. PICK s \in Strings : strtab' = Intern(strtab, s)
    BY <1>2
  <2>2. /\ Len(strtab) <= Len(Intern(strtab, s))
        /\ \A i \in 1..Len(strtab) : Intern(strtab, s)[i] = strtab[i]
    BY InternProperties DEF MetaTypes
  <2>. QED
    BY <2>1, <2>2 DEF IdsKept
<1>3. CASE \E s, v \in Strings : strtab' = Intern(Intern(strtab, s), v)
  <2>1. PICK s \in Strings, v \in Strings : strtab' = Intern(Intern(strtab, s), v)
    BY <1>3
  <2>. DEFINE new == Intern(Intern(strtab, s), v)
  <2>2. Len(strtab) <= Len(new) /\ \A i \in 1..Len(strtab) : new[i] = strtab[i]
    BY InternTwo DEF MetaTypes
  <2>. HIDE DEF new
  <2>3. strtab' = new
    BY <2>1 DEF new
  <2>. QED
    BY <2>2, <2>3 DEF IdsKept
<1>. QED
  BY <1>1, <1>2, <1>3

\* Every call keeps the ids given before it.
LEMMA IdsKeptStep == TypeOK /\ [Next]_vars => IdsKept
<1>. SUFFICES ASSUME TypeOK, [Next]_vars PROVE IdsKept
  OBVIOUS
<1>. USE DEF TypeOK
<1>1. CASE Declare
  BY <1>1, IdsKeptBy, ConstantTypes
     DEF Declare, InternString, AddTxnSchema, AddStreamType, AddSignalType, AddTraceMetadata,
         BeginHierarchy, BeginScope, EndScope, AddVar, FlushHierarchy, FlushStringTable,
         FlushTypeRegistry, metaVars
<1>2. CASE RecordChanges
  <2>1. strtab' = Intern(strtab, SplitName) \/ UNCHANGED strtab
    <3>1. \A b \in 1..Len(blks) :
            FlushVc(b) => strtab' = Intern(strtab, SplitName) \/ UNCHANGED strtab
      <4>1. TAKE b \in 1..Len(blks)
      <4>2. HAVE FlushVc(b)
      <4>3. strtab' = IF blks[b].codec = "split" THEN Intern(strtab, SplitName) ELSE strtab
        BY <4>2 DEF FlushVc
      <4>. QED
        BY <4>3
    <3>2. \A c \in Codecs, t \in Times : BeginVc(c, t) => UNCHANGED strtab
      BY DEF BeginVc, metaVars
    <3>3. ASSUME NEW b \in 1..Len(blks), NEW h \in 1..Len(hiers), NEW k \in 1..MaxVars,
                 NEW t \in Times, AddChange(b, h, k, t)
          PROVE  UNCHANGED strtab
      BY <3>3 DEF AddChange, metaVars
    <3>4. ASSUME NEW b \in 1..Len(blks), NEW h \in 1..Len(hiers), NEW k \in 1..MaxVars,
                 SetInitial(b, h, k)
          PROVE  UNCHANGED strtab
      BY <3>4 DEF SetInitial, metaVars
    <3>. QED
      BY <1>2, <3>1, <3>2, <3>3, <3>4 DEF RecordChanges
  <2>. QED
    BY <2>1, IdsKeptBy, WriterAssumption
<1>3. CASE RecordTxns
  BY <1>3, IdsKeptBy, ConstantTypes
     DEF RecordTxns, BeginTxn, WriteFull, WriteBegin, WriteEnd, WriteNote, WriteMeta, FlushTxn, metaVars
<1>4. CASE RecordOther
  BY <1>4, IdsKeptBy, ConstantTypes
     DEF RecordOther, WriteAux, WriteExt, RefuseDerived, AddDerived, AddMaterialized, DeclareDerived,
         metaVars
<1>5. CASE Close \/ PatchHeader \/ Release \/ UNCHANGED vars
  BY <1>5, IdsKeptBy DEF Close, PatchHeader, Release, vars, metaVars
<1>. QED
  BY <1>1, <1>2, <1>3, <1>4, <1>5 DEF Next, Client

\* An id that a block, an index entry or a client holds names the same string for
\* ever: interning never renumbers (StringTable.intern).
THEOREM IdsForEver == Spec => [][IdsKept]_vars
<1>1. TypeOK /\ [Next]_vars => [IdsKept]_vars
  BY IdsKeptStep
<1>. QED
  BY <1>1, TypeCorrect, PTL DEF Spec

-----------------------------------------------------------------------------
(* Lists of places *)

\* A file and a list of places in it that both grew at the end.
LEMMA ListsGrow ==
  ASSUME NEW offs, NEW more, NEW old, NEW new, NEW type,
         Len(offs) \in Nat, Len(more) \in Nat, Len(old) \in Nat, Len(new) \in Nat,
         Len(offs) <= Len(more), \A i \in 1..Len(offs) : more[i] = offs[i],
         Len(old) <= Len(new), \A n \in 1..Len(old) : new[n] = old[n],
         Lists(offs, old, type),
         \A i \in Len(offs) + 1..Len(more) :
           more[i] \in Len(old) + 1..Len(new) /\ new[more[i]].type = type,
         \A n \in Len(old) + 1..Len(new) :
           new[n].type = type => \E i \in Len(offs) + 1..Len(more) : more[i] = n,
         \A i, j \in Len(offs) + 1..Len(more) : i < j => more[i] < more[j]
  PROVE  Lists(more, new, type)
<1>1. ASSUME NEW i \in 1..Len(more)
      PROVE  more[i] \in 1..Len(new) /\ new[more[i]].type = type
  <2>1. CASE i \in 1..Len(offs)
    BY <2>1 DEF Lists
  <2>2. CASE i \in Len(offs) + 1..Len(more)
    BY <2>2
  <2>. QED
    BY <2>1, <2>2
<1>2. ASSUME NEW n \in 1..Len(new), new[n].type = type
      PROVE  \E i \in 1..Len(more) : more[i] = n
  <2>1. CASE n \in 1..Len(old)
    <3>1. PICK i \in 1..Len(offs) : offs[i] = n
      BY <1>2, <2>1 DEF Lists
    <3>. QED
      BY <3>1
  <2>2. CASE n \in Len(old) + 1..Len(new)
    <3>1. PICK i \in Len(offs) + 1..Len(more) : more[i] = n
      BY <1>2, <2>2
    <3>. QED
      BY <3>1
  <2>. QED
    BY <2>1, <2>2
<1>3. ASSUME NEW i \in 1..Len(more), NEW j \in 1..Len(more), i < j
      PROVE  more[i] < more[j]
  <2>1. CASE j \in 1..Len(offs)
    <3>1. i \in 1..Len(offs)
      BY <1>3, <2>1
    <3>. QED
      BY <1>3, <2>1, <3>1 DEF Lists
  <2>2. CASE i \in 1..Len(offs) /\ j \in Len(offs) + 1..Len(more)
    <3>1. more[i] \in 1..Len(old) /\ more[j] \in Len(old) + 1..Len(new)
      BY <2>2 DEF Lists
    <3>. QED
      BY <3>1
  <2>3. CASE i \in Len(offs) + 1..Len(more) /\ j \in Len(offs) + 1..Len(more)
    BY <1>3, <2>3
  <2>. QED
    BY <1>3, <2>1, <2>2, <2>3
<1>. QED
  BY <1>1, <1>2, <1>3 DEF Lists

\* The offsets of entries.
LEMMA OffsetsOf ==
  ASSUME NEW entries, Len(entries) \in Nat
  PROVE  /\ Len(Offsets(entries)) = Len(entries)
         /\ \A i \in 1..Len(entries) : Offsets(entries)[i] = entries[i].off
BY DEF Offsets

\* No block of the type was written.
LEMMA ListsKept ==
  ASSUME NEW offs, NEW type, Len(offs) \in Nat, FileTypes, Grows, Len(file') \in Nat,
         Lists(offs, file, type), \A n \in Len(file) + 1..Len(file') : file'[n].type # type
  PROVE  Lists(offs, file', type)
<1>1. Len(file) \in Nat
  BY DEF FileTypes
<1>2. \A i \in Len(offs) + 1..Len(offs) : FALSE
  OBVIOUS
<1>. QED
  BY <1>1, <1>2, ListsGrow DEF Grows

\* The last block written is of the type, and the only one; its place is listed.
LEMMA ListsOne ==
  ASSUME NEW offs, NEW more, NEW type, Len(offs) \in Nat, FileTypes, Grows,
         Len(file') = Len(file) + 1, file'[Len(file) + 1].type = type,
         Len(more) = Len(offs) + 1, \A i \in 1..Len(offs) : more[i] = offs[i],
         more[Len(offs) + 1] = Len(file) + 1,
         Lists(offs, file, type)
  PROVE  Lists(more, file', type)
<1>1. Len(file) \in Nat
  BY DEF FileTypes
<1>2. /\ \A i \in Len(offs) + 1..Len(more) : i = Len(offs) + 1
      /\ \A n \in Len(file) + 1..Len(file') : n = Len(file) + 1
      /\ Len(offs) + 1 \in Len(offs) + 1..Len(more)
      /\ Len(file) + 1 \in Len(file) + 1..Len(file')
  BY <1>1
<1>. QED
  BY <1>1, <1>2, ListsGrow DEF Grows

-----------------------------------------------------------------------------
(* The entries gathered for the index *)

\* The lists of the index as sequences of places.
LEMMA ListTypes ==
  ASSUME TypeOK
  PROVE  /\ Len(vcEntries) \in Nat /\ Len(txnEntries) \in Nat /\ Len(keyEntries) \in Nat
         /\ Len(hierOffsets) \in Nat /\ Len(file) \in Nat
         /\ Len(Offsets(vcEntries)) = Len(vcEntries) /\ Len(Offsets(txnEntries)) = Len(txnEntries)
         /\ Len(Offsets(keyEntries)) = Len(keyEntries)
<1>1. /\ Len(vcEntries) \in Nat /\ Len(txnEntries) \in Nat /\ Len(keyEntries) \in Nat
      /\ Len(hierOffsets) \in Nat /\ Len(file) \in Nat
  BY LenProperties DEF TypeOK, IndexTypes, HierTypes, FileTypes
<1>. QED
  BY <1>1, OffsetsOf

\* Blocks that no entry leads to.
LEMMA ListedQuiet ==
  ASSUME TypeOK, EntriesListed, Grows, Len(file') \in Nat,
         UNCHANGED <<vcEntries, txnEntries, keyEntries, hierOffsets>>,
         \A n \in Len(file) + 1..Len(file') : file'[n].type \notin {"VC", "TXN", "AUX", "HIER"}
  PROVE  EntriesListed'
<1>. USE ListTypes DEF TypeOK
<1>1. Lists(Offsets(vcEntries), file', "VC")
  BY ListsKept DEF EntriesListed
<1>2. Lists(Offsets(txnEntries), file', "TXN")
  BY ListsKept DEF EntriesListed
<1>3. Lists(Offsets(keyEntries), file', "AUX")
  BY ListsKept DEF EntriesListed
<1>4. Lists(hierOffsets, file', "HIER")
  BY ListsKept DEF EntriesListed
<1>. QED
  BY <1>1, <1>2, <1>3, <1>4 DEF EntriesListed

\* Keys keep their numbers when no keyed block is written.
LEMMA KeysKept ==
  ASSUME TypeOK, EntriesListed, KeysNumbered, Grows, UNCHANGED <<keyEntries, auxOrdinals>>
  PROVE  KeysNumbered'
<1>1. \A i \in 1..Len(keyEntries) : keyEntries[i].off \in 1..Len(file)
  BY ListTypes, OffsetsOf DEF EntriesListed, Lists
<1>2. \A i \in 1..Len(keyEntries) : file'[keyEntries[i].off] = file[keyEntries[i].off]
  BY <1>1 DEF Grows
<1>. QED
  BY <1>2 DEF KeysNumbered

\* A keyed block written after the last block gets the next number of its key.
LEMMA KeysPut ==
  ASSUME TypeOK, EntriesListed, KeysNumbered, Grows,
         NEW key \in AllAuxKeys, NEW strs, PutAux(key), file'[Len(file) + 1] = AuxBlock(key, strs)
  PROVE  KeysNumbered'
<1>. DEFINE new == [key |-> key, ordinal |-> auxOrdinals[key], off |-> Len(file) + 1]
<1>1. /\ keyEntries \in Seq(KeyEntries) /\ Len(keyEntries) \in Nat
      /\ auxOrdinals \in [AllAuxKeys -> Nat] /\ Len(file) \in Nat
  BY ListTypes DEF TypeOK, IndexTypes
<1>2. new \in KeyEntries
  BY <1>1 DEF KeyEntries
<1>3. /\ Len(keyEntries') = Len(keyEntries) + 1
      /\ \A i \in 1..Len(keyEntries) : keyEntries'[i] = keyEntries[i]
      /\ keyEntries'[Len(keyEntries) + 1] = new
  <2>1. keyEntries' = Append(keyEntries, new)
    BY DEF PutAux
  <2>. HIDE DEF new
  <2>. QED
    BY <1>1, <1>2, <2>1, AppendProperties
<1>4. \A k \in AllAuxKeys : auxOrdinals'[k] = IF k = key THEN auxOrdinals[key] + 1 ELSE auxOrdinals[k]
  BY <1>1 DEF PutAux
<1>5. new.key = key /\ new.ordinal = auxOrdinals[key] /\ new.off = Len(file) + 1
  OBVIOUS
<1>6. \A i \in 1..Len(keyEntries) :
        /\ keyEntries[i].key \in AllAuxKeys /\ keyEntries[i].ordinal \in Nat
        /\ keyEntries[i].off \in 1..Len(file)
  <2>1. \A i \in 1..Len(keyEntries) : keyEntries[i] \in KeyEntries
    BY <1>1, ElementOfSeq
  <2>2. \A i \in 1..Len(keyEntries) : keyEntries[i].off \in 1..Len(file)
    BY ListTypes, OffsetsOf DEF EntriesListed, Lists
  <2>. QED
    BY <2>1, <2>2 DEF KeyEntries
<1>. HIDE DEF new
<1>7. ASSUME NEW i \in 1..Len(keyEntries')
      PROVE  LET e == keyEntries'[i]
             IN  /\ e.ordinal < auxOrdinals'[e.key]
                 /\ file'[e.off].key = e.key /\ file'[e.off].ordinal = e.ordinal
  <2>1. CASE i \in 1..Len(keyEntries)
    <3>1. keyEntries'[i] = keyEntries[i] /\ file'[keyEntries[i].off] = file[keyEntries[i].off]
      BY <1>3, <1>6, <2>1 DEF Grows
    <3>2. LET e == keyEntries[i]
          IN  /\ e.ordinal < auxOrdinals[e.key]
              /\ file[e.off].key = e.key /\ file[e.off].ordinal = e.ordinal
      BY <2>1 DEF KeysNumbered
    <3>3. keyEntries[i].ordinal < auxOrdinals'[keyEntries[i].key]
      BY <1>1, <1>4, <1>6, <2>1, <3>2
    <3>. QED
      BY <3>1, <3>2, <3>3
  <2>2. CASE i = Len(keyEntries) + 1
    <3>1. AuxBlock(key, strs).key = key /\ AuxBlock(key, strs).ordinal = auxOrdinals[key]
      BY DEF AuxBlock
    <3>. QED
      BY <1>1, <1>3, <1>4, <1>5, <2>2, <3>1
  <2>. QED
    BY <1>1, <1>3, <2>1, <2>2
<1>8. ASSUME NEW k \in AllAuxKeys, NEW n \in 0..auxOrdinals'[k] - 1
      PROVE  \E i \in 1..Len(keyEntries') : keyEntries'[i].key = k /\ keyEntries'[i].ordinal = n
  <2>1. CASE n \in 0..auxOrdinals[k] - 1
    <3>1. PICK i \in 1..Len(keyEntries) : keyEntries[i].key = k /\ keyEntries[i].ordinal = n
      BY <2>1 DEF KeysNumbered
    <3>. QED
      BY <1>1, <1>3, <3>1
  <2>2. CASE k = key /\ n = auxOrdinals[key]
    BY <1>1, <1>3, <1>5, <2>2
  <2>. QED
    BY <1>1, <1>4, <2>1, <2>2
<1>9. ASSUME NEW i \in 1..Len(keyEntries'), NEW j \in 1..Len(keyEntries'),
             i < j, keyEntries'[i].key = keyEntries'[j].key
      PROVE  keyEntries'[i].ordinal < keyEntries'[j].ordinal
  <2>1. i \in 1..Len(keyEntries) /\ keyEntries'[i] = keyEntries[i]
    BY <1>1, <1>3, <1>9
  <2>2. CASE j \in 1..Len(keyEntries)
    BY <1>3, <1>9, <2>1, <2>2 DEF KeysNumbered
  <2>3. CASE j = Len(keyEntries) + 1
    BY <1>3, <1>5, <1>9, <2>1, <2>3 DEF KeysNumbered
  <2>. QED
    BY <1>1, <1>3, <2>2, <2>3
<1>. QED
  BY <1>7, <1>8, <1>9 DEF KeysNumbered

\* What the proofs below keep.
Listing == EntriesListed /\ KeysNumbered /\ TailWritten

\* The tail of the file matters once it is written.
LEMMA StaysOpen == phase' = "open" => TailWritten'
BY DEF TailWritten

\* A step that writes one block that no entry leads to, or none.
LEMMA QuietListed ==
  ASSUME TypeOK, Listing, Grows, phase = "open", UNCHANGED <<phase, vcEntries, txnEntries>>,
         UNCHANGED <<keyEntries, auxOrdinals, hierOffsets>>,
         \/ UNCHANGED file
         \/ \E blk : /\ file' = Append(file, blk)
                     /\ blk.type \notin {"VC", "TXN", "AUX", "HIER"}
  PROVE  Listing'
<1>1. file \in Seq(Blocks) /\ Len(file) \in Nat
  BY DEF TypeOK, FileTypes
<1>2. /\ Len(file') \in Nat
      /\ \A n \in Len(file) + 1..Len(file') : file'[n].type \notin {"VC", "TXN", "AUX", "HIER"}
  <2>1. CASE UNCHANGED file
    BY <1>1, <2>1
  <2>2. ASSUME NEW blk, file' = Append(file, blk), blk.type \notin {"VC", "TXN", "AUX", "HIER"}
        PROVE  /\ Len(file') \in Nat
               /\ \A n \in Len(file) + 1..Len(file') :
                    file'[n].type \notin {"VC", "TXN", "AUX", "HIER"}
    <3>1. Len(file') = Len(file) + 1 /\ file'[Len(file) + 1] = blk
      BY <1>1, <2>2
    <3>. QED
      BY <1>1, <2>2, <3>1
  <2>. QED
    BY <2>1, <2>2
<1>. QED
  BY <1>2, ListedQuiet, KeysKept, StaysOpen DEF Listing

\* The flush of a hierarchy.
LEMMA HierarchyListed ==
  ASSUME TypeOK, Listing, Grows, phase = "open", NEW h \in 1..Len(hiers), FlushHierarchy(h)
  PROVE  Listing'
<1>. DEFINE blk == [type |-> "HIER", id |-> hiers[h].id, strs |-> hiers[h].strs,
                    vars |-> hiers[h].vars]
<1>1. file \in Seq(Blocks) /\ hierOffsets \in Seq(Nat) /\ Len(hierOffsets) \in Nat /\ Len(file) \in Nat
  BY DEF TypeOK, FileTypes, HierTypes
<1>2. file' = Append(file, blk) /\ hierOffsets' = Append(hierOffsets, Len(file) + 1)
      /\ UNCHANGED <<phase, vcEntries, txnEntries, keyEntries, auxOrdinals>>
  BY DEF FlushHierarchy, auxVars
<1>3. blk.type = "HIER"
  OBVIOUS
<1>. HIDE DEF blk
<1>4. Len(file') = Len(file) + 1 /\ file'[Len(file) + 1] = blk
      /\ \A n \in Len(file) + 1..Len(file') : n = Len(file) + 1
  BY <1>1, <1>2
<1>5. /\ Len(hierOffsets') = Len(hierOffsets) + 1
      /\ \A i \in 1..Len(hierOffsets) : hierOffsets'[i] = hierOffsets[i]
      /\ hierOffsets'[Len(hierOffsets) + 1] = Len(file) + 1
  BY <1>1, <1>2
<1>. USE ListTypes DEF TypeOK
<1>6. Lists(hierOffsets', file', "HIER")
  BY <1>1, <1>3, <1>4, <1>5, ListsOne DEF Listing, EntriesListed
<1>7. Lists(Offsets(vcEntries), file', "VC")
  BY <1>1, <1>3, <1>4, ListsKept DEF Listing, EntriesListed
<1>8. Lists(Offsets(txnEntries), file', "TXN")
  BY <1>1, <1>3, <1>4, ListsKept DEF Listing, EntriesListed
<1>9. Lists(Offsets(keyEntries), file', "AUX")
  BY <1>1, <1>3, <1>4, ListsKept DEF Listing, EntriesListed
<1>. QED
  BY <1>2, <1>6, <1>7, <1>8, <1>9, KeysKept, StaysOpen DEF Listing, EntriesListed

\* The calls that declare keep the lists.
LEMMA DeclareListed ==
  ASSUME WriterInv, Listing, phase = "open", Declare
  PROVE  Listing'
<1>1. Grows /\ TypeOK
  BY DeclareStep DEF WriterInv
<1>2. ASSUME NEW h \in 1..Len(hiers), FlushHierarchy(h) PROVE Listing'
  BY <1>1, <1>2, HierarchyListed
<1>3. CASE UNCHANGED <<phase, file, vcEntries, txnEntries, keyEntries, auxOrdinals, hierOffsets>>
  BY <1>1, <1>3, QuietListed
<1>4. CASE FlushStringTable \/ FlushTypeRegistry
  <2>1. UNCHANGED <<phase, vcEntries, txnEntries, keyEntries, auxOrdinals, hierOffsets>>
    BY <1>4 DEF FlushStringTable, FlushTypeRegistry, auxVars, hierVars
  <2>2. \E blk : /\ file' = Append(file, blk)
                 /\ blk.type \notin {"VC", "TXN", "AUX", "HIER"}
    BY <1>4 DEF FlushStringTable, FlushTypeRegistry
  <2>. QED
    BY <1>1, <2>1, <2>2, QuietListed
<1>5. CASE \E h \in 1..Len(hiers) : \/ \E s, c \in Names : BeginScope(h, s, c)
                                    \/ EndScope(h)
                                    \/ \E s \in Names, ty \in 1..MaxTypes : AddVar(h, s, ty)
  <2>1. UNCHANGED <<phase, file, vcEntries, txnEntries, keyEntries, auxOrdinals, hierOffsets>>
    BY <1>5 DEF BeginScope, EndScope, AddVar, fileVars, auxVars
  <2>. QED
    BY <1>3, <2>1
<1>6. CASE \/ \E s \in Names : InternString(s) \/ AddTxnSchema(s) \/ AddStreamType(s)
           \/ \E e \in Enc : AddSignalType(e)
           \/ \E s, v \in Names : AddTraceMetadata(s, v)
           \/ \E i \in 1..MaxHiers, s \in Names : BeginHierarchy(i, s)
  <2>1. UNCHANGED <<phase, file, vcEntries, txnEntries, keyEntries, auxOrdinals, hierOffsets>>
    BY <1>6 DEF InternString, AddTxnSchema, AddStreamType, AddSignalType, AddTraceMetadata,
                BeginHierarchy, fileVars, auxVars, hierVars
  <2>. QED
    BY <1>3, <2>1
<1>. QED
  BY <1>2, <1>4, <1>5, <1>6 DEF Declare

\* A run of value-change blocks at the end of the file.
LEMMA RunListed ==
  ASSUME TypeOK, EntriesListed, Grows, NEW parts, Len(parts) \in Nat, NEW id, NEW off \in Nat,
         Len(file) <= off, Len(file') = off + Len(parts),
         \A n \in Len(file) + 1..off : file'[n].type # "VC",
         \A i \in 1..Len(parts) : file'[off + i] = VcBlocks(parts, id)[i],
         vcEntries' = vcEntries \o VcIndex(parts, off)
  PROVE  Lists(Offsets(vcEntries'), file', "VC")
<1>. DEFINE new == VcIndex(parts, off)
<1>1. /\ Len(vcEntries) \in Nat /\ vcEntries \in Seq(Ranges) /\ Len(file) \in Nat
      /\ Len(Offsets(vcEntries)) = Len(vcEntries)
      /\ \A i \in 1..Len(vcEntries) : Offsets(vcEntries)[i] = vcEntries[i].off
  BY ListTypes, OffsetsOf DEF TypeOK, IndexTypes
<1>2. /\ Len(new) = Len(parts) /\ new \in Seq([start : {parts[i].start : i \in 1..Len(parts)},
                                               end : {parts[i].end : i \in 1..Len(parts)}, off : Nat])
      /\ \A i \in 1..Len(parts) : new[i].off = off + i
  BY DEF VcIndex
<1>. HIDE DEF new
<1>3. /\ Len(vcEntries') = Len(vcEntries) + Len(parts)
      /\ \A i \in 1..Len(vcEntries) + Len(parts) :
           vcEntries'[i] = IF i <= Len(vcEntries) THEN vcEntries[i] ELSE new[i - Len(vcEntries)]
  <2>. DEFINE S == Ranges \cup {new[i] : i \in 1..Len(parts)}
  <2>1. vcEntries' = vcEntries \o new
    BY DEF new
  <2>2. new \in Seq(S) /\ vcEntries \in Seq(S)
    <3>1. \A i \in 1..Len(vcEntries) : vcEntries[i] \in S
      BY <1>1, ElementOfSeq
    <3>2. vcEntries = [i \in 1..Len(vcEntries) |-> vcEntries[i]]
      BY <1>1
    <3>3. new = [i \in 1..Len(parts) |-> new[i]]
      BY <1>2
    <3>4. \A i \in 1..Len(parts) : new[i] \in S
      OBVIOUS
    <3>. HIDE DEF S
    <3>5. [i \in 1..Len(parts) |-> new[i]] \in Seq(S)
      BY <3>4
    <3>6. [i \in 1..Len(vcEntries) |-> vcEntries[i]] \in Seq(S)
      BY <1>1, <3>1
    <3>. QED
      BY <3>2, <3>3, <3>5, <3>6
  <2>. HIDE DEF S
  <2>3. /\ Len(vcEntries \o new) = Len(vcEntries) + Len(new)
        /\ \A i \in 1..Len(vcEntries) + Len(new) : (vcEntries \o new)[i] =
             IF i <= Len(vcEntries) THEN vcEntries[i] ELSE new[i - Len(vcEntries)]
    BY <2>2, ConcatProperties
  <2>. QED
    BY <1>2, <2>1, <2>3
<1>4. /\ Len(Offsets(vcEntries')) = Len(vcEntries')
      /\ \A i \in 1..Len(vcEntries') : Offsets(vcEntries')[i] = vcEntries'[i].off
  BY <1>1, <1>3 DEF Offsets
<1>. DEFINE old  == Offsets(vcEntries)
            more == Offsets(vcEntries')
<1>. HIDE DEF old, more
<1>5. /\ Len(old) = Len(vcEntries) /\ Len(more) = Len(vcEntries) + Len(parts)
      /\ \A i \in 1..Len(old) : more[i] = old[i]
      /\ \A i \in Len(old) + 1..Len(more) : more[i] = off + (i - Len(old)) /\ i - Len(old) \in 1..Len(parts)
  <2>1. \A i \in 1..Len(vcEntries) : i \in 1..Len(vcEntries') /\ vcEntries'[i] = vcEntries[i]
    BY <1>1, <1>3
  <2>2. ASSUME NEW i \in Len(vcEntries) + 1..Len(vcEntries')
        PROVE  /\ i - Len(vcEntries) \in 1..Len(parts)
               /\ vcEntries'[i].off = off + (i - Len(vcEntries))
    <3>1. i - Len(vcEntries) \in 1..Len(parts) /\ ~(i <= Len(vcEntries))
          /\ i \in 1..Len(vcEntries) + Len(parts)
      BY <1>1, <1>3
    <3>2. vcEntries'[i] = new[i - Len(vcEntries)]
      BY <1>3, <3>1
    <3>. QED
      BY <1>2, <3>1, <3>2
  <2>3. Len(old) = Len(vcEntries) /\ Len(more) = Len(vcEntries')
    BY <1>1, <1>4 DEF old, more
  <2>4. \A i \in 1..Len(old) : more[i] = old[i]
    BY <1>1, <1>4, <2>1, <2>3 DEF old, more
  <2>5. \A i \in Len(old) + 1..Len(more) : i \in 1..Len(vcEntries')
    BY <1>1, <2>3
  <2>. QED
    BY <1>3, <1>4, <2>2, <2>3, <2>4, <2>5 DEF more
<1>6. \A i \in 1..Len(parts) : file'[off + i].type = "VC"
  <2>1. \A i \in 1..Len(parts) : VcBlocks(parts, id)[i].type = "VC"
    BY DEF VcBlocks, VcBlock
  <2>. QED
    BY <2>1
<1>7. ASSUME NEW i \in Len(old) + 1..Len(more)
      PROVE  more[i] \in Len(file) + 1..Len(file') /\ file'[more[i]].type = "VC"
  BY <1>1, <1>5, <1>6
<1>8. ASSUME NEW n \in Len(file) + 1..Len(file'), file'[n].type = "VC"
      PROVE  \E i \in Len(old) + 1..Len(more) : more[i] = n
  <2>1. n > off
    BY <1>1, <1>8
  <2>2. n - off \in 1..Len(parts)
    BY <1>1, <2>1
  <2>3. Len(old) + (n - off) \in Len(old) + 1..Len(more)
    BY <1>1, <1>5, <2>2
  <2>4. more[Len(old) + (n - off)] = off + ((Len(old) + (n - off)) - Len(old))
    BY <1>5, <2>3
  <2>5. off + ((Len(old) + (n - off)) - Len(old)) = n
    BY <1>1, <1>5
  <2>. QED
    BY <2>3, <2>4, <2>5
<1>9. \A i, j \in Len(old) + 1..Len(more) : i < j => more[i] < more[j]
  BY <1>1, <1>5
<1>10. Lists(old, file, "VC")
  BY DEF EntriesListed, old
<1>. QED
  <2>0. Len(old) \in Nat /\ Len(more) \in Nat /\ Len(file') \in Nat /\ Len(old) <= Len(more)
    BY <1>1, <1>5
  <2>1. Lists(more, file', "VC")
    BY <1>1, <1>5, <1>7, <1>8, <1>9, <1>10, <2>0, ListsGrow DEF Grows
  <2>. QED
    BY <2>1 DEF more

\* What a flush of value changes writes.
LEMMA FlushVcWrites ==
  ASSUME TypeOK, ContextsSpan, NEW b \in 1..Len(blks), FlushVc(b)
  PROVE  \E parts \in Seq(VcContexts), id \in Nat :
           /\ Len(file') = Len(file) + Len(parts)
           /\ \A i \in 1..Len(parts) : file'[Len(file) + i] = VcBlocks(parts, id)[i]
           /\ vcEntries' = vcEntries \o VcIndex(parts, Len(file))
           /\ id = IF blks[b].codec = "split" THEN IdOf(strtab', SplitName) ELSE 0
           /\ \E whole \in VcParts(b) :
                /\ whole \in Seq(VcContexts) /\ Encoded(whole, Len(parts))
                /\ \A i \in 1..Len(parts) : parts[i] = whole[i]
<1>1. strtab \in Seq(Strings) /\ SplitName \in Strings /\ file \in Seq(Blocks) /\ Len(file) \in Nat
  BY WriterAssumption DEF TypeOK, MetaTypes, FileTypes
<1>. DEFINE id == IF blks[b].codec = "split" THEN IdOf(strtab', SplitName) ELSE 0
<1>2. id \in Nat
  <2>1. blks[b].codec = "split" => strtab' = Intern(strtab, SplitName)
    BY DEF FlushVc
  <2>. QED
    BY <1>1, <2>1, InternProperties
<1>b. id = IF blks[b].codec = "split" THEN IdOf(strtab', SplitName) ELSE 0
  OBVIOUS
<1>a. \E parts \in VcParts(b) : \E n \in 0..Len(parts) :
        /\ file' = file \o VcBlocks(SubSeq(parts, 1, n), id)
        /\ vcEntries' = vcEntries \o VcIndex(SubSeq(parts, 1, n), Len(file))
        /\ Encoded(parts, n)
  BY DEF FlushVc
<1>. HIDE DEF id
<1>3. PICK parts \in VcParts(b) : \E n \in 0..Len(parts) :
        /\ file' = file \o VcBlocks(SubSeq(parts, 1, n), id)
        /\ vcEntries' = vcEntries \o VcIndex(SubSeq(parts, 1, n), Len(file))
        /\ Encoded(parts, n)
  BY <1>a
<1>4. PICK n \in 0..Len(parts) :
        /\ file' = file \o VcBlocks(SubSeq(parts, 1, n), id)
        /\ vcEntries' = vcEntries \o VcIndex(SubSeq(parts, 1, n), Len(file))
        /\ Encoded(parts, n)
  BY <1>3
<1>5. parts \in Seq(VcContexts) /\ \A i \in 1..Len(parts) : Spans(parts[i])
  BY VcPartsProperties DEF FlushVc
<1>. DEFINE written == SubSeq(parts, 1, n)
<1>6. /\ written \in Seq(VcContexts) /\ Len(written) = n /\ n \in Nat
      /\ \A i \in 1..n : written[i] = parts[i]
  <2>1. n \in Nat /\ \A i \in 1..n : parts[i] \in VcContexts
    BY <1>5, ElementOfSeq
  <2>. QED
    BY <2>1, SubSeqProperties
<1>7. \A i \in 1..Len(written) : Spans(written[i]) /\ ~EncodeFails(written[i])
  BY <1>4, <1>5, <1>6 DEF Encoded
<1>. HIDE DEF written
<1>8. VcBlocks(written, id) \in Seq(Blocks) /\ Len(VcBlocks(written, id)) = Len(written)
  BY <1>1, <1>2, <1>6, <1>7, VcBlocksProperties
<1>9. file' = file \o VcBlocks(written, id) /\ vcEntries' = vcEntries \o VcIndex(written, Len(file))
  BY <1>4 DEF written
<1>10. /\ Len(file') = Len(file) + Len(written)
       /\ \A i \in 1..Len(written) : file'[Len(file) + i] = VcBlocks(written, id)[i]
  BY <1>8, <1>9, Concatenated DEF TypeOK
<1>11. /\ parts \in Seq(VcContexts) /\ Encoded(parts, Len(written))
       /\ \A i \in 1..Len(written) : written[i] = parts[i]
  BY <1>4, <1>5, <1>6 DEF written
<1>. QED
  BY <1>2, <1>b, <1>6, <1>9, <1>10, <1>11

\* The flush of value changes keeps the lists.
LEMMA FlushVcListed ==
  ASSUME TypeOK, ContextsSpan, Listing, Grows, phase = "open", NEW b \in 1..Len(blks), FlushVc(b)
  PROVE  Listing'
<1>1. PICK parts \in Seq(VcContexts), id \in Nat :
        /\ Len(file') = Len(file) + Len(parts)
        /\ \A i \in 1..Len(parts) : file'[Len(file) + i] = VcBlocks(parts, id)[i]
        /\ vcEntries' = vcEntries \o VcIndex(parts, Len(file))
  BY FlushVcWrites
<1>2. Len(parts) \in Nat /\ Len(file) \in Nat
  BY DEF TypeOK, FileTypes
<1>3. UNCHANGED <<phase, txnEntries, keyEntries, auxOrdinals, hierOffsets>>
  BY DEF FlushVc, hierVars, auxVars
<1>4. \A n \in Len(file) + 1..Len(file') : file'[n].type = "VC"
  <2>1. \A i \in 1..Len(parts) : VcBlocks(parts, id)[i].type = "VC"
    BY DEF VcBlocks, VcBlock
  <2>2. TAKE n \in Len(file) + 1..Len(file')
  <2>3. n - Len(file) \in 1..Len(parts) /\ Len(file) + (n - Len(file)) = n
    BY <1>1, <1>2
  <2>. QED
    BY <1>1, <2>1, <2>3
<1>5. Lists(Offsets(vcEntries'), file', "VC")
  <2>1. \A n \in Len(file) + 1..Len(file) : file'[n].type # "VC"
    BY <1>2
  <2>2. Len(file) \in Nat /\ Len(file) <= Len(file) /\ EntriesListed
    BY <1>2 DEF Listing
  <2>. QED
    BY <1>1, <1>2, <2>1, <2>2, RunListed
<1>a. Len(file') \in Nat /\ FileTypes
  BY <1>1, <1>2 DEF TypeOK
<1>b. \A n \in Len(file) + 1..Len(file') : file'[n].type \notin {"TXN", "AUX", "HIER"}
  BY <1>4
<1>. USE ListTypes
<1>6. Lists(Offsets(txnEntries), file', "TXN")
  BY <1>a, <1>b, ListsKept DEF Listing, EntriesListed
<1>7. Lists(Offsets(keyEntries), file', "AUX")
  BY <1>a, <1>b, ListsKept DEF Listing, EntriesListed
<1>8. Lists(hierOffsets, file', "HIER")
  BY <1>a, <1>b, ListsKept DEF Listing, EntriesListed
<1>. QED
  BY <1>3, <1>5, <1>6, <1>7, <1>8, KeysKept, StaysOpen DEF Listing, EntriesListed

\* The flush of transactions keeps the lists.
LEMMA FlushTxnListed ==
  ASSUME TypeOK, Listing, Grows, phase = "open", NEW b \in 1..Len(blks), FlushTxn(b)
  PROVE  Listing'
<1>0. CASE UNCHANGED <<file, txnEntries>>
  <2>1. UNCHANGED <<phase, vcEntries, hierOffsets, keyEntries, auxOrdinals>>
    BY DEF FlushTxn, auxVars, hierVars
  <2>. QED
    BY <1>0, <2>1, QuietListed
<1>. SUFFICES ASSUME PutTxn(b) PROVE Listing'
  BY <1>0 DEF FlushTxn
<1>. DEFINE blk == [type |-> "TXN", recs |-> blks[txnState].recs]
            e   == [start |-> blks[txnState].start, end |-> blks[txnState].end,
                    off |-> Len(file) + 1, sid |-> blks[b].sid]
<1>1. file \in Seq(Blocks) /\ Len(txnEntries) \in Nat /\ txnEntries \in Seq(TxnRanges) /\ Len(file) \in Nat
  BY DEF TypeOK, FileTypes, IndexTypes
<1>2. file' = Append(file, blk) /\ txnEntries' = Append(txnEntries, e)
      /\ UNCHANGED <<phase, vcEntries, hierOffsets, keyEntries, auxOrdinals>>
  BY DEF FlushTxn, PutTxn, auxVars, hierVars
<1>3. blk.type = "TXN" /\ e.off = Len(file) + 1
  OBVIOUS
<1>. HIDE DEF blk, e
<1>4. Len(file') = Len(file) + 1 /\ file'[Len(file) + 1] = blk
      /\ \A n \in Len(file) + 1..Len(file') : n = Len(file) + 1
  BY <1>1, <1>2
<1>5. /\ Len(txnEntries') = Len(txnEntries) + 1
      /\ \A i \in 1..Len(txnEntries) : txnEntries'[i] = txnEntries[i]
      /\ txnEntries'[Len(txnEntries) + 1] = e
  BY <1>1, <1>2
<1>. DEFINE old  == Offsets(txnEntries)
            more == Offsets(txnEntries')
<1>. HIDE DEF old, more
<1>6. /\ Len(old) = Len(txnEntries) /\ Len(more) = Len(txnEntries) + 1
      /\ \A i \in 1..Len(txnEntries) : more[i] = old[i]
      /\ more[Len(txnEntries) + 1] = Len(file) + 1
  BY <1>1, <1>3, <1>5 DEF Offsets, old, more
<1>. USE ListTypes DEF TypeOK
<1>7. Lists(more, file', "TXN")
  BY <1>1, <1>3, <1>4, <1>6, ListsOne DEF Listing, EntriesListed, old
<1>8. Lists(Offsets(vcEntries), file', "VC")
  BY <1>1, <1>3, <1>4, ListsKept DEF Listing, EntriesListed
<1>9. Lists(hierOffsets, file', "HIER")
  BY <1>1, <1>3, <1>4, ListsKept DEF Listing, EntriesListed
<1>10. Lists(Offsets(keyEntries), file', "AUX")
  BY <1>1, <1>3, <1>4, ListsKept DEF Listing, EntriesListed
<1>. QED
  BY <1>2, <1>7, <1>8, <1>9, <1>10, KeysKept, StaysOpen DEF Listing, EntriesListed, more

\* A keyed block is listed at the place after the last block.
LEMMA KeyListed ==
  ASSUME TypeOK, EntriesListed, Grows, NEW key \in AllAuxKeys, NEW strs, PutAux(key),
         Len(file') \in Nat, Len(file') >= Len(file) + 1,
         file'[Len(file) + 1] = AuxBlock(key, strs),
         \A n \in Len(file) + 2..Len(file') : file'[n].type \notin {"TXN", "AUX", "HIER"},
         UNCHANGED <<txnEntries, hierOffsets>>
  PROVE  /\ Lists(Offsets(keyEntries'), file', "AUX") /\ Lists(Offsets(txnEntries'), file', "TXN")
         /\ Lists(hierOffsets', file', "HIER")
<1>. DEFINE e == [key |-> key, ordinal |-> auxOrdinals[key], off |-> Len(file) + 1]
<1>1. Len(keyEntries) \in Nat /\ keyEntries \in Seq(KeyEntries) /\ Len(file) \in Nat
  BY DEF TypeOK, FileTypes, IndexTypes
<1>2. keyEntries' = Append(keyEntries, e)
  BY DEF PutAux
<1>3. e.off = Len(file) + 1
  OBVIOUS
<1>. HIDE DEF e
<1>4. \A n \in Len(file) + 1..Len(file') : n = Len(file) + 1 \/ n \in Len(file) + 2..Len(file')
  BY <1>1
<1>5. /\ Len(keyEntries') = Len(keyEntries) + 1
      /\ \A i \in 1..Len(keyEntries) : keyEntries'[i] = keyEntries[i]
      /\ keyEntries'[Len(keyEntries) + 1] = e
  BY <1>1, <1>2
<1>. DEFINE old  == Offsets(keyEntries)
            more == Offsets(keyEntries')
<1>. HIDE DEF old, more
<1>6. /\ Len(old) = Len(keyEntries) /\ Len(more) = Len(keyEntries) + 1
      /\ \A i \in 1..Len(keyEntries) : more[i] = old[i]
      /\ more[Len(keyEntries) + 1] = Len(file) + 1
  BY <1>1, <1>3, <1>5 DEF Offsets, old, more
<1>a. file'[Len(file) + 1].type = "AUX"
  BY DEF AuxBlock
<1>. USE ListTypes DEF TypeOK
<1>7. Lists(more, file', "AUX")
  <2>1. Lists(old, file, "AUX")
    BY DEF EntriesListed, old
  <2>2. /\ \A i \in Len(old) + 1..Len(more) : i = Len(keyEntries) + 1
        /\ Len(keyEntries) + 1 \in Len(old) + 1..Len(more)
        /\ Len(file) + 1 \in Len(file) + 1..Len(file')
        /\ \A n \in Len(file) + 1..Len(file') : file'[n].type = "AUX" => n = Len(file) + 1
        /\ Len(old) \in Nat /\ Len(more) \in Nat /\ Len(old) <= Len(more)
    BY <1>1, <1>4, <1>6
  <2>3. \A i, j \in Len(old) + 1..Len(more) : i < j => more[i] < more[j]
    BY <1>1, <2>2
  <2>4. \A i \in Len(old) + 1..Len(more) :
          more[i] \in Len(file) + 1..Len(file') /\ file'[more[i]].type = "AUX"
    BY <1>6, <1>a, <2>2
  <2>5. \A n \in Len(file) + 1..Len(file') :
          file'[n].type = "AUX" => \E i \in Len(old) + 1..Len(more) : more[i] = n
    BY <1>6, <2>2
  <2>6. \A i \in 1..Len(old) : more[i] = old[i]
    BY <1>6
  <2>7. Len(file) <= Len(file') /\ \A n \in 1..Len(file) : file'[n] = file[n]
    BY DEF Grows
  <2>8. Len(old) \in Nat /\ Len(more) \in Nat /\ Len(old) <= Len(more) /\ Len(file) \in Nat
    BY <1>1, <2>2
  <2>. QED
    BY <2>1, <2>3, <2>4, <2>5, <2>6, <2>7, <2>8, ListsGrow
<1>8. Lists(Offsets(txnEntries), file', "TXN")
  BY <1>1, <1>4, <1>a, ListsKept DEF EntriesListed
<1>9. Lists(hierOffsets, file', "HIER")
  BY <1>1, <1>4, <1>a, ListsKept DEF EntriesListed
<1>. QED
  BY <1>7, <1>8, <1>9 DEF more

\* The definition of a derived signal has a key of the trace.
LEMMA DefinitionKey ==
  ASSUME TypeOK, NEW e \in DerivedEncs, NEW name \in Names, DeclareDerived(e, name)
  PROVE  LET key == <<DerivedOwner, DerivedBase + derived>>
         IN  /\ key \in AllAuxKeys /\ PutAux(key) /\ DefinitionBlock(name) \in Blocks
             /\ \E strs : DefinitionBlock(name) = AuxBlock(key, strs)
             /\ UNCHANGED <<phase, txnEntries, hierOffsets>>
<1>1. DefinitionBlock(name) \in Blocks
  BY DeclareDerivedTypes
<1>2. <<DerivedOwner, DerivedBase + derived>> \in AllAuxKeys
  BY DerivedKey DEF DeclareDerived, TypeOK
<1>. QED
  BY <1>1, <1>2 DEF DeclareDerived, DefinitionBlock

\* One keyed block.
LEMMA AuxListed ==
  ASSUME TypeOK, Listing, Grows, phase = "open", NEW key \in AllAuxKeys, NEW strs, PutAux(key),
         file' = Append(file, AuxBlock(key, strs)),
         UNCHANGED <<phase, vcEntries, txnEntries, hierOffsets>>
  PROVE  Listing'
<1>1. file \in Seq(Blocks) /\ Len(file) \in Nat
  BY DEF TypeOK, FileTypes
<1>2. /\ Len(file') = Len(file) + 1 /\ file'[Len(file) + 1] = AuxBlock(key, strs)
      /\ \A n \in Len(file) + 1..Len(file') : n = Len(file) + 1
      /\ \A n \in Len(file) + 2..Len(file') : FALSE
  BY <1>1
<1>3. /\ Lists(Offsets(keyEntries'), file', "AUX") /\ Lists(Offsets(txnEntries'), file', "TXN")
      /\ Lists(hierOffsets', file', "HIER")
  <2>1. Len(file') \in Nat /\ Len(file') >= Len(file) + 1 /\ EntriesListed
    BY <1>1, <1>2 DEF Listing
  <2>. QED
    BY <1>2, <2>1, KeyListed
<1>4. Lists(Offsets(vcEntries), file', "VC")
  <2>1. AuxBlock(key, strs).type = "AUX"
    BY DEF AuxBlock
  <2>2. Len(file') \in Nat /\ FileTypes
    BY <1>1, <1>2 DEF TypeOK
  <2>3. \A n \in Len(file) + 1..Len(file') : file'[n].type # "VC"
    BY <1>2, <2>1
  <2>. QED
    BY <2>2, <2>3, ListTypes, ListsKept DEF Listing, EntriesListed
<1>5. KeysNumbered'
  BY <1>2, KeysPut DEF Listing
<1>. QED
  BY <1>3, <1>4, <1>5, StaysOpen DEF Listing, EntriesListed

\* The context of a materialized signal: its changes, and the types of the time.
Materialized(blk, e, times) ==
  \E start, end :
    blk = [NewVc("core", start) EXCEPT
             !.recs = {[var |-> DerivedBase + derived, time |-> t, ty |-> e, n |-> t] : t \in times},
             !.end = end, !.types = SigTypes(varTypes'), !.open = FALSE]

\* What a materialized signal writes: its definition, then its block if it has one.
LEMMA MaterializedWrites ==
  ASSUME TypeOK, NEW e \in DerivedEncs, NEW name \in Names,
         NEW times \in SUBSET Times, AddMaterialized(e, name, times)
  PROVE  \E blk, parts :
           /\ blks' = Append(blks, blk) /\ Materialized(blk, e, times)
           /\ parts = <<blk>> \/ (parts = << >> /\ times = {})
           /\ Len(file') = Len(file) + 1 + Len(parts) /\ Len(parts) \in Nat
           /\ file'[Len(file) + 1] = DefinitionBlock(name)
           /\ \A i \in 1..Len(parts) : file'[Len(file) + 1 + i] = VcBlocks(parts, 0)[i]
           /\ vcEntries' = vcEntries \o VcIndex(parts, Len(file) + 1)
<1>1. DefinitionBlock(name) \in Blocks
  BY DefinitionKey DEF AddMaterialized
<1>. DEFINE start == IF times = {} THEN 0 ELSE CHOOSE t \in times : \A u \in times : t <= u
            recs  == {[var |-> DerivedBase + derived, time |-> t, ty |-> e, n |-> t] : t \in times}
            end   == EndTime(start, recs)
            types == SigTypes(varTypes')
            only  == [NewVc("core", start) EXCEPT !.recs = recs, !.end = end, !.types = types,
                                                  !.open = FALSE]
            own   == IF ScopeGrouped /\ times = {} THEN << >> ELSE <<only>>
<1>b. Materialized(only, e, times)
  <2>. HIDE DEF start, end
  <2>. QED
    BY DEF Materialized
<1>c. /\ blks' = Append(blks, only)
      /\ file' = Append(file, DefinitionBlock(name)) \o VcBlocks(own, 0)
      /\ vcEntries' = vcEntries \o VcIndex(own, Len(file) + 1)
  BY DEF AddMaterialized
<1>. HIDE DEF only
<1>2. \E blk, parts :
        /\ blks' = Append(blks, blk) /\ Materialized(blk, e, times)
        /\ parts = IF ScopeGrouped /\ times = {} THEN << >> ELSE <<blk>>
        /\ file' = Append(file, DefinitionBlock(name)) \o VcBlocks(parts, 0)
        /\ vcEntries' = vcEntries \o VcIndex(parts, Len(file) + 1)
  BY <1>b, <1>c
<1>a. PICK blk, parts :
        /\ blks' = Append(blks, blk) /\ Materialized(blk, e, times)
        /\ parts = IF ScopeGrouped /\ times = {} THEN << >> ELSE <<blk>>
        /\ file' = Append(file, DefinitionBlock(name)) \o VcBlocks(parts, 0)
        /\ vcEntries' = vcEntries \o VcIndex(parts, Len(file) + 1)
  BY <1>2
<1>3. /\ parts = <<blk>> \/ (parts = << >> /\ times = {})
      /\ file' = Append(file, DefinitionBlock(name)) \o VcBlocks(parts, 0)
  BY <1>a
<1>4. file \in Seq(Blocks) /\ Len(file) \in Nat /\ Len(parts) \in Nat
  BY <1>3 DEF TypeOK, FileTypes
<1>. DEFINE def == DefinitionBlock(name)
            one == Append(file, def)
            two == VcBlocks(parts, 0)
<1>5. one \in Seq(Blocks) /\ Len(one) = Len(file) + 1 /\ one[Len(file) + 1] = def
  BY <1>1, <1>4
<1>6. Len(two) = Len(parts) /\ two = [i \in 1..Len(parts) |-> two[i]]
  BY <1>4 DEF VcBlocks
<1>7. \A i \in 1..Len(parts) : two[i].type = "VC"
  BY DEF VcBlocks, VcBlock
<1>8. file' = one \o two
  BY <1>3
<1>. HIDE DEF one, two, def
<1>9. /\ Len(file') = Len(file) + 1 + Len(parts) /\ file'[Len(file) + 1] = def
      /\ \A i \in 1..Len(parts) : file'[Len(file) + 1 + i] = two[i]
  <2>. DEFINE S == Blocks \cup {two[i] : i \in 1..Len(parts)}
  <2>1. \A i \in 1..Len(one) : one[i] \in S
    BY <1>5, ElementOfSeq
  <2>2. one = [i \in 1..Len(one) |-> one[i]] /\ Len(one) \in Nat
    BY <1>5
  <2>3. \A i \in 1..Len(parts) : two[i] \in S
    OBVIOUS
  <2>. HIDE DEF S
  <2>4. [i \in 1..Len(one) |-> one[i]] \in Seq(S) /\ [i \in 1..Len(parts) |-> two[i]] \in Seq(S)
    BY <1>4, <2>1, <2>2, <2>3
  <2>5. one \in Seq(S) /\ two \in Seq(S)
    BY <1>6, <2>2, <2>4
  <2>6. /\ Len(one \o two) = Len(one) + Len(two)
        /\ \A i \in 1..Len(one) + Len(two) :
             (one \o two)[i] = IF i <= Len(one) THEN one[i] ELSE two[i - Len(one)]
    BY <2>5, ConcatProperties
  <2>7. Len(file') = Len(file) + 1 + Len(parts)
    BY <1>5, <1>6, <1>8, <2>6
  <2>8. file'[Len(file) + 1] = def
    BY <1>4, <1>5, <1>6, <1>8, <2>6
  <2>9. ASSUME NEW i \in 1..Len(parts) PROVE file'[Len(file) + 1 + i] = two[i]
    <3>1. /\ Len(file) + 1 + i \in 1..Len(one) + Len(two) /\ ~(Len(file) + 1 + i <= Len(one))
          /\ Len(file) + 1 + i - Len(one) = i
      BY <1>4, <1>5, <1>6
    <3>. QED
      BY <1>8, <2>6, <3>1
  <2>. QED
    BY <2>7, <2>8, <2>9
<1>. QED
  BY <1>a, <1>3, <1>4, <1>9 DEF two, def

\* A materialized signal keeps the lists.
LEMMA MaterializedListed ==
  ASSUME TypeOK, Listing, Grows, FileTypes', phase = "open", NEW e \in DerivedEncs, NEW name \in Names,
         NEW times \in SUBSET Times, AddMaterialized(e, name, times)
  PROVE  Listing'
<1>. DEFINE key == <<DerivedOwner, DerivedBase + derived>>
<1>1. /\ key \in AllAuxKeys /\ PutAux(key) /\ DefinitionBlock(name) \in Blocks
      /\ UNCHANGED <<phase, txnEntries, hierOffsets>>
  BY DefinitionKey DEF AddMaterialized
<1>2. PICK strs : DefinitionBlock(name) = AuxBlock(key, strs)
  BY DefinitionKey DEF AddMaterialized
<1>. HIDE DEF key
<1>3. PICK blk, parts :
        /\ Len(file') = Len(file) + 1 + Len(parts) /\ Len(parts) \in Nat
        /\ file'[Len(file) + 1] = DefinitionBlock(name)
        /\ \A i \in 1..Len(parts) : file'[Len(file) + 1 + i] = VcBlocks(parts, 0)[i]
        /\ vcEntries' = vcEntries \o VcIndex(parts, Len(file) + 1)
  BY MaterializedWrites
<1>4. file \in Seq(Blocks) /\ Len(file) \in Nat /\ Len(parts) \in Nat
  BY <1>3 DEF TypeOK, FileTypes
<1>7. \A i \in 1..Len(parts) : VcBlocks(parts, 0)[i].type = "VC"
  BY DEF VcBlocks, VcBlock
<1>9. /\ Len(file') = Len(file) + 1 + Len(parts) /\ file'[Len(file) + 1] = DefinitionBlock(name)
      /\ \A i \in 1..Len(parts) : file'[Len(file) + 1 + i] = VcBlocks(parts, 0)[i]
  BY <1>3
<1>10. \A n \in Len(file) + 2..Len(file') : file'[n].type = "VC"
  <2>1. TAKE n \in Len(file) + 2..Len(file')
  <2>2. n - (Len(file) + 1) \in 1..Len(parts) /\ Len(file) + 1 + (n - (Len(file) + 1)) = n
    BY <1>4, <1>9
  <2>. QED
    BY <1>7, <1>9, <2>2
<1>11. file'[Len(file) + 1] = AuxBlock(key, strs) /\ file'[Len(file) + 1].type = "AUX"
  BY <1>2, <1>9 DEF AuxBlock
<1>12. /\ Lists(Offsets(keyEntries'), file', "AUX") /\ Lists(Offsets(txnEntries'), file', "TXN")
       /\ Lists(hierOffsets', file', "HIER")
  <2>1. Len(file') \in Nat /\ Len(file') >= Len(file) + 1 /\ EntriesListed
    BY <1>4, <1>9 DEF Listing
  <2>2. \A n \in Len(file) + 2..Len(file') : file'[n].type \notin {"TXN", "AUX", "HIER"}
    BY <1>10
  <2>. QED
    BY <1>1, <1>11, <2>1, <2>2, KeyListed
<1>13. Lists(Offsets(vcEntries'), file', "VC")
  <2>0. PICK off : off = Len(file) + 1
    OBVIOUS
  <2>1. off \in Nat /\ Len(file) <= off /\ EntriesListed /\ Len(file') = off + Len(parts)
    BY <1>4, <1>9, <2>0 DEF Listing
  <2>2. \A n \in Len(file) + 1..off : file'[n].type # "VC"
    BY <1>4, <1>11, <2>0
  <2>3. \A i \in 1..Len(parts) : file'[off + i] = VcBlocks(parts, 0)[i]
    BY <1>9, <2>0
  <2>4. vcEntries' = vcEntries \o VcIndex(parts, off)
    BY <1>3, <2>0
  <2>. QED
    BY <1>4, <2>1, <2>2, <2>3, <2>4, RunListed
<1>14. KeysNumbered'
  BY <1>1, <1>11, KeysPut DEF Listing
<1>. QED
  BY <1>1, <1>12, <1>13, <1>14, StaysOpen DEF Listing, EntriesListed

\* The calls on data keep the lists.
LEMMA DataListed ==
  ASSUME WriterInv, Listing, phase = "open", RecordChanges \/ RecordTxns \/ RecordOther
  PROVE  Listing'
<1>. USE DEF WriterInv
<1>1. Grows /\ FileTypes'
  BY ChangesStep, TxnsStep, OtherStep DEF TypeOK
<1>2. CASE UNCHANGED <<phase, file, vcEntries, txnEntries, keyEntries, auxOrdinals, hierOffsets>>
  BY <1>1, <1>2, QuietListed
<1>3. CASE RecordChanges
  <2>1. ASSUME NEW c \in Codecs, NEW t \in Times, BeginVc(c, t) PROVE Listing'
    BY <1>2, <2>1 DEF BeginVc, fileVars, auxVars, hierVars
  <2>2. ASSUME NEW b \in 1..Len(blks), NEW h \in 1..Len(hiers), NEW k \in 1..MaxVars,
               (\E t \in Times : AddChange(b, h, k, t)) \/ SetInitial(b, h, k)
        PROVE  Listing'
    <3>1. UNCHANGED <<phase, file, vcEntries, txnEntries, keyEntries, auxOrdinals, hierOffsets>>
      BY <2>2 DEF AddChange, SetInitial, fileVars, auxVars, hierVars
    <3>. QED
      BY <1>2, <3>1
  <2>3. ASSUME NEW b \in 1..Len(blks), FlushVc(b) PROVE Listing'
    BY <1>1, <2>3, FlushVcListed
  <2>. QED
    BY <1>3, <2>1, <2>2, <2>3 DEF RecordChanges
<1>4. CASE RecordTxns
  <2>1. ASSUME NEW sid \in BlockStreams, NEW t \in Times, BeginTxn(sid, t) PROVE Listing'
    BY <1>2, <2>1 DEF BeginTxn, fileVars, auxVars, hierVars
  <2>2. ASSUME NEW b \in 1..Len(blks), NEW i \in TxnIds,
               \/ \E sid \in Streams, t, u \in Times : WriteFull(b, sid, i, t, u)
               \/ \E sid \in Streams, t \in Times : WriteBegin(b, sid, i, t)
               \/ \E t \in Times : WriteEnd(b, i, t)
               \/ WriteNote(b, i)
               \/ \E s, v \in Names : WriteMeta(b, i, s, v)
        PROVE  Listing'
    <3>1. UNCHANGED <<phase, file, vcEntries, txnEntries, keyEntries, auxOrdinals, hierOffsets>>
      BY <2>2 DEF WriteFull, WriteBegin, WriteEnd, WriteNote, WriteMeta, AddRecord,
                  fileVars, auxVars, hierVars
    <3>. QED
      BY <1>2, <3>1
  <2>3. ASSUME NEW b \in 1..Len(blks), FlushTxn(b) PROVE Listing'
    BY <1>1, <2>3, FlushTxnListed
  <2>. QED
    BY <1>4, <2>1, <2>2, <2>3 DEF RecordTxns
<1>5. CASE RecordOther
  <2>1. ASSUME NEW key \in AuxKeys, WriteAux(key) PROVE Listing'
    <3>1. key \in AllAuxKeys /\ PutAux(key) /\ file' = Append(file, AuxBlock(key, << >>))
          /\ UNCHANGED <<phase, vcEntries, txnEntries, hierOffsets>>
      BY <2>1 DEF WriteAux, AllAuxKeys, hierVars
    <3>. QED
      BY <1>1, <3>1, AuxListed
  <2>2. ASSUME WriteExt PROVE Listing'
    <3>1. \E blk : file' = Append(file, blk) /\ blk.type \notin {"VC", "TXN", "AUX", "HIER"}
      BY <2>2 DEF WriteExt
    <3>2. UNCHANGED <<phase, vcEntries, txnEntries, keyEntries, auxOrdinals, hierOffsets>>
      BY <2>2 DEF WriteExt, auxVars, hierVars
    <3>. QED
      BY <1>1, <3>1, <3>2, QuietListed
  <2>3. ASSUME NEW e \in DerivedEncs, NEW s \in Names, AddDerived(e, s) PROVE Listing'
    <3>1. LET key == <<DerivedOwner, DerivedBase + derived>>
          IN  /\ key \in AllAuxKeys /\ PutAux(key)
              /\ \E strs : DefinitionBlock(s) = AuxBlock(key, strs)
              /\ UNCHANGED <<phase, txnEntries, hierOffsets>>
      BY <2>3, DefinitionKey DEF AddDerived
    <3>2. file' = Append(file, DefinitionBlock(s)) /\ UNCHANGED vcEntries
      BY <2>3 DEF AddDerived
    <3>. QED
      BY <1>1, <3>1, <3>2, AuxListed
  <2>4. ASSUME NEW e \in DerivedEncs, NEW s \in Names, NEW times \in SUBSET Times,
               AddMaterialized(e, s, times)
        PROVE  Listing'
    BY <1>1, <2>4, MaterializedListed
  <2>5. ASSUME RefuseDerived PROVE Listing'
    <3>1. UNCHANGED <<phase, file, vcEntries, txnEntries, keyEntries, auxOrdinals, hierOffsets>>
      BY <2>5 DEF RefuseDerived, fileVars, hierVars
    <3>. QED
      BY <1>2, <3>1
  <2>. QED
    BY <1>5, <2>1, <2>2, <2>3, <2>4, <2>5 DEF RecordOther
<1>. QED
  BY <1>3, <1>4, <1>5

\* What the close writes: the metadata block if there is any, then strings, types
\* and the index that says where they are.
LEMMA CloseWrites ==
  ASSUME FileTypes, Close
  PROVE  \E off, index :
           /\ off \in Nat /\ off = IF meta = << >> THEN Len(file) ELSE Len(file) + 1
           /\ Len(file') = off + 3 /\ Len(file) \in Nat
           /\ file'[off + 1] = [type |-> "STR", strings |-> strtab]
           /\ file'[off + 2] = [type |-> "TYPE", reg |-> typereg]
           /\ file'[off + 3] = index
           /\ index.type = "INDEX" /\ index.strtab = off + 1 /\ index.typereg = off + 2
           /\ index.meta = IF meta = << >> THEN 0 ELSE Len(file) + 1
           /\ meta # << >> => file'[Len(file) + 1] = [type |-> "META", attrs |-> meta]
<1>. DEFINE off   == Len(file) + Len(MetaBlocks)
            str   == [type |-> "STR", strings |-> strtab]
            reg   == [type |-> "TYPE", reg |-> typereg]
            index == [type |-> "INDEX", vc |-> vcEntries, txn |-> txnEntries, key |-> keyEntries,
                      strtab |-> off + 1, typereg |-> off + 2, hier |-> hierOffsets,
                      meta |-> IF meta = << >> THEN 0 ELSE Len(file) + 1]
            tail  == <<str, reg, index>>
            attrs == [type |-> "META", attrs |-> meta]
<1>1. file \in Seq(Blocks) /\ Len(file) \in Nat
  BY DEF FileTypes
<1>2. /\ MetaBlocks = IF meta = << >> THEN << >> ELSE <<attrs>>
      /\ Len(MetaBlocks) = IF meta = << >> THEN 0 ELSE 1
  BY DEF MetaBlocks
<1>3. file' = file \o MetaBlocks \o tail
  BY DEF Close
<1>4. /\ str.type = "STR" /\ reg.type = "TYPE" /\ index.type = "INDEX" /\ attrs.type = "META"
      /\ index.strtab = off + 1 /\ index.typereg = off + 2
      /\ index.meta = IF meta = << >> THEN 0 ELSE Len(file) + 1
  OBVIOUS
<1>5. UNCHANGED <<vcEntries, txnEntries, keyEntries, auxOrdinals, hierOffsets, strtab, typereg, meta>>
  BY DEF Close, auxVars, hierVars, metaVars
<1>. HIDE DEF str, reg, index, attrs
<1>6. Len(tail) = 3 /\ tail[1] = str /\ tail[2] = reg /\ tail[3] = index
  OBVIOUS
<1>. DEFINE S == Blocks \cup {str, reg, index, attrs}
<1>7. file \in Seq(S) /\ MetaBlocks \in Seq(S) /\ tail \in Seq(S)
  <2>1. str \in S /\ reg \in S /\ index \in S /\ attrs \in S
    OBVIOUS
  <2>2. \A i \in 1..Len(file) : file[i] \in S
    BY <1>1, ElementOfSeq
  <2>3. file = [i \in 1..Len(file) |-> file[i]]
    BY <1>1
  <2>. HIDE DEF S
  <2>4. [i \in 1..Len(file) |-> file[i]] \in Seq(S)
    BY <1>1, <2>2
  <2>5. <<attrs>> \in Seq(S) /\ tail \in Seq(S) /\ << >> \in Seq(S)
    BY <2>1
  <2>. QED
    BY <1>2, <2>3, <2>4, <2>5
<1>. DEFINE one == file \o MetaBlocks
<1>. HIDE DEF S, tail
<1>8. /\ one \in Seq(S) /\ Len(one) = off
      /\ \A i \in 1..Len(file) + Len(MetaBlocks) :
           one[i] = IF i <= Len(file) THEN file[i] ELSE MetaBlocks[i - Len(file)]
  BY <1>7, ConcatProperties
<1>9. off \in Nat /\ Len(file) <= off /\ off = IF meta = << >> THEN Len(file) ELSE Len(file) + 1
  BY <1>1, <1>2
<1>10. /\ \A i \in 1..Len(file) : one[i] = file[i]
       /\ meta # << >> => one[Len(file) + 1] = attrs
  <2>1. \A i \in 1..Len(file) : one[i] = file[i]
    BY <1>1, <1>2, <1>8
  <2>2. ASSUME meta # << >> PROVE one[Len(file) + 1] = attrs
    BY <1>1, <1>2, <1>8, <2>2
  <2>. QED
    BY <2>1, <2>2
<1>. HIDE DEF one, off
<1>11. /\ Len(file') = off + 3
       /\ \A i \in 1..off + 3 : file'[i] = IF i <= off THEN one[i] ELSE tail[i - off]
  <2>1. file' = one \o tail
    BY <1>3 DEF one
  <2>2. /\ Len(one \o tail) = Len(one) + Len(tail)
        /\ \A i \in 1..Len(one) + Len(tail) :
             (one \o tail)[i] = IF i <= Len(one) THEN one[i] ELSE tail[i - Len(one)]
    BY <1>7, <1>8, ConcatProperties
  <2>. QED
    BY <1>6, <1>8, <2>1, <2>2
<1>12. /\ file'[off + 1] = str /\ file'[off + 2] = reg /\ file'[off + 3] = index
       /\ meta # << >> => file'[Len(file) + 1] = attrs
  <2>1. /\ off + 1 \in 1..off + 3 /\ off + 2 \in 1..off + 3 /\ off + 3 \in 1..off + 3
        /\ ~(off + 1 <= off) /\ ~(off + 2 <= off) /\ ~(off + 3 <= off)
        /\ (off + 1) - off = 1 /\ (off + 2) - off = 2 /\ (off + 3) - off = 3
    BY <1>9
  <2>2. file'[off + 1] = str /\ file'[off + 2] = reg /\ file'[off + 3] = index
    BY <1>6, <1>11, <2>1
  <2>3. ASSUME meta # << >> PROVE file'[Len(file) + 1] = attrs
    <3>1. off = Len(file) + 1
      BY <1>9, <2>3
    <3>2. Len(file) + 1 \in 1..off + 3 /\ Len(file) + 1 <= off
      BY <1>1, <1>9, <3>1
    <3>3. file'[Len(file) + 1] = one[Len(file) + 1]
      BY <1>11, <3>2
    <3>. QED
      BY <1>10, <2>3, <3>3
  <2>. QED
    BY <2>2, <2>3
<1>. QED
  BY <1>1, <1>4, <1>9, <1>11, <1>12 DEF str, reg, attrs

\* The close lists nothing and says where the rest is.
LEMMA CloseListed ==
  ASSUME WriterInv, Listing, Close
  PROVE  Listing'
<1>1. PICK off, index :
        /\ off \in Nat /\ off = IF meta = << >> THEN Len(file) ELSE Len(file) + 1
        /\ Len(file') = off + 3 /\ Len(file) \in Nat
        /\ file'[off + 1] = [type |-> "STR", strings |-> strtab]
        /\ file'[off + 2] = [type |-> "TYPE", reg |-> typereg]
        /\ file'[off + 3] = index
        /\ index.type = "INDEX" /\ index.strtab = off + 1 /\ index.typereg = off + 2
        /\ index.meta = IF meta = << >> THEN 0 ELSE Len(file) + 1
        /\ meta # << >> => file'[Len(file) + 1] = [type |-> "META", attrs |-> meta]
  BY CloseWrites DEF WriterInv, TypeOK
<1>5. UNCHANGED <<vcEntries, txnEntries, keyEntries, auxOrdinals, hierOffsets, strtab, typereg, meta>>
  BY DEF Close, auxVars, hierVars, metaVars
<1>13. \A n \in Len(file) + 1..Len(file') : file'[n].type \notin {"VC", "TXN", "AUX", "HIER"}
  <2>1. TAKE n \in Len(file) + 1..Len(file')
  <2>2. n = off + 1 \/ n = off + 2 \/ n = off + 3 \/ (meta # << >> /\ n = Len(file) + 1)
    BY <1>1
  <2>3. n = off + 1 => file'[n].type = "STR"
    BY <1>1
  <2>4. n = off + 2 => file'[n].type = "TYPE"
    BY <1>1
  <2>5. n = off + 3 => file'[n].type = "INDEX"
    BY <1>1
  <2>6. meta # << >> /\ n = Len(file) + 1 => file'[n].type = "META"
    BY <1>1
  <2>. QED
    BY <2>2, <2>3, <2>4, <2>5, <2>6
<1>14. Grows
  BY CloseStep
<1>15. EntriesListed' /\ KeysNumbered'
  <2>1. Len(file') \in Nat
    BY <1>1
  <2>. QED
    BY <1>5, <1>13, <1>14, <2>1, ListedQuiet, KeysKept DEF Listing, WriterInv
<1>16. TailWritten'
  <2>1. /\ off + 1 \in 1..Len(file') /\ off + 2 \in 1..Len(file')
        /\ meta # << >> => Len(file) + 1 \in 1..Len(file')
    BY <1>1
  <2>2. file'[Len(file')] = index
    BY <1>1
  <2>. QED
    BY <1>1, <1>5, <2>1, <2>2 DEF TailWritten
<1>. QED
  BY <1>15, <1>16 DEF Listing

\* Nothing is written after the close, and what it wrote stays.
LEMMA NothingWritten ==
  ASSUME Listing,
         UNCHANGED <<file, metaVars, hierVars, vcEntries, txnEntries, auxVars>>, phase # "open" \/ UNCHANGED phase
  PROVE  Listing'
<1>1. UNCHANGED <<file, strtab, typereg, meta, hierOffsets, vcEntries, txnEntries, keyEntries, auxOrdinals>>
  BY DEF metaVars, hierVars, auxVars
<1>2. EntriesListed'
  BY <1>1 DEF Listing, EntriesListed
<1>3. KeysNumbered'
  BY <1>1 DEF Listing, KeysNumbered
<1>4. TailWritten'
  <2>1. CASE phase # "open"
    BY <1>1, <2>1 DEF Listing, TailWritten
  <2>2. CASE UNCHANGED phase
    BY <1>1, <2>2 DEF Listing, TailWritten
  <2>. QED
    BY <2>1, <2>2
<1>. QED
  BY <1>2, <1>3, <1>4 DEF Listing

\* Every step of the writer keeps the lists.
LEMMA ListingStep ==
  ASSUME WriterInv, Listing, [Next]_vars
  PROVE  Listing'
<1>1. CASE Client
  BY <1>1, DeclareListed, DataListed DEF Client
<1>2. CASE Close
  BY <1>2, CloseListed
<1>3. CASE PatchHeader \/ Release
  BY <1>3, NothingWritten DEF PatchHeader, Release
<1>4. CASE UNCHANGED vars
  BY <1>4, NothingWritten DEF vars, fileVars
<1>. QED
  BY <1>1, <1>2, <1>3, <1>4 DEF Next

-----------------------------------------------------------------------------
(* The invariant of the trace *)

\* A new trace is empty.
LEMMA TraceInitInv == TraceInit => TraceInv
<1>. SUFFICES ASSUME TraceInit PROVE TraceInv
  OBVIOUS
<1>1. WriterInv
  BY InitInv DEF TraceInit
<1>2. DiskInv
  BY DEF TraceInit, DiskInv, Ended
<1>3. EntriesListed
  BY DEF TraceInit, Init, EntriesListed, Lists, Offsets
<1>4. KeysNumbered
  <2>1. \A key \in AllAuxKeys : auxOrdinals[key] = 0
    BY DEF TraceInit, Init
  <2>2. \A key \in AllAuxKeys : \A n \in 0..auxOrdinals[key] - 1 : FALSE
    BY <2>1
  <2>3. Len(keyEntries) = 0
    BY DEF TraceInit, Init
  <2>. QED
    BY <2>2, <2>3 DEF KeysNumbered
<1>5. TailWritten
  BY DEF TraceInit, Init, TailWritten
<1>. QED
  BY <1>1, <1>2, <1>3, <1>4, <1>5 DEF TraceInv

\* What the end of the run leaves of the file.
LEMMA EndLeaves ==
  ASSUME TraceInv, End
  PROVE  DiskInv'
<1>1. file \in Seq(Blocks) /\ hdr \in Nat /\ Len(file) \in Nat
      /\ phase \in {"open", "closing", "patched", "done"}
  BY DEF TraceInv, WriterInv, TypeOK, FileTypes
<1>2. UNCHANGED <<file, hdr, phase>>
  BY DEF End, vars, fileVars
<1>3. CASE phase = "done"
  <2>1. disk' = [blocks |-> file, hdr |-> hdr]
    BY <1>3 DEF End
  <2>. QED
    BY <1>1, <1>2, <1>3, <2>1 DEF DiskInv
<1>4. CASE phase = "patched"
  <2>1. PICK h \in {0, hdr} : disk' = [blocks |-> file, hdr |-> h]
    BY <1>4 DEF End
  <2>. QED
    BY <1>1, <1>2, <1>4, <2>1 DEF DiskInv
<1>5. CASE phase \in {"open", "closing"}
  <2>1. PICK n \in 0..Len(file) : disk' = [blocks |-> SubSeq(file, 1, n), hdr |-> 0]
    BY <1>5 DEF End
  <2>2. /\ SubSeq(file, 1, n) \in Seq(Blocks) /\ Len(SubSeq(file, 1, n)) = n
        /\ \A i \in 1..n : SubSeq(file, 1, n)[i] = file[i]
    <3>1. n \in Nat /\ \A i \in 1..n : file[i] \in Blocks
      BY <1>1, ElementOfSeq
    <3>. QED
      BY <3>1, SubSeqProperties
  <2>. DEFINE left == SubSeq(file, 1, n)
  <2>. HIDE DEF left
  <2>3. left \in Seq(Blocks) /\ Len(left) = n /\ n <= Len(file) /\ \A i \in 1..n : left[i] = file[i]
    BY <1>1, <2>2 DEF left
  <2>4. disk' = [blocks |-> left, hdr |-> 0]
    BY <2>1 DEF left
  <2>. QED
    BY <1>1, <1>2, <1>5, <2>3, <2>4 DEF DiskInv
<1>. QED
  BY <1>1, <1>3, <1>4, <1>5

\* The invariant is inductive.
LEMMA TraceInductive == TraceInv /\ [TraceNext]_traceVars => TraceInv'
<1>. SUFFICES ASSUME TraceInv, [TraceNext]_traceVars PROVE TraceInv'
  OBVIOUS
<1>1. [Next]_vars
  BY DEF TraceNext, Write, End, traceVars
<1>2. WriterInv'
  BY <1>1, Inductive DEF TraceInv
<1>3. Listing'
  BY <1>1, ListingStep DEF TraceInv, Listing
<1>4. DiskInv'
  <2>1. CASE Write
    BY <2>1 DEF Write, DiskInv, Ended
  <2>2. CASE End
    BY <2>2, EndLeaves
  <2>3. CASE UNCHANGED traceVars
    BY <2>3 DEF traceVars, vars, fileVars, TraceInv, DiskInv, Ended
  <2>. QED
    BY <2>1, <2>2, <2>3 DEF TraceNext
<1>. QED
  BY <1>2, <1>3, <1>4 DEF TraceInv, Listing

\* Every state of a trace, until the run of the writer ends and after, satisfies
\* the invariant.
THEOREM TraceInvariant == TraceSpec => []TraceInv
BY TraceInitInv, TraceInductive, PTL DEF TraceSpec

-----------------------------------------------------------------------------
(* An index on disk *)

\* A header on disk that is not zero: the whole file is there, with its index last.
LEMMA IndexOnDisk ==
  ASSUME TraceInv, Ended, disk.hdr # 0
  PROVE  /\ disk.blocks = file /\ disk.hdr = Len(file) /\ Len(file) \in Nat \ {0}
         /\ Index(disk) = file[Len(file)] /\ Indexed(disk)
         /\ Index(disk).vc = vcEntries /\ Index(disk).txn = txnEntries
         /\ Index(disk).key = keyEntries /\ Index(disk).hier = hierOffsets
         /\ phase # "open" /\ CanSeek
<1>1. phase \in {"patched", "done"} /\ disk.blocks = file /\ disk.hdr = hdr
  BY DEF TraceInv, DiskInv
<1>2. /\ hdr = Len(file) /\ file[hdr].type = "INDEX" /\ CanSeek
      /\ file[hdr].vc = vcEntries /\ file[hdr].txn = txnEntries
      /\ file[hdr].key = keyEntries /\ file[hdr].hier = hierOffsets
  BY <1>1 DEF TraceInv, WriterInv, HeaderPoints
<1>3. Len(file) \in Nat
  BY ListTypes DEF TraceInv, WriterInv
<1>. QED
  BY <1>1, <1>2, <1>3 DEF Indexed, Index

\* A header without an offset is no index.
LEMMA NoIndexOnDisk ==
  ASSUME disk.hdr = 0
  PROVE  ~Indexed(disk)
BY DEF Indexed

\* Whenever a header with an offset is on disk, the offset leads to an index that
\* lists every block of data, in the order of the file, and where the strings, the
\* types and the metadata are (close and _patch_index_offset).
THEOREM IndexComplete == TraceSpec => []HeaderSound
<1>1. TraceInv => HeaderSound
  <2>. SUFFICES ASSUME TraceInv, Ended, disk.hdr # 0
                PROVE  /\ Indexed(disk)
                       /\ Lists(Offsets(Index(disk).vc), disk.blocks, "VC")
                       /\ Lists(Offsets(Index(disk).txn), disk.blocks, "TXN")
                       /\ Lists(Offsets(Index(disk).key), disk.blocks, "AUX")
                       /\ Lists(Index(disk).hier, disk.blocks, "HIER")
                       /\ disk.blocks[Index(disk).strtab].type = "STR"
                       /\ disk.blocks[Index(disk).typereg].type = "TYPE"
                       /\ Index(disk).meta # 0 => disk.blocks[Index(disk).meta].type = "META"
    BY DEF HeaderSound
  <2>1. EntriesListed /\ TailWritten
    BY DEF TraceInv
  <2>. QED
    BY <2>1, IndexOnDisk DEF EntriesListed, TailWritten
<1>. QED
  BY <1>1, TraceInvariant, PTL

-----------------------------------------------------------------------------
(* Reading through the index *)

\* The entries of value-change blocks lead to the blocks, and cover their changes.
LEMMA VcEntriesLead ==
  ASSUME TraceInv
  PROVE  /\ \A e \in ToSet(vcEntries) :
              /\ e.off \in 1..Len(file) /\ file[e.off].type = "VC"
              /\ e.start \in Times /\ e.end \in Times
              /\ \A r \in file[e.off].recs : r.time \in Times /\ e.start <= r.time /\ r.time <= e.end
         /\ \A n \in 1..Len(file) : file[n].type = "VC" => \E e \in ToSet(vcEntries) : e.off = n
<1>1. /\ TypeOK /\ VcIndexCovers /\ Lists(Offsets(vcEntries), file, "VC")
  BY DEF TraceInv, WriterInv, EntriesListed
<1>2. /\ vcEntries \in Seq(Ranges) /\ Len(vcEntries) \in Nat /\ file \in Seq(Blocks)
      /\ Len(Offsets(vcEntries)) = Len(vcEntries)
      /\ \A i \in 1..Len(vcEntries) : Offsets(vcEntries)[i] = vcEntries[i].off
      /\ DOMAIN vcEntries = 1..Len(vcEntries)
  BY <1>1, ListTypes, OffsetsOf DEF TypeOK, IndexTypes, FileTypes
<1>3. ASSUME NEW e \in ToSet(vcEntries)
      PROVE  /\ e.off \in 1..Len(file) /\ file[e.off].type = "VC"
             /\ e.start \in Times /\ e.end \in Times
             /\ \A r \in file[e.off].recs : r.time \in Times /\ e.start <= r.time /\ r.time <= e.end
  <2>1. PICK i \in 1..Len(vcEntries) : e = vcEntries[i]
    BY <1>2 DEF ToSet
  <2>2. e \in Ranges
    BY <1>2, <2>1, ElementOfSeq
  <2>3. /\ e.off \in 1..Len(file) /\ file[e.off].type = "VC"
        /\ \A r \in file[e.off].recs : e.start <= r.time /\ r.time <= e.end
    BY <1>1, <2>1 DEF VcIndexCovers
  <2>4. file[e.off] \in Blocks
    BY <1>2, <2>3, ElementOfSeq
  <2>5. file[e.off].recs \subseteq Changes
    BY <2>3, <2>4 DEF Blocks
  <2>. QED
    BY <2>2, <2>3, <2>5 DEF Ranges, Changes
<1>4. ASSUME NEW n \in 1..Len(file), file[n].type = "VC"
      PROVE  \E e \in ToSet(vcEntries) : e.off = n
  <2>1. PICK i \in 1..Len(vcEntries) : vcEntries[i].off = n
    BY <1>1, <1>2, <1>4 DEF Lists
  <2>. QED
    BY <1>2, <2>1 DEF ToSet
<1>. QED
  BY <1>3, <1>4

\* The places of a type in an image of the whole file.
LEMMA PlacesOnDisk ==
  ASSUME TraceInv, disk.blocks = file, NEW type
  PROVE  PlacesOf(disk, type) = {n \in 1..Len(file) : file[n].type = type}
<1>1. DOMAIN file = 1..Len(file)
  BY DEF TraceInv, WriterInv, TypeOK, FileTypes
<1>. QED
  BY <1>1 DEF PlacesOf

\* A windowed read through the index misses no change that a scan finds and finds
\* none that a scan does not, unless it fails on a block of another codec: the range
\* of an entry covers its block whatever calls filled it (read_signal, find_vc_blocks).
THEOREM WindowsComplete == TraceSpec => []WindowComplete
<1>1. ASSUME TraceInv, Ended, NEW v \in Vars, NEW lo \in Times, NEW hi \in Times,
             ~WindowFails(disk, lo, hi)
      PROVE  ReadWindow(disk, v, lo, hi) = ScanSignal(disk, v, lo, hi)
  <2>1. CASE ~Indexed(disk)
    BY <2>1 DEF ReadWindow
  <2>2. CASE Indexed(disk)
    <3>1. disk.hdr # 0
      BY <2>2, NoIndexOnDisk
    <3>2. disk.blocks = file /\ Index(disk).vc = vcEntries
      BY <1>1, <3>1, IndexOnDisk
    <3>3. FindVcBlocks(disk, lo, hi) = {e \in ToSet(vcEntries) : e.end >= lo /\ e.start <= hi}
      BY <3>2 DEF FindVcBlocks
    <3>4. \A e \in FindVcBlocks(disk, lo, hi) : file[e.off].codec = 0
      BY <1>1, <2>2, <3>2 DEF WindowFails
    <3>. DEFINE found == FindVcBlocks(disk, lo, hi)
                seen  == {j \in PlacesOf(disk, "VC") : Readable(disk, disk.blocks[j])}
                changes(i) == {<<i, r>> : r \in {x \in disk.blocks[i].recs : InWindow(x, v, lo, hi)}}
    <3>5. /\ ReadWindow(disk, v, lo, hi) = UNION {changes(e.off) : e \in found}
          /\ ScanSignal(disk, v, lo, hi) = UNION {changes(i) : i \in seen}
      BY <2>2 DEF ReadWindow, ScanSignal
    <3>6. \A e \in found : e.off \in seen
      <4>1. TAKE e \in found
      <4>2. e.off \in 1..Len(file) /\ file[e.off].type = "VC"
        BY <1>1, <3>3, VcEntriesLead
      <4>3. e.off \in PlacesOf(disk, "VC")
        BY <1>1, <3>2, <4>2, PlacesOnDisk
      <4>. QED
        BY <3>2, <3>4, <4>3 DEF Readable
    <3>7. ASSUME NEW i \in seen, NEW x \in changes(i)
          PROVE  \E e \in found : e.off = i
      <4>1. i \in 1..Len(file) /\ file[i].type = "VC"
        BY <1>1, <3>2, PlacesOnDisk
      <4>2. PICK e \in ToSet(vcEntries) : e.off = i
        BY <1>1, <4>1, VcEntriesLead
      <4>3. PICK r \in file[i].recs : InWindow(r, v, lo, hi)
        BY <3>2, <3>7
      <4>4. /\ e.start \in Times /\ e.end \in Times /\ r.time \in Times
            /\ e.start <= r.time /\ r.time <= e.end
        BY <1>1, <4>2, <4>3, VcEntriesLead
      <4>5. lo <= r.time /\ r.time <= hi
        BY <4>3 DEF InWindow
      <4>6. e.end >= lo /\ e.start <= hi
        BY <1>1, <4>4, <4>5, ConstantTypes DEF Times
      <4>. QED
        BY <3>3, <4>2, <4>6
    <3>. HIDE DEF found, seen, changes
    <3>8. UNION {changes(e.off) : e \in found} = UNION {changes(i) : i \in seen}
      <4>1. \A x : x \in UNION {changes(e.off) : e \in found} => x \in UNION {changes(i) : i \in seen}
        BY <3>6
      <4>2. \A x : x \in UNION {changes(i) : i \in seen} => x \in UNION {changes(e.off) : e \in found}
        BY <3>7
      <4>. QED
        BY <4>1, <4>2
    <3>. QED
      BY <3>5, <3>8
  <2>. QED
    BY <2>1, <2>2
<1>2. TraceInv => WindowComplete
  BY <1>1 DEF WindowComplete
<1>. QED
  BY <1>2, TraceInvariant, PTL

-----------------------------------------------------------------------------
(* Keyed blocks *)

\* Entries numbered from 0 without a gap are sorted by their numbers.
LEMMA NumberedSorted ==
  ASSUME NEW E, NEW n \in Nat,
         \A e \in E : e.ordinal \in 0..n - 1 /\ e.off \in Nat,
         \A k \in 0..n - 1 : \E e \in E : e.ordinal = k,
         \A d, e \in E : d.ordinal = e.ordinal => d = e
  PROVE  /\ Cardinality(E) = n /\ SortedAux(E) \in [1..n -> E]
         /\ \A i \in 1..n : SortedAux(E)[i].ordinal = i - 1
<1>. DEFINE byNumber == [i \in 1..n |-> CHOOSE e \in E : e.ordinal = i - 1]
<1>1. ASSUME NEW i \in 1..n PROVE byNumber[i] \in E /\ byNumber[i].ordinal = i - 1
  <2>1. i - 1 \in 0..n - 1
    OBVIOUS
  <2>2. \E e \in E : e.ordinal = i - 1
    BY <2>1
  <2>. QED
    BY <2>2
<1>2. byNumber \in [1..n -> E]
  BY <1>1
<1>. HIDE DEF byNumber
<1>3. ASSUME NEW e \in E PROVE \E i \in 1..n : byNumber[i] = e
  <2>1. e.ordinal + 1 \in 1..n /\ (e.ordinal + 1) - 1 = e.ordinal
    OBVIOUS
  <2>2. byNumber[e.ordinal + 1] \in E /\ byNumber[e.ordinal + 1].ordinal = e.ordinal
    BY <2>1, <1>1
  <2>. QED
    BY <2>1, <2>2
<1>4. \A i, j \in 1..n : byNumber[i] = byNumber[j] => i = j
  <2>1. TAKE i, j \in 1..n
  <2>2. HAVE byNumber[i] = byNumber[j]
  <2>3. i - 1 = j - 1
    BY <1>1, <2>2
  <2>. QED
    BY <2>3
<1>5. IsFiniteSet(E) /\ Cardinality(E) = n
  <2>1. IsFiniteSet(1..n) /\ Cardinality(1..n) = n
    BY FS_Interval
  <2>2. byNumber \in Bijection(1..n, E)
    BY <1>2, <1>3, <1>4 DEF Bijection, Injection, Surjection, IsInjective
  <2>3. ExistsBijection(1..n, E)
    BY <2>2 DEF ExistsBijection
  <2>. QED
    BY <2>1, <2>3, FS_Bijection
<1>. DEFINE Sorts(order) == \A k, l \in 1..Cardinality(E) : k < l =>
       \/ order[k].ordinal < order[l].ordinal
       \/ order[k].ordinal = order[l].ordinal /\ order[k].off < order[l].off
<1>6. Sorts(byNumber)
  <2>. SUFFICES ASSUME NEW k \in 1..n, NEW l \in 1..n, k < l
                PROVE  byNumber[k].ordinal < byNumber[l].ordinal
    BY <1>5
  <2>1. byNumber[k].ordinal = k - 1 /\ byNumber[l].ordinal = l - 1
    BY <1>1
  <2>. QED
    BY <2>1
<1>7. SortedAux(E) = CHOOSE order \in [1..Cardinality(E) -> E] : Sorts(order)
  BY DEF SortedAux
<1>. HIDE DEF Sorts
<1>8. PICK sorted : sorted = SortedAux(E)
  OBVIOUS
<1>9. sorted \in [1..n -> E] /\ Sorts(sorted)
  BY <1>2, <1>5, <1>6, <1>7, <1>8
<1>10. PICK g : g = [i \in 1..n |-> sorted[i].ordinal]
  OBVIOUS
<1>11. g \in [1..n -> 0..n - 1] /\ \A i \in 1..n : g[i] = sorted[i].ordinal
  BY <1>9, <1>10
<1>12. \A i, j \in 1..n : i < j => g[i] < g[j]
  <2>1. TAKE i, j \in 1..n
  <2>2. HAVE i < j
  <2>3. \/ sorted[i].ordinal < sorted[j].ordinal
        \/ sorted[i].ordinal = sorted[j].ordinal /\ sorted[i].off < sorted[j].off
    BY <1>5, <1>9, <2>2 DEF Sorts
  <2>4. sorted[i] \in E /\ sorted[j] \in E
    BY <1>9
  <2>5. ~(sorted[i].ordinal = sorted[j].ordinal /\ sorted[i].off < sorted[j].off)
    <3>1. sorted[i] = sorted[j] => ~(sorted[i].off < sorted[j].off)
      BY <2>4
    <3>. QED
      BY <2>4, <3>1
  <2>. QED
    BY <2>3, <2>5, <1>11
<1>13. \A i \in 1..n : g[i] = i - 1
  BY <1>11, <1>12, AscendingFills
<1>. QED
  BY <1>5, <1>8, <1>9, <1>11, <1>13

\* Entries of a key, each with its block, numbered from 0 to n - 1.
NumberedEntries(E, key, n) ==
  /\ n \in Nat
  /\ \A e \in E : /\ e.ordinal \in 0..n - 1 /\ e.off \in Nat
                  /\ file[e.off].type = "AUX" /\ file[e.off].key = key
                  /\ file[e.off].ordinal = e.ordinal
  /\ \A k \in 0..n - 1 : \E e \in E : e.ordinal = k
  /\ \A d, e \in E : d.ordinal = e.ordinal => d = e

\* The entries of a key, in the terms of the entries gathered.
LEMMA KeyEntriesNumbered ==
  ASSUME TraceInv, NEW key \in AllAuxKeys, NEW E, E = {e \in ToSet(keyEntries) : e.key = key}
  PROVE  NumberedEntries(E, key, auxOrdinals[key])
<1>1. /\ TypeOK /\ KeysNumbered /\ Lists(Offsets(keyEntries), file, "AUX")
  BY DEF TraceInv, WriterInv, EntriesListed
<1>2. /\ keyEntries \in Seq(KeyEntries) /\ Len(keyEntries) \in Nat
      /\ Len(Offsets(keyEntries)) = Len(keyEntries)
      /\ \A i \in 1..Len(keyEntries) : Offsets(keyEntries)[i] = keyEntries[i].off
      /\ DOMAIN keyEntries = 1..Len(keyEntries)
      /\ auxOrdinals \in [AllAuxKeys -> Nat]
  BY <1>1, ListTypes, OffsetsOf DEF TypeOK, IndexTypes
<1>3. \A e \in E : \E i \in 1..Len(keyEntries) : e = keyEntries[i] /\ keyEntries[i].key = key
  BY <1>2 DEF ToSet
<1>4. ASSUME NEW e \in E
      PROVE  /\ e.ordinal \in 0..auxOrdinals[key] - 1 /\ e.off \in Nat
             /\ file[e.off].type = "AUX" /\ file[e.off].key = key
             /\ file[e.off].ordinal = e.ordinal
  <2>1. PICK i \in 1..Len(keyEntries) : e = keyEntries[i] /\ keyEntries[i].key = key
    BY <1>3
  <2>2. e \in KeyEntries
    BY <1>2, <2>1, ElementOfSeq
  <2>3. e.ordinal < auxOrdinals[e.key] /\ file[e.off].key = e.key /\ file[e.off].ordinal = e.ordinal
    BY <1>1, <2>1 DEF KeysNumbered
  <2>4. file[e.off].type = "AUX"
    BY <1>1, <1>2, <2>1 DEF Lists
  <2>. QED
    BY <1>2, <2>1, <2>2, <2>3, <2>4 DEF KeyEntries
<1>5. ASSUME NEW k \in 0..auxOrdinals[key] - 1 PROVE \E e \in E : e.ordinal = k
  <2>1. PICK i \in 1..Len(keyEntries) : keyEntries[i].key = key /\ keyEntries[i].ordinal = k
    BY <1>1 DEF KeysNumbered
  <2>2. keyEntries[i] \in E
    BY <1>2, <2>1 DEF ToSet
  <2>. QED
    BY <2>1, <2>2
<1>6. ASSUME NEW d \in E, NEW e \in E, d.ordinal = e.ordinal PROVE d = e
  <2>1. PICK i \in 1..Len(keyEntries) : d = keyEntries[i] /\ keyEntries[i].key = key
    BY <1>3
  <2>2. PICK j \in 1..Len(keyEntries) : e = keyEntries[j] /\ keyEntries[j].key = key
    BY <1>3
  <2>3. d.ordinal \in Nat /\ e.ordinal \in Nat
    BY <1>2, <1>4
  <2>4. \A a, b \in 1..Len(keyEntries) : a < b /\ keyEntries[a].key = keyEntries[b].key =>
          keyEntries[a].ordinal < keyEntries[b].ordinal
    BY <1>1 DEF KeysNumbered
  <2>5. ~(i < j)
    BY <1>6, <2>1, <2>2, <2>3, <2>4
  <2>6. ~(j < i)
    BY <1>6, <2>1, <2>2, <2>3, <2>4
  <2>7. i = j
    BY <1>2, <2>5, <2>6
  <2>. QED
    BY <2>1, <2>2, <2>7
<1>7. auxOrdinals[key] \in Nat
  BY <1>2
<1>. QED
  BY <1>4, <1>5, <1>6, <1>7 DEF NumberedEntries

\* After a close that could patch the header, read_aux gives for every key as many
\* blocks as were written under it, in the order of the calls (write_aux, find_aux).
THEOREM KeyedBlocksReadBack == TraceSpec => []AuxReadsBack
<1>1. ASSUME TraceInv, Closed, CanSeek, NEW key \in AllAuxKeys
      PROVE  /\ Len(ReadAux(disk, key)) = auxOrdinals[key]
             /\ \A i \in 1..Len(ReadAux(disk, key)) :
                  /\ ReadAux(disk, key)[i].type = "AUX" /\ ReadAux(disk, key)[i].key = key
                  /\ ReadAux(disk, key)[i].ordinal = i - 1
  <2>1. Ended /\ phase = "done"
    BY <1>1 DEF Closed
  <2>2. disk.hdr # 0
    <3>1. disk.hdr = hdr
      BY <1>1, <2>1 DEF TraceInv, DiskInv
    <3>2. hdr # 0
      BY <1>1, <2>1 DEF TraceInv, WriterInv, HeaderPoints
    <3>. QED
      BY <3>1, <3>2
  <2>3. disk.blocks = file /\ Index(disk).key = keyEntries /\ Indexed(disk)
    BY <1>1, <2>1, <2>2, IndexOnDisk
  <2>4. PICK E : E = {e \in ToSet(keyEntries) : e.key = key}
    OBVIOUS
  <2>5. PICK n : n = auxOrdinals[key]
    OBVIOUS
  <2>6. /\ n \in Nat
        /\ \A e \in E : /\ e.ordinal \in 0..n - 1 /\ e.off \in Nat
                        /\ file[e.off].type = "AUX" /\ file[e.off].key = key
                        /\ file[e.off].ordinal = e.ordinal
        /\ \A k \in 0..n - 1 : \E e \in E : e.ordinal = k
        /\ \A d, e \in E : d.ordinal = e.ordinal => d = e
    <3>1. E = {e \in ToSet(keyEntries) : e.key = key}
      BY <2>4
    <3>2. NumberedEntries(E, key, auxOrdinals[key])
      BY <1>1, <3>1, KeyEntriesNumbered
    <3>. QED
      BY <2>5, <3>2 DEF NumberedEntries
  <2>7. /\ Cardinality(E) = n /\ SortedAux(E) \in [1..n -> E]
        /\ \A i \in 1..n : SortedAux(E)[i].ordinal = i - 1
    BY <2>6, NumberedSorted
  <2>8. ReadAux(disk, key) = [k \in 1..n |-> file[SortedAux(E)[k].off]]
    BY <2>3, <2>4, <2>7 DEF ReadAux, FindAux
  <2>9. Len(ReadAux(disk, key)) = n
    BY <2>6, <2>8
  <2>10. ASSUME NEW i \in 1..n
         PROVE  /\ ReadAux(disk, key)[i].type = "AUX" /\ ReadAux(disk, key)[i].key = key
                /\ ReadAux(disk, key)[i].ordinal = i - 1
    <3>1. SortedAux(E)[i] \in E /\ SortedAux(E)[i].ordinal = i - 1
      BY <2>7
    <3>2. ReadAux(disk, key)[i] = file[SortedAux(E)[i].off]
      BY <2>8
    <3>. QED
      BY <2>6, <3>1, <3>2
  <2>. QED
    BY <2>5, <2>9, <2>10
<1>2. TraceInv => AuxReadsBack
  BY <1>1 DEF AuxReadsBack
<1>. QED
  BY <1>2, TraceInvariant, PTL

-----------------------------------------------------------------------------
(* One open block of a codec at a time *)

\* A context changed in its place, which stays as it was but for its contents.
LEMMA SoleChanged ==
  ASSUME BlkTypes, SoleOpen, NEW b \in 1..Len(blks), NEW new,
         new.codec = blks[b].codec, new.open => blks[b].open,
         blks' = [blks EXCEPT ![b] = new], UNCHANGED <<vcState, txnState>>
  PROVE  SoleOpen'
<1>1. Len(blks') = Len(blks) /\ \A c \in 1..Len(blks) : blks'[c] = IF c = b THEN new ELSE blks[c]
  BY DEF BlkTypes
<1>. QED
  BY <1>1 DEF SoleOpen

\* Room for one more open block of a codec means that there is none.
LEMMA NoneOpen ==
  ASSUME BlkTypes, MaxOpen <= 1, NEW codec, Cardinality(OpenOn(codec)) < MaxOpen
  PROVE  \A b \in 1..Len(blks) : blks[b].open => blks[b].codec # codec
<1>1. Len(blks) \in Nat
  BY DEF BlkTypes
<1>2. IsFiniteSet(1..Len(blks))
  BY <1>1, FS_Interval
<1>3. IsFiniteSet(OpenOn(codec))
  BY <1>2, FS_Subset DEF OpenOn
<1>4. Cardinality(OpenOn(codec)) = 0
  BY <1>3, FS_CardinalityType, WriterAssumption
<1>5. OpenOn(codec) = {}
  BY <1>3, <1>4, FS_EmptySet
<1>. QED
  BY <1>5 DEF OpenOn

\* A context begun takes its codec's state, in which no open block was left.
LEMMA SoleBegun ==
  ASSUME BlkTypes, SoleOpen, MaxOpen <= 1, NEW new, blks' = Append(blks, new),
         new.codec \in {"core", "record"} => Cardinality(OpenOn(new.codec)) < MaxOpen,
         vcState' = IF new.codec = "core" THEN Len(blks') ELSE vcState,
         txnState' = IF new.codec = "record" THEN Len(blks') ELSE txnState
  PROVE  SoleOpen'
<1>1. /\ Len(blks) \in Nat /\ Len(blks') = Len(blks) + 1 /\ blks'[Len(blks) + 1] = new
      /\ \A b \in 1..Len(blks) : blks'[b] = blks[b]
  BY DEF BlkTypes
<1>2. new.codec \in {"core", "record"} =>
        \A b \in 1..Len(blks) : blks[b].open => blks[b].codec # new.codec
  BY NoneOpen
<1>3. \A b \in 1..Len(blks') : b \in 1..Len(blks) \/ b = Len(blks) + 1
  BY <1>1
<1>4. ASSUME NEW b \in 1..Len(blks), blks[b].open
      PROVE  /\ blks[b].codec = "core" => vcState' = b
             /\ blks[b].codec = "record" => txnState' = b
  <2>1. /\ blks[b].codec = "core" => vcState = b
        /\ blks[b].codec = "record" => txnState = b
    BY <1>4 DEF SoleOpen
  <2>2. blks[b].codec = "core" => new.codec # "core"
    BY <1>2, <1>4
  <2>3. blks[b].codec = "record" => new.codec # "record"
    BY <1>2, <1>4
  <2>. QED
    BY <2>1, <2>2, <2>3
<1>5. /\ new.codec = "core" => vcState' = Len(blks) + 1
      /\ new.codec = "record" => txnState' = Len(blks) + 1
  BY <1>1
<1>. QED
  BY <1>1, <1>3, <1>4, <1>5 DEF SoleOpen

\* What a record call does to its context, nothing but its contents and its end.
Filled(b) ==
  /\ blks[b].open /\ UNCHANGED <<vcState, txnState>>
  /\ \E recs, init, end :
       blks' = [blks EXCEPT ![b] = [blks[b] EXCEPT !.recs = recs, !.init = init, !.end = end]]

LEMMA RecordFills ==
  ASSUME BlkTypes, NEW b \in 1..Len(blks),
         \/ \E h \in 1..Len(hiers), k \in 1..MaxVars : \E t \in Times : AddChange(b, h, k, t)
         \/ \E h \in 1..Len(hiers), k \in 1..MaxVars : SetInitial(b, h, k)
         \/ \E rec, until : AddRecord(b, rec, until)
  PROVE  Filled(b)
<1>1. blks[b] \in VcContexts \cup TxnContexts /\ b \in DOMAIN blks
  BY ElementOfSeq DEF BlkTypes
<1>2. ASSUME NEW recs, NEW end, blks' = [blks EXCEPT ![b].recs = recs, ![b].end = end]
      PROVE  blks' = [blks EXCEPT ![b] = [blks[b] EXCEPT !.recs = recs, !.init = blks[b].init, !.end = end]]
  BY <1>1, <1>2 DEF VcContexts, TxnContexts
<1>3. ASSUME NEW recs, NEW init, blks' = [blks EXCEPT ![b].init = init, ![b].recs = recs]
      PROVE  blks' = [blks EXCEPT ![b] = [blks[b] EXCEPT !.recs = recs, !.init = init, !.end = blks[b].end]]
  BY <1>1, <1>3 DEF VcContexts, TxnContexts
<1>4. ASSUME NEW h \in 1..Len(hiers), NEW k \in 1..MaxVars, NEW t \in Times, AddChange(b, h, k, t)
      PROVE  Filled(b)
  <2>1. \E recs, end : blks' = [blks EXCEPT ![b].recs = recs, ![b].end = end]
    BY <1>1, <1>4 DEF AddChange
  <2>2. PICK recs, end : blks' = [blks EXCEPT ![b].recs = recs, ![b].end = end]
    BY <2>1
  <2>3. blks' = [blks EXCEPT ![b] = [blks[b] EXCEPT !.recs = recs, !.init = blks[b].init, !.end = end]]
    BY <1>2, <2>2
  <2>4. blks[b].open /\ UNCHANGED <<vcState, txnState>>
    BY <1>4 DEF AddChange
  <2>. QED
    BY <2>3, <2>4 DEF Filled
<1>5. ASSUME NEW h \in 1..Len(hiers), NEW k \in 1..MaxVars, SetInitial(b, h, k)
      PROVE  Filled(b)
  <2>1. \E recs, init : blks' = [blks EXCEPT ![b].init = init, ![b].recs = recs]
    BY <1>1, <1>5 DEF SetInitial
  <2>2. PICK recs, init : blks' = [blks EXCEPT ![b].init = init, ![b].recs = recs]
    BY <2>1
  <2>3. blks' = [blks EXCEPT ![b] = [blks[b] EXCEPT !.recs = recs, !.init = init, !.end = blks[b].end]]
    BY <1>3, <2>2
  <2>4. blks[b].open /\ UNCHANGED <<vcState, txnState>>
    BY <1>5 DEF SetInitial
  <2>. QED
    BY <2>3, <2>4 DEF Filled
<1>6. ASSUME NEW rec, NEW until, AddRecord(b, rec, until)
      PROVE  Filled(b)
  <2>1. \E recs, end : blks' = [blks EXCEPT ![b].recs = recs, ![b].end = end]
    BY <1>1, <1>6 DEF AddRecord
  <2>2. PICK recs, end : blks' = [blks EXCEPT ![b].recs = recs, ![b].end = end]
    BY <2>1
  <2>3. blks' = [blks EXCEPT ![b] = [blks[b] EXCEPT !.recs = recs, !.init = blks[b].init, !.end = end]]
    BY <1>2, <2>2
  <2>4. blks[b].open /\ UNCHANGED <<vcState, txnState>>
    BY <1>6 DEF AddRecord
  <2>. QED
    BY <2>3, <2>4 DEF Filled
<1>. QED
  BY <1>4, <1>5, <1>6

\* The calls on transactions that fill a block are records added to it.
LEMMA TxnCallsFill ==
  ASSUME BlkTypes, NEW b \in 1..Len(blks), NEW i \in TxnIds,
         \/ \E sid \in Streams, t, u \in Times : WriteFull(b, sid, i, t, u)
         \/ \E sid \in Streams, t \in Times : WriteBegin(b, sid, i, t)
         \/ \E t \in Times : WriteEnd(b, i, t)
         \/ WriteNote(b, i)
         \/ \E s, v \in Names : WriteMeta(b, i, s, v)
  PROVE  Filled(b)
<1>1. \E rec, until : AddRecord(b, rec, until)
  BY Zenon DEF WriteFull, WriteBegin, WriteEnd, WriteNote, WriteMeta
<1>. QED
  BY <1>1, RecordFills

\* The calls on contexts keep the open ones in their codecs' states.
LEMMA RecordSole ==
  ASSUME TypeOK, SoleOpen, MaxOpen <= 1, RecordChanges \/ RecordTxns \/ RecordOther
  PROVE  SoleOpen'
<1>. USE DEF TypeOK
<1>0. \A b \in 1..Len(blks) : blks[b] \in VcContexts \cup TxnContexts
  BY ElementOfSeq DEF BlkTypes
<1>1. ASSUME NEW c \in Codecs, NEW t \in Times, BeginVc(c, t) PROVE SoleOpen'
  <2>1. PICK new : new = NewVc(c, t)
    OBVIOUS
  <2>2. new.codec = c /\ c \in {"core", "split"}
    BY <2>1, WriterAssumption DEF NewVc
  <2>3. /\ blks' = Append(blks, new) /\ UNCHANGED txnState
        /\ c = "core" => Cardinality(OpenOn("core")) < MaxOpen
        /\ vcState' = IF c = "core" THEN Len(blks') ELSE vcState
    BY <1>1, <2>1 DEF BeginVc
  <2>. QED
    BY <2>2, <2>3, SoleBegun
<1>2. ASSUME NEW sid \in BlockStreams, NEW t \in Times, BeginTxn(sid, t) PROVE SoleOpen'
  <2>1. PICK new : new = NewTxn(sid, t)
    OBVIOUS
  <2>2. new.codec = "record"
    BY <2>1 DEF NewTxn
  <2>3. /\ blks' = Append(blks, new) /\ UNCHANGED vcState /\ txnState' = Len(blks')
        /\ Cardinality(OpenOn("record")) < MaxOpen
    BY <1>2, <2>1 DEF BeginTxn
  <2>. QED
    BY <2>2, <2>3, SoleBegun
<1>3. ASSUME NEW b \in 1..Len(blks), Filled(b) PROVE SoleOpen'
  <2>1. PICK recs, init, end :
          blks' = [blks EXCEPT ![b] = [blks[b] EXCEPT !.recs = recs, !.init = init, !.end = end]]
    BY <1>3 DEF Filled
  <2>2. PICK new : new = [blks[b] EXCEPT !.recs = recs, !.init = init, !.end = end]
    OBVIOUS
  <2>3. new.codec = blks[b].codec /\ new.open = blks[b].open
    BY <1>0, <2>2 DEF VcContexts, TxnContexts
  <2>. QED
    BY <1>3, <2>1, <2>2, <2>3, SoleChanged DEF Filled
<1>4. ASSUME NEW b \in 1..Len(blks), AfterFlush(b), UNCHANGED <<vcState, txnState>> PROVE SoleOpen'
  <2>0. PICK o \in {FALSE, blks[b].open} : blks' = [blks EXCEPT ![b] = [blks[b] EXCEPT !.open = o]]
    BY <1>4, FlushedContext
  <2>1. PICK new : new = [blks[b] EXCEPT !.open = o]
    OBVIOUS
  <2>2. new.codec = blks[b].codec /\ (new.open => blks[b].open)
    BY <1>0, <2>1 DEF VcContexts, TxnContexts
  <2>3. blks' = [blks EXCEPT ![b] = new]
    BY <2>0, <2>1
  <2>. QED
    BY <1>4, <2>2, <2>3, SoleChanged
<1>5. ASSUME NEW e \in DerivedEncs, NEW s \in Names, NEW times \in SUBSET Times,
             AddMaterialized(e, s, times)
      PROVE  SoleOpen'
  <2>1. \E new : /\ blks' = Append(blks, new) /\ vcState' = Len(blks') /\ new.codec = "core"
                 /\ Cardinality(OpenOn("core")) < MaxOpen /\ UNCHANGED txnState
    <3>1. \E start, recs, end, types :
            blks' = Append(blks, [NewVc("core", start) EXCEPT !.recs = recs, !.end = end,
                                                             !.types = types, !.open = FALSE])
      BY <1>5, Zenon DEF AddMaterialized
    <3>2. PICK start, recs, end, types :
            blks' = Append(blks, [NewVc("core", start) EXCEPT !.recs = recs, !.end = end,
                                                             !.types = types, !.open = FALSE])
      BY <3>1
    <3>3. [NewVc("core", start) EXCEPT !.recs = recs, !.end = end,
                                       !.types = types, !.open = FALSE].codec = "core"
      BY DEF NewVc
    <3>4. vcState' = Len(blks') /\ Cardinality(OpenOn("core")) < MaxOpen /\ UNCHANGED txnState
      BY <1>5 DEF AddMaterialized, DeclareDerived
    <3>. QED
      BY <3>2, <3>3, <3>4
  <2>. QED
    BY <2>1, SoleBegun
<1>6. ASSUME UNCHANGED blkVars PROVE SoleOpen'
  BY <1>6 DEF SoleOpen, blkVars
<1>7. CASE RecordChanges
  <2>1. ASSUME NEW b \in 1..Len(blks), FlushVc(b) PROVE SoleOpen'
    BY <1>4, <2>1 DEF FlushVc
  <2>. QED
    BY <1>1, <1>3, <1>7, <2>1, RecordFills DEF RecordChanges
<1>8. CASE RecordTxns
  <2>1. ASSUME NEW b \in 1..Len(blks), FlushTxn(b) PROVE SoleOpen'
    BY <1>4, <2>1 DEF FlushTxn
  <2>2. ASSUME NEW b \in 1..Len(blks), NEW i \in TxnIds,
               \/ \E sid \in Streams, t, u \in Times : WriteFull(b, sid, i, t, u)
               \/ \E sid \in Streams, t \in Times : WriteBegin(b, sid, i, t)
               \/ \E t \in Times : WriteEnd(b, i, t)
               \/ WriteNote(b, i)
               \/ \E s, v \in Names : WriteMeta(b, i, s, v)
        PROVE  SoleOpen'
    BY <1>3, <2>2, TxnCallsFill
  <2>. QED
    BY <1>2, <1>8, <2>1, <2>2 DEF RecordTxns
<1>9. CASE RecordOther
  <2>1. (\E k \in AuxKeys : WriteAux(k)) => UNCHANGED blkVars
    BY DEF WriteAux
  <2>2. WriteExt => UNCHANGED blkVars
    BY DEF WriteExt
  <2>3. (\E e \in DerivedEncs, s \in Names : AddDerived(e, s)) => UNCHANGED blkVars
    BY DEF AddDerived, DeclareDerived, blkVars
  <2>4. RefuseDerived => UNCHANGED blkVars
    BY DEF RefuseDerived
  <2>. QED
    BY <1>5, <1>6, <1>9, <2>1, <2>2, <2>3, <2>4 DEF RecordOther
<1>. QED
  BY <1>7, <1>8, <1>9

\* Declarations and the close leave the contexts alone.
LEMMA ContextsAlone ==
  ASSUME Declare \/ Close \/ PatchHeader \/ Release \/ UNCHANGED vars
  PROVE  UNCHANGED <<blkVars, txnEntries>>
<1>1. CASE Declare
  BY <1>1 DEF Declare, InternString, AddTxnSchema, AddStreamType, AddSignalType, AddTraceMetadata,
              BeginHierarchy, BeginScope, EndScope, AddVar, FlushHierarchy, FlushStringTable,
              FlushTypeRegistry
<1>. QED
  BY <1>1 DEF Close, PatchHeader, Release, vars

\* An open context is the one its codec's state holds, in a program that keeps no
\* two blocks of a codec open.
LEMMA SoleStep == MaxOpen <= 1 /\ TypeOK /\ SoleOpen /\ [Next]_vars => SoleOpen'
<1>. SUFFICES ASSUME MaxOpen <= 1, TypeOK, SoleOpen, [Next]_vars PROVE SoleOpen'
  OBVIOUS
<1>1. CASE RecordChanges \/ RecordTxns \/ RecordOther
  BY <1>1, RecordSole
<1>2. CASE Declare \/ Close \/ PatchHeader \/ Release \/ UNCHANGED vars
  <2>1. UNCHANGED blkVars
    BY <1>2, ContextsAlone
  <2>. QED
    BY <2>1 DEF SoleOpen, blkVars
<1>. QED
  BY <1>1, <1>2 DEF Next, Client

-----------------------------------------------------------------------------
(* Transactions of one stream *)

\* A record added to a block of one stream names that stream if it names any.
LEMMA RecordOfStream ==
  ASSUME BlkTypes, ContextsOfStreams, NEW b \in 1..Len(blks), NEW rec, NEW until,
         AddRecord(b, rec, until), OfOneStream({rec}, blks[b].sid)
  PROVE  ContextsOfStreams'
<1>1. blks[b] \in VcContexts \cup TxnContexts /\ blks[b].kind = "txn" /\ blks \in Seq(VcContexts \cup TxnContexts)
  BY ElementOfSeq DEF BlkTypes, AddRecord
<1>2. blks' = [blks EXCEPT ![b].recs = @ \cup {rec}, ![b].end = Later(@, until)]
  BY DEF AddRecord
<1>3. Len(blks') = Len(blks) /\ \A c \in 1..Len(blks) : c # b => blks'[c] = blks[c]
  BY <1>1, <1>2
<1>4. blks'[b].recs = blks[b].recs \cup {rec} /\ blks'[b].sid = blks[b].sid
  BY <1>1, <1>2 DEF VcContexts, TxnContexts
<1>5. OfOneStream(blks[b].recs \cup {rec}, blks[b].sid)
  BY <1>1 DEF ContextsOfStreams, OfOneStream
<1>6. ASSUME NEW c \in 1..Len(blks), blks'[c].kind = "txn" PROVE OfOneStream(blks'[c].recs, blks'[c].sid)
  <2>1. CASE c = b
    BY <1>4, <1>5, <2>1
  <2>2. CASE c # b
    BY <1>3, <1>6, <2>2 DEF ContextsOfStreams
  <2>. QED
    BY <2>1, <2>2
<1>. QED
  BY <1>3, <1>6 DEF ContextsOfStreams

\* A context changed in its place that is not of transactions, or keeps its records.
LEMMA OtherChanged ==
  ASSUME BlkTypes, ContextsOfStreams, NEW b \in 1..Len(blks), NEW new,
         blks' = [blks EXCEPT ![b] = new],
         new.kind = blks[b].kind /\ new.sid = blks[b].sid,
         blks[b].kind = "vc" \/ new.recs = blks[b].recs
  PROVE  ContextsOfStreams'
<1>1. Len(blks') = Len(blks) /\ \A c \in 1..Len(blks) : blks'[c] = IF c = b THEN new ELSE blks[c]
  BY DEF BlkTypes
<1>. QED
  BY <1>1 DEF ContextsOfStreams

\* A context begun holds no records of transactions.
LEMMA StreamBegun ==
  ASSUME BlkTypes, ContextsOfStreams, NEW new, blks' = Append(blks, new),
         new.kind = "vc" \/ new.recs = {}
  PROVE  ContextsOfStreams'
<1>1. /\ Len(blks) \in Nat /\ Len(blks') = Len(blks) + 1 /\ blks'[Len(blks) + 1] = new
      /\ \A b \in 1..Len(blks) : blks'[b] = blks[b]
  BY DEF BlkTypes
<1>2. \A b \in 1..Len(blks') : b \in 1..Len(blks) \/ b = Len(blks) + 1
  BY <1>1
<1>3. new.kind = "txn" => OfOneStream(new.recs, new.sid)
  BY DEF OfOneStream
<1>. QED
  BY <1>1, <1>2, <1>3 DEF ContextsOfStreams

\* The calls on contexts keep the streams apart.
LEMMA ContextStreams ==
  ASSUME TypeOK, ContextsOfStreams, RecordChanges \/ RecordTxns \/ RecordOther
  PROVE  ContextsOfStreams'
<1>. USE DEF TypeOK
<1>0. \A b \in 1..Len(blks) : blks[b] \in VcContexts \cup TxnContexts
  BY ElementOfSeq DEF BlkTypes
<1>1. ASSUME NEW c \in Codecs, NEW t \in Times, BeginVc(c, t) PROVE ContextsOfStreams'
  <2>1. NewVc(c, t).kind = "vc" /\ blks' = Append(blks, NewVc(c, t))
    BY <1>1 DEF NewVc, BeginVc
  <2>. QED
    BY <2>1, StreamBegun
<1>2. ASSUME NEW sid \in BlockStreams, NEW t \in Times, BeginTxn(sid, t) PROVE ContextsOfStreams'
  <2>1. NewTxn(sid, t).recs = {} /\ blks' = Append(blks, NewTxn(sid, t))
    BY <1>2 DEF NewTxn, BeginTxn
  <2>. QED
    BY <2>1, StreamBegun
<1>3. ASSUME NEW b \in 1..Len(blks), blks[b].kind = "vc", Filled(b) PROVE ContextsOfStreams'
  <2>1. PICK recs, init, end :
          blks' = [blks EXCEPT ![b] = [blks[b] EXCEPT !.recs = recs, !.init = init, !.end = end]]
    BY <1>3 DEF Filled
  <2>2. PICK new : new = [blks[b] EXCEPT !.recs = recs, !.init = init, !.end = end]
    OBVIOUS
  <2>3. new.kind = blks[b].kind /\ new.sid = blks[b].sid
    BY <1>0, <2>2 DEF VcContexts, TxnContexts
  <2>. QED
    BY <1>3, <2>1, <2>2, <2>3, OtherChanged
<1>4. ASSUME NEW b \in 1..Len(blks), AfterFlush(b) PROVE ContextsOfStreams'
  <2>0. PICK o \in {FALSE, blks[b].open} : blks' = [blks EXCEPT ![b] = [blks[b] EXCEPT !.open = o]]
    BY <1>4, FlushedContext
  <2>1. PICK new : new = [blks[b] EXCEPT !.open = o]
    OBVIOUS
  <2>2. new.kind = blks[b].kind /\ new.sid = blks[b].sid /\ new.recs = blks[b].recs
    BY <1>0, <2>1 DEF VcContexts, TxnContexts
  <2>3. blks' = [blks EXCEPT ![b] = new]
    BY <2>0, <2>1
  <2>. QED
    BY <2>2, <2>3, OtherChanged
<1>5. ASSUME NEW e \in DerivedEncs, NEW s \in Names, NEW times \in SUBSET Times,
             AddMaterialized(e, s, times)
      PROVE  ContextsOfStreams'
  <2>1. \E start, recs, end, types :
          blks' = Append(blks, [NewVc("core", start) EXCEPT !.recs = recs, !.end = end,
                                                           !.types = types, !.open = FALSE])
    BY <1>5, Zenon DEF AddMaterialized
  <2>2. PICK start, recs, end, types :
          blks' = Append(blks, [NewVc("core", start) EXCEPT !.recs = recs, !.end = end,
                                                           !.types = types, !.open = FALSE])
    BY <2>1
  <2>3. [NewVc("core", start) EXCEPT !.recs = recs, !.end = end,
                                     !.types = types, !.open = FALSE].kind = "vc"
    BY DEF NewVc
  <2>. QED
    BY <2>2, <2>3, StreamBegun
<1>6. ASSUME UNCHANGED blkVars PROVE ContextsOfStreams'
  BY <1>6 DEF ContextsOfStreams, blkVars
<1>7. CASE RecordChanges
  <2>1. ASSUME NEW b \in 1..Len(blks), FlushVc(b) PROVE ContextsOfStreams'
    BY <1>4, <2>1 DEF FlushVc
  <2>2. ASSUME NEW b \in 1..Len(blks), NEW h \in 1..Len(hiers), NEW k \in 1..MaxVars,
               (\E t \in Times : AddChange(b, h, k, t)) \/ SetInitial(b, h, k)
        PROVE  ContextsOfStreams'
    <3>1. blks[b].kind = "vc"
      BY <2>2 DEF AddChange, SetInitial
    <3>. QED
      BY <1>3, <2>2, <3>1, RecordFills
  <2>. QED
    BY <1>1, <1>7, <2>1, <2>2 DEF RecordChanges
<1>8. CASE RecordTxns
  <2>1. ASSUME NEW b \in 1..Len(blks), FlushTxn(b) PROVE ContextsOfStreams'
    BY <1>4, <2>1 DEF FlushTxn
  <2>2. ASSUME NEW b \in 1..Len(blks), NEW i \in TxnIds, NEW sid \in Streams, NEW t \in Times, NEW u \in Times,
               WriteFull(b, sid, i, t, u)
        PROVE  ContextsOfStreams'
    <3>1. OfOneStream({TxnRec(b, "FULL", sid, i, t, u, << >>)}, blks[b].sid)
      BY <2>2 DEF WriteFull, OfStream, OfOneStream, TxnRec
    <3>2. AddRecord(b, TxnRec(b, "FULL", sid, i, t, u, << >>), u)
      BY <2>2 DEF WriteFull
    <3>. QED
      BY <3>1, <3>2, RecordOfStream
  <2>3. ASSUME NEW b \in 1..Len(blks), NEW i \in TxnIds, NEW sid \in Streams, NEW t \in Times,
               WriteBegin(b, sid, i, t)
        PROVE  ContextsOfStreams'
    <3>1. OfOneStream({TxnRec(b, "BEGIN", sid, i, t, t, << >>)}, blks[b].sid)
      BY <2>3 DEF WriteBegin, OfStream, OfOneStream, TxnRec
    <3>2. AddRecord(b, TxnRec(b, "BEGIN", sid, i, t, t, << >>), blks[b].end)
      BY <2>3 DEF WriteBegin
    <3>. QED
      BY <3>1, <3>2, RecordOfStream
  <2>4. ASSUME NEW b \in 1..Len(blks), NEW i \in TxnIds,
               (\E t \in Times : WriteEnd(b, i, t)) \/ WriteNote(b, i) \/ (\E s, v \in Names : WriteMeta(b, i, s, v))
        PROVE  ContextsOfStreams'
    <3>1. \E rec, until : AddRecord(b, rec, until) /\ rec.tag \in {"END", "NOTE", "META"}
      <4>1. \A t, u, strs : /\ TxnRec(b, "END", Mixed, i, t, u, strs).tag = "END"
                            /\ TxnRec(b, "NOTE", Mixed, i, t, u, strs).tag = "NOTE"
                            /\ TxnRec(b, "META", Mixed, i, t, u, strs).tag = "META"
        BY DEF TxnRec
      <4>2. CASE \E t \in Times : WriteEnd(b, i, t)
        BY <4>1, <4>2 DEF WriteEnd
      <4>3. CASE WriteNote(b, i)
        BY <4>1, <4>3 DEF WriteNote
      <4>4. CASE \E s, v \in Names : WriteMeta(b, i, s, v)
        BY <4>1, <4>4 DEF WriteMeta
      <4>. QED
        BY <2>4, <4>2, <4>3, <4>4
    <3>2. PICK rec, until : AddRecord(b, rec, until) /\ rec.tag \in {"END", "NOTE", "META"}
      BY <3>1
    <3>3. OfOneStream({rec}, blks[b].sid)
      BY <3>2 DEF OfOneStream
    <3>. QED
      BY <3>2, <3>3, RecordOfStream
  <2>. QED
    BY <1>2, <1>8, <2>1, <2>2, <2>3, <2>4 DEF RecordTxns
<1>9. CASE RecordOther
  <2>1. (\E k \in AuxKeys : WriteAux(k)) => UNCHANGED blkVars
    BY DEF WriteAux
  <2>2. WriteExt => UNCHANGED blkVars
    BY DEF WriteExt
  <2>3. (\E e \in DerivedEncs, s \in Names : AddDerived(e, s)) => UNCHANGED blkVars
    BY DEF AddDerived, DeclareDerived, blkVars
  <2>4. RefuseDerived => UNCHANGED blkVars
    BY DEF RefuseDerived
  <2>. QED
    BY <1>5, <1>6, <1>9, <2>1, <2>2, <2>3, <2>4 DEF RecordOther
<1>. QED
  BY <1>7, <1>8, <1>9

\* Only the flush of transactions adds to their entries.
LEMMA TxnEntriesAlone ==
  ASSUME [Next]_vars
  PROVE  (\E b \in 1..Len(blks) : FlushTxn(b)) \/ UNCHANGED txnEntries
<1>1. CASE RecordChanges
  <2>1. UNCHANGED txnEntries
    <3>1. \A c, t : BeginVc(c, t) => UNCHANGED txnEntries
      BY DEF BeginVc
    <3>2. \A b, h, k, t : AddChange(b, h, k, t) => UNCHANGED txnEntries
      BY DEF AddChange
    <3>3. \A b, h, k : SetInitial(b, h, k) => UNCHANGED txnEntries
      BY DEF SetInitial
    <3>4. \A b : FlushVc(b) => UNCHANGED txnEntries
      BY DEF FlushVc
    <3>. QED
      BY <1>1, <3>1, <3>2, <3>3, <3>4 DEF RecordChanges
  <2>. QED
    BY <2>1
<1>2. CASE RecordTxns
  <2>1. \A b, rec, until : AddRecord(b, rec, until) => UNCHANGED txnEntries
    BY DEF AddRecord
  <2>2. \A b, sid, i, t, u : WriteFull(b, sid, i, t, u) => UNCHANGED txnEntries
    BY <2>1 DEF WriteFull
  <2>3. \A b, sid, i, t : WriteBegin(b, sid, i, t) => UNCHANGED txnEntries
    BY <2>1 DEF WriteBegin
  <2>4. \A b, i, t : WriteEnd(b, i, t) => UNCHANGED txnEntries
    BY <2>1 DEF WriteEnd
  <2>5. \A b, i : WriteNote(b, i) => UNCHANGED txnEntries
    BY <2>1 DEF WriteNote
  <2>6. \A b, i, s, v : WriteMeta(b, i, s, v) => UNCHANGED txnEntries
    BY <2>1 DEF WriteMeta
  <2>7. \A sid, t : BeginTxn(sid, t) => UNCHANGED txnEntries
    BY DEF BeginTxn
  <2>. QED
    BY <1>2, <2>2, <2>3, <2>4, <2>5, <2>6, <2>7 DEF RecordTxns
<1>3. CASE RecordOther
  <2>1. (\E k \in AuxKeys : WriteAux(k)) => UNCHANGED txnEntries
    BY DEF WriteAux
  <2>2. WriteExt => UNCHANGED txnEntries
    BY DEF WriteExt
  <2>3. \A e \in DerivedEncs, s \in Names : DeclareDerived(e, s) => UNCHANGED txnEntries
    BY DEF DeclareDerived
  <2>4. \A e \in DerivedEncs, s \in Names :
          AddDerived(e, s) \/ (\E times \in SUBSET Times : AddMaterialized(e, s, times)) => DeclareDerived(e, s)
    BY Zenon DEF AddDerived, AddMaterialized
  <2>5. RefuseDerived => UNCHANGED txnEntries
    BY DEF RefuseDerived
  <2>. QED
    BY <1>3, <2>1, <2>2, <2>3, <2>4, <2>5 DEF RecordOther
<1>4. CASE Declare \/ Close \/ PatchHeader \/ Release \/ UNCHANGED vars
  BY <1>4, ContextsAlone
<1>. QED
  BY <1>1, <1>2, <1>3, <1>4 DEF Next, Client

\* A block is indexed under the stream of the context
\* it was flushed from.
LEMMA EntriesStreams ==
  ASSUME TypeOK, EntriesListed, SoleOpen, ContextsOfStreams, EntriesOfStreams, Grows, [Next]_vars
  PROVE  EntriesOfStreams'
<1>1. /\ txnEntries \in Seq(TxnRanges) /\ Len(txnEntries) \in Nat /\ file \in Seq(Blocks)
      /\ Len(file) \in Nat /\ blks \in Seq(VcContexts \cup TxnContexts)
  BY DEF TypeOK, IndexTypes, FileTypes, BlkTypes
<1>2. \A i \in 1..Len(txnEntries) : txnEntries[i].off \in 1..Len(file)
  BY <1>1, OffsetsOf DEF EntriesListed, Lists
<1>3. \A i \in 1..Len(txnEntries) : OfOneStream(file'[txnEntries[i].off].recs, txnEntries[i].sid)
  BY <1>2 DEF EntriesOfStreams, Grows
<1>4. CASE UNCHANGED txnEntries
  BY <1>3, <1>4 DEF EntriesOfStreams
<1>5. ASSUME NEW b \in 1..Len(blks), FlushTxn(b), PutTxn(b)
      PROVE  EntriesOfStreams'
  <2>1. blks[b].open /\ blks[b].kind = "txn" /\ blks[b] \in VcContexts \cup TxnContexts
    BY <1>1, <1>5, ElementOfSeq DEF FlushTxn
  <2>2. txnState = b
    BY <2>1 DEF SoleOpen, VcContexts, TxnContexts
  <2>3. PICK e : e = [start |-> blks[b].start, end |-> blks[b].end, off |-> Len(file) + 1, sid |-> blks[b].sid]
    OBVIOUS
  <2>4. PICK blk : blk = [type |-> "TXN", recs |-> blks[b].recs]
    OBVIOUS
  <2>5. txnEntries' = Append(txnEntries, e) /\ file' = Append(file, blk)
    BY <1>5, <2>2, <2>3, <2>4 DEF PutTxn
  <2>6. OfOneStream(blk.recs, e.sid) /\ e.off = Len(file) + 1
    BY <2>1, <2>3, <2>4 DEF ContextsOfStreams
  <2>7. /\ Len(txnEntries') = Len(txnEntries) + 1
        /\ \A i \in 1..Len(txnEntries) : txnEntries'[i] = txnEntries[i]
        /\ txnEntries'[Len(txnEntries) + 1] = e /\ file'[Len(file) + 1] = blk
    BY <1>1, <2>5
  <2>8. \A i \in 1..Len(txnEntries') : i \in 1..Len(txnEntries) \/ i = Len(txnEntries) + 1
    BY <1>1, <2>7
  <2>. QED
    BY <1>3, <2>6, <2>7, <2>8 DEF EntriesOfStreams
<1>6. \A b : FlushTxn(b) => UNCHANGED txnEntries \/ PutTxn(b)
  BY DEF FlushTxn
<1>. QED
  BY <1>4, <1>5, <1>6, TxnEntriesAlone

\* With one open block of a codec at a time, the invariant that keeps streams apart.
StreamInv == TraceInv /\ SoleOpen /\ ContextsOfStreams /\ EntriesOfStreams

LEMMA StreamInductive ==
  ASSUME MaxOpen <= 1, StreamInv, [TraceNext]_traceVars
  PROVE  StreamInv'
<1>1. [Next]_vars /\ TypeOK /\ EntriesListed
  BY DEF TraceNext, Write, End, traceVars, StreamInv, TraceInv, WriterInv
<1>2. TraceInv' /\ Grows
  BY <1>1, TraceInductive, Inductive DEF StreamInv, TraceInv
<1>3. SoleOpen'
  BY <1>1, SoleStep DEF StreamInv
<1>4. ContextsOfStreams'
  <2>1. ContextsOfStreams
    BY DEF StreamInv
  <2>2. CASE RecordChanges \/ RecordTxns \/ RecordOther
    BY <1>1, <2>1, <2>2, ContextStreams
  <2>3. CASE Declare \/ Close \/ PatchHeader \/ Release \/ UNCHANGED vars
    <3>1. UNCHANGED blkVars
      BY <2>3, ContextsAlone
    <3>. QED
      BY <2>1, <3>1 DEF ContextsOfStreams, blkVars
  <2>. QED
    BY <1>1, <2>2, <2>3 DEF Next, Client
<1>5. EntriesOfStreams'
  BY <1>1, <1>2, EntriesStreams DEF StreamInv
<1>. QED
  BY <1>2, <1>3, <1>4, <1>5 DEF StreamInv

\* A new trace has no contexts and no entries.
LEMMA StreamInit == TraceInit => StreamInv
<1>1. TraceInit => blks = << >> /\ txnEntries = << >>
  BY DEF TraceInit, Init
<1>. QED
  BY <1>1, TraceInitInv DEF StreamInv, SoleOpen, ContextsOfStreams, EntriesOfStreams

\* What the reader finds for a stream, in the terms of what the writer indexed.
LEMMA StreamRead ==
  ASSUME StreamInv, Ended, NEW sid \in Streams, Mixed \notin BlockStreams \/ BlockStreams \subseteq {Mixed}
  PROVE  LET named(recs) == {r \in recs : r.tag \in {"FULL", "BEGIN"} /\ r.sid = sid}
         IN  UNION {named(recs) : recs \in ReadTxns(disk, sid)}
               = UNION {named(disk.blocks[i].recs) : i \in Places("TXN")}
<1>. DEFINE named(recs) == {r \in recs : r.tag \in {"FULL", "BEGIN"} /\ r.sid = sid}
            found == IF StreamsIndexed(disk) THEN FindTxnBlocks(disk, sid) ELSE PlacesOf(disk, "TXN")
<1>1. ReadTxns(disk, sid) = {OfStreamOrNone(disk.blocks[i].recs, sid) : i \in found} \ {{}}
  BY DEF ReadTxns
<1>2. \A recs : named(OfStreamOrNone(recs, sid)) = named(recs)
  BY DEF OfStreamOrNone
<1>3. found \subseteq Places("TXN") /\ \A i \in Places("TXN") : named(disk.blocks[i].recs) # {} => i \in found
  <2>1. CASE ~StreamsIndexed(disk)
    BY <2>1 DEF Places
  <2>2. CASE StreamsIndexed(disk)
    <3>1. Indexed(disk) /\ disk.hdr # 0
      BY <2>2, NoIndexOnDisk DEF StreamsIndexed
    <3>2. disk.blocks = file /\ Index(disk).txn = txnEntries
      BY <3>1, IndexOnDisk DEF StreamInv
    <3>3. /\ txnEntries \in Seq(TxnRanges) /\ Len(txnEntries) \in Nat /\ DOMAIN txnEntries = 1..Len(txnEntries)
          /\ Len(file) \in Nat /\ DOMAIN file = 1..Len(file)
      BY DEF StreamInv, TraceInv, WriterInv, TypeOK, IndexTypes, FileTypes
    <3>4. Lists(Offsets(txnEntries), file, "TXN")
      BY DEF StreamInv, TraceInv, EntriesListed
    <3>5. Len(Offsets(txnEntries)) = Len(txnEntries)
          /\ \A i \in 1..Len(txnEntries) : Offsets(txnEntries)[i] = txnEntries[i].off
      BY <3>3, OffsetsOf
    <3>6. \A i \in 1..Len(txnEntries) : txnEntries[i].off \in 1..Len(file) /\ file[txnEntries[i].off].type = "TXN"
      BY <3>4, <3>5 DEF Lists
    <3>7. \A n \in 1..Len(file) : file[n].type = "TXN" => \E i \in 1..Len(txnEntries) : txnEntries[i].off = n
      BY <3>4, <3>5 DEF Lists
    <3>8. Places("TXN") = {n \in 1..Len(file) : file[n].type = "TXN"}
      BY <3>2, PlacesOnDisk DEF Places, StreamInv
    <3>9. found = {e.off : e \in {f \in ToSet(txnEntries) : f.sid = sid}}
      BY <2>2, <3>2 DEF FindTxnBlocks
    <3>10. \A i \in 1..Len(txnEntries) : txnEntries[i].sid \in BlockStreams
      <4>1. \A i \in 1..Len(txnEntries) : txnEntries[i] \in TxnRanges
        BY <3>3, ElementOfSeq
      <4>. QED
        BY <4>1 DEF TxnRanges
    <3>11. Mixed \notin BlockStreams
      BY <2>2, <3>2, <3>3, <3>10 DEF StreamsIndexed, ToSet
    <3>12. found \subseteq Places("TXN")
      BY <3>3, <3>6, <3>8, <3>9 DEF ToSet
    <3>13. ASSUME NEW n \in Places("TXN"), named(disk.blocks[n].recs) # {} PROVE n \in found
      <4>1. PICK i \in 1..Len(txnEntries) : txnEntries[i].off = n
        BY <3>7, <3>8
      <4>2. PICK r \in file[n].recs : r.tag \in {"FULL", "BEGIN"} /\ r.sid = sid
        BY <3>2, <3>13
      <4>3. OfOneStream(file[n].recs, txnEntries[i].sid)
        BY <4>1 DEF StreamInv, EntriesOfStreams
      <4>4. txnEntries[i].sid = sid
        BY <3>10, <3>11, <4>2, <4>3 DEF OfOneStream
      <4>. QED
        BY <3>3, <3>9, <4>1, <4>4 DEF ToSet
    <3>. QED
      BY <3>12, <3>13
  <2>. QED
    BY <2>1, <2>2
<1>. HIDE DEF found
<1>4. \A x : x \in UNION {named(recs) : recs \in ReadTxns(disk, sid)}
               => x \in UNION {named(disk.blocks[i].recs) : i \in Places("TXN")}
  BY <1>1, <1>2, <1>3
<1>5. ASSUME NEW i \in Places("TXN"), NEW x \in named(disk.blocks[i].recs)
      PROVE  x \in UNION {named(recs) : recs \in ReadTxns(disk, sid)}
  <2>1. i \in found
    BY <1>3
  <2>2. x \in OfStreamOrNone(disk.blocks[i].recs, sid) /\ x \in named(OfStreamOrNone(disk.blocks[i].recs, sid))
    BY DEF OfStreamOrNone
  <2>3. OfStreamOrNone(disk.blocks[i].recs, sid) \in ReadTxns(disk, sid)
    BY <1>1, <2>1, <2>2
  <2>. QED
    BY <2>2, <2>3
<1>. QED
  BY <1>4, <1>5

\* With one transaction block open at a time, and blocks that all name their stream or
\* none of which does, iter_txn_blocks gives for a stream every record that names it,
\* however the run ended: the block is indexed under its context's own stream.
THEOREM StreamsReadBack ==
  ASSUME MaxOpen <= 1, Mixed \notin BlockStreams \/ BlockStreams \subseteq {Mixed}
  PROVE  TraceSpec => []StreamComplete
<1>1. StreamInv /\ [TraceNext]_traceVars => StreamInv'
  BY StreamInductive
<1>2. StreamInv => StreamComplete
  BY StreamRead DEF StreamComplete
<1>. QED
  BY <1>1, <1>2, StreamInit, PTL DEF TraceSpec

-----------------------------------------------------------------------------
(***************************************************************************)
(* The store.  The writer, with its end at any point, implements the store  *)
(* of TraceStore as long as no two blocks of a codec are open at once: a     *)
(* flush logs what its own context holds, and what survives is a prefix of   *)
(* the log.  The log is the data blocks of the file; blocks of other types   *)
(* come between them.                                                       *)
(***************************************************************************)
-----------------------------------------------------------------------------
(* The log of a file *)

\* What the places of a finite set are listed as.
LEMMA PlacesAscend ==
  ASSUME NEW S \in SUBSET Nat, IsFiniteSet(S)
  PROVE  Cardinality(S) \in Nat /\ IsAscending(Ascending(S), S)
<1>1. PICK order : IsAscending(order, S)
  BY AscendingExists
<1>2. \A o : IsAscending(o, S) <=>
        /\ o \in [1..Cardinality(S) -> S]
        /\ \A i \in S : \E k \in 1..Cardinality(S) : o[k] = i
        /\ \A k, l \in 1..Cardinality(S) : k < l => o[k] < o[l]
  BY DEF IsAscending
<1>3. IsAscending(Ascending(S), S)
  BY <1>1, <1>2, Zenon DEF Ascending
<1>. QED
  BY <1>3, FS_CardinalityType

\* The places of data blocks.
LEMMA DataPlacesOf ==
  ASSUME NEW f, Len(f) \in Nat, DOMAIN f = 1..Len(f)
  PROVE  /\ DataPlaces(f) \in SUBSET Nat /\ IsFiniteSet(DataPlaces(f))
         /\ DataPlaces(f) = {i \in 1..Len(f) : IsData(f[i])}
<1>1. DataPlaces(f) = {i \in 1..Len(f) : IsData(f[i])}
  BY DEF DataPlaces
<1>2. IsFiniteSet(1..Len(f))
  BY FS_Interval
<1>. QED
  BY <1>1, <1>2, FS_Subset

\* The data blocks after those of a file f, in g, are at the places `at`.
DataAt(f, g, k, at) ==
  /\ k \in Nat /\ at \in [1..k -> Nat]
  /\ \A i \in 1..k : at[i] \in Len(f) + 1..Len(g) /\ IsData(g[at[i]])
  /\ \A i, j \in 1..k : i < j => at[i] < at[j]
  /\ \A n \in Len(f) + 1..Len(g) : IsData(g[n]) => \E i \in 1..k : at[i] = n

\* A file that another begins with.
Begins(f, g) ==
  /\ Len(f) \in Nat /\ DOMAIN f = 1..Len(f) /\ Len(g) \in Nat /\ DOMAIN g = 1..Len(g)
  /\ Len(f) <= Len(g) /\ \A i \in 1..Len(f) : g[i] = f[i]

\* The log l, and after it the records of k blocks of g.
Extends(l, m, g, k, at) ==
  /\ Len(l) \in Nat /\ Len(m) = Len(l) + k
  /\ \A i \in 1..Len(l) : m[i] = l[i]
  /\ \A i \in 1..k : m[Len(l) + i] = g[at[i]].recs

\* A file that grows at its end adds the records of its new data blocks to the log.
LEMMA LogExtends ==
  ASSUME NEW f, NEW g, Begins(f, g), NEW k, NEW at, DataAt(f, g, k, at)
  PROVE  Extends(Logged(f), Logged(g), g, k, at)
<1>1. /\ DataPlaces(f) \in SUBSET Nat /\ IsFiniteSet(DataPlaces(f))
      /\ DataPlaces(f) = {i \in 1..Len(f) : IsData(f[i])}
  BY DataPlacesOf DEF Begins
<1>2. /\ DataPlaces(g) \in SUBSET Nat /\ IsFiniteSet(DataPlaces(g))
      /\ DataPlaces(g) = {i \in 1..Len(g) : IsData(g[i])}
  BY DataPlacesOf DEF Begins
<1>3. PICK n, o : n = Cardinality(DataPlaces(f)) /\ o = Ascending(DataPlaces(f))
  OBVIOUS
<1>4. n \in Nat /\ IsAscending(o, DataPlaces(f))
  BY <1>1, <1>3, PlacesAscend
<1>5. /\ o \in [1..n -> DataPlaces(f)] /\ \A x \in DataPlaces(f) : \E i \in 1..n : o[i] = x
      /\ \A i, j \in 1..n : i < j => o[i] < o[j]
  BY <1>3, <1>4 DEF IsAscending
<1>6. PICK c, d : c = Len(f) /\ d = Len(g)
  OBVIOUS
<1>7. /\ c \in Nat /\ d \in Nat /\ c <= d /\ k \in Nat
      /\ at \in [1..k -> Nat]
      /\ \A i \in 1..k : at[i] \in c + 1..d /\ IsData(g[at[i]])
      /\ \A i, j \in 1..k : i < j => at[i] < at[j]
      /\ \A x \in c + 1..d : IsData(g[x]) => \E i \in 1..k : at[i] = x
      /\ \A i \in 1..c : g[i] = f[i]
  BY <1>6 DEF Begins, DataAt
<1>8. \A i \in 1..n : o[i] \in 1..c /\ IsData(f[o[i]])
  BY <1>1, <1>5, <1>6
<1>9. PICK s : s = [i \in 1..n + k |-> IF i <= n THEN o[i] ELSE at[i - n]]
  OBVIOUS
<1>10. \A i \in 1..n : i \in 1..n + k /\ s[i] = o[i]
  BY <1>4, <1>7, <1>9
<1>11. \A i \in 1..k : n + i \in 1..n + k /\ s[n + i] = at[i]
  BY <1>4, <1>7, <1>9
<1>12. \A i \in 1..n + k : i \in 1..n \/ \E j \in 1..k : i = n + j
  <2>1. TAKE i \in 1..n + k
  <2>2. CASE i <= n
    BY <1>4, <1>7, <2>2
  <2>3. CASE n < i
    <3>1. i - n \in 1..k /\ i = n + (i - n)
      BY <1>4, <1>7, <2>3
    <3>. QED
      BY <3>1
  <2>. QED
    BY <1>4, <1>7, <2>2, <2>3
<1>13. \A i \in 1..n + k : s[i] \in Nat /\ s[i] \in DataPlaces(g)
  <2>1. TAKE i \in 1..n + k
  <2>2. CASE i \in 1..n
    BY <1>2, <1>6, <1>7, <1>8, <1>10, <2>2
  <2>3. ASSUME NEW j \in 1..k, i = n + j PROVE s[i] \in DataPlaces(g)
    <3>1. at[j] \in c + 1..d /\ IsData(g[at[j]]) /\ s[i] = at[j]
      BY <1>7, <1>11, <2>3
    <3>. QED
      BY <1>2, <1>6, <1>7, <3>1
  <2>. QED
    BY <1>2, <1>12, <2>2, <2>3
<1>14. s \in [1..n + k -> Nat]
  BY <1>9, <1>13
<1>15. ASSUME NEW i \in 1..n + k, NEW j \in 1..n + k, i < j PROVE s[i] < s[j]
  <2>1. CASE j \in 1..n
    <3>1. i \in 1..n
      BY <1>4, <1>7, <1>15, <2>1
    <3>. QED
      BY <1>5, <1>10, <1>15, <2>1, <3>1
  <2>2. ASSUME NEW q \in 1..k, j = n + q PROVE s[i] < s[j]
    <3>1. s[j] = at[q] /\ at[q] \in c + 1..d
      BY <1>7, <1>11, <2>2
    <3>2. CASE i \in 1..n
      <4>1. s[i] \in 1..c
        BY <1>8, <1>10, <3>2
      <4>. QED
        BY <1>7, <3>1, <4>1
    <3>3. ASSUME NEW p \in 1..k, i = n + p PROVE s[i] < s[j]
      <4>1. p < q
        BY <1>4, <1>7, <1>15, <2>2, <3>3
      <4>. QED
        BY <1>7, <1>11, <3>1, <3>3, <4>1
    <3>. QED
      BY <1>12, <3>2, <3>3
  <2>. QED
    BY <1>12, <2>1, <2>2
<1>16. ASSUME NEW x \in DataPlaces(g) PROVE \E i \in 1..n + k : s[i] = x
  <2>1. x \in 1..d /\ IsData(g[x])
    BY <1>2, <1>6
  <2>2. CASE x <= c
    <3>1. x \in DataPlaces(f)
      BY <1>1, <1>6, <1>7, <2>1, <2>2
    <3>. QED
      BY <1>5, <1>10, <3>1
  <2>3. CASE c < x
    <3>1. x \in c + 1..d
      BY <1>7, <2>1, <2>3
    <3>2. PICK i \in 1..k : at[i] = x
      BY <1>7, <2>1, <3>1
    <3>. QED
      BY <1>11, <3>2
  <2>. QED
    BY <1>7, <2>1, <2>2, <2>3
<1>17. n + k \in Nat
  BY <1>4, <1>7
<1>18. Cardinality(DataPlaces(g)) = n + k /\ IsAscending(s, DataPlaces(g))
  BY <1>13, <1>14, <1>15, <1>16, <1>17, ListAscends
<1>19. Ascending(DataPlaces(g)) = s
  <2>1. IsAscending(Ascending(DataPlaces(g)), DataPlaces(g))
    BY <1>2, PlacesAscend
  <2>. QED
    BY <1>2, <1>17, <1>18, <2>1, AscendingUnique
<1>20. Logged(f) = [i \in 1..n |-> f[o[i]].recs]
  BY <1>3 DEF Logged
<1>21. Logged(g) = [i \in 1..n + k |-> g[s[i]].recs]
  BY <1>18, <1>19 DEF Logged
<1>22. Len(Logged(f)) = n /\ Len(Logged(g)) = n + k
  BY <1>4, <1>17, <1>20, <1>21
<1>23. \A i \in 1..n : Logged(g)[i] = Logged(f)[i]
  BY <1>6, <1>7, <1>8, <1>10, <1>20, <1>21
<1>24. \A i \in 1..k : Logged(g)[n + i] = g[at[i]].recs
  BY <1>11, <1>21
<1>. QED
  BY <1>4, <1>22, <1>23, <1>24 DEF Extends

\* The records logged after l in m are disjoint parts of what a context holds, and
\* all of it.
LoggedParts(holds, l, m) ==
  /\ IsPrefix(l, m)
  /\ \A i \in Len(l) + 1..Len(m) : m[i] \subseteq holds
  /\ \A i, j \in Len(l) + 1..Len(m) : i # j => m[i] \cap m[j] = {}

LoggedAll(holds, l, m) ==
  LoggedParts(holds, l, m) /\ holds = UNION {m[i] : i \in Len(l) + 1..Len(m)}

LEMMA PrefixOf ==
  ASSUME NEW l, NEW m, Len(l) \in Nat, Len(m) \in Nat, Len(l) <= Len(m),
         \A i \in 1..Len(l) : m[i] = l[i]
  PROVE  IsPrefix(l, m)
<1>1. PICK n \in Nat : n = Len(l)
  OBVIOUS
<1>. DEFINE S == {l[i] : i \in 1..n}
<1>2. \A i \in 1..n : l[i] \in S /\ m[i] \in S
  BY <1>1
<1>. HIDE DEF S
<1>3. /\ SubSeq(l, 1, n) \in Seq(S) /\ Len(SubSeq(l, 1, n)) = n
      /\ \A i \in 1..n : SubSeq(l, 1, n)[i] = l[i]
  BY <1>2, SubSeqProperties
<1>4. /\ SubSeq(m, 1, n) \in Seq(S) /\ Len(SubSeq(m, 1, n)) = n
      /\ \A i \in 1..n : SubSeq(m, 1, n)[i] = m[i]
  BY <1>2, SubSeqProperties
<1>5. SubSeq(l, 1, n) = SubSeq(m, 1, n)
  <2>1. PICK s, t : s = SubSeq(l, 1, n) /\ t = SubSeq(m, 1, n)
    OBVIOUS
  <2>2. /\ s \in Seq(S) /\ t \in Seq(S) /\ Len(s) = n /\ Len(t) = n
        /\ \A i \in 1..n : s[i] = t[i]
    BY <1>1, <1>3, <1>4, <2>1
  <2>. QED
    BY <2>1, <2>2
<1>. QED
  BY <1>1, <1>5 DEF IsPrefix

LEMMA LogParts ==
  ASSUME NEW l, NEW m, NEW g, NEW k \in Nat, NEW at, Extends(l, m, g, k, at), NEW holds,
         \A i \in 1..k : g[at[i]].recs \subseteq holds,
         \A i, j \in 1..k : i # j => g[at[i]].recs \cap g[at[j]].recs = {}
  PROVE  /\ LoggedParts(holds, l, m)
         /\ (\A r \in holds : \E i \in 1..k : r \in g[at[i]].recs) => LoggedAll(holds, l, m)
<1>1. PICK n \in Nat : n = Len(l)
  BY DEF Extends
<1>2. /\ Len(m) = n + k /\ \A i \in 1..n : m[i] = l[i]
      /\ \A i \in 1..k : m[n + i] = g[at[i]].recs
  BY <1>1 DEF Extends
<1>3. IsPrefix(l, m)
  BY <1>1, <1>2, PrefixOf
<1>4. \A x \in n + 1..n + k : x - n \in 1..k /\ m[x] = g[at[x - n]].recs
  <2>1. TAKE x \in n + 1..n + k
  <2>2. x - n \in 1..k /\ n + (x - n) = x
    OBVIOUS
  <2>. QED
    BY <1>2, <2>2
<1>5. \A x \in n + 1..n + k : m[x] \subseteq holds
  BY <1>4
<1>6. ASSUME NEW x \in n + 1..n + k, NEW y \in n + 1..n + k, x # y
      PROVE  m[x] \cap m[y] = {}
  <2>1. x - n # y - n
    BY <1>6
  <2>. QED
    BY <1>4, <2>1
<1>7. LoggedParts(holds, l, m)
  BY <1>1, <1>2, <1>3, <1>5, <1>6 DEF LoggedParts
<1>8. ASSUME \A r \in holds : \E i \in 1..k : r \in g[at[i]].recs
      PROVE  LoggedAll(holds, l, m)
  <2>1. ASSUME NEW r \in holds PROVE \E x \in n + 1..n + k : r \in m[x]
    <3>1. PICK i \in 1..k : r \in g[at[i]].recs
      BY <1>8
    <3>2. n + i \in n + 1..n + k
      OBVIOUS
    <3>. QED
      BY <1>2, <3>1, <3>2
  <2>2. holds = UNION {m[x] : x \in n + 1..n + k}
    BY <1>5, <2>1
  <2>. QED
    BY <1>1, <1>2, <1>7, <2>2 DEF LoggedAll
<1>. QED
  BY <1>7, <1>8

-----------------------------------------------------------------------------
(* Steps of the store *)

LEMMA SamePrefix == \A l, m : Store!IsPrefix(l, m) <=> IsPrefix(l, m)
BY DEF Store!IsPrefix, IsPrefix

\* The contexts of the store.
Stored(bs) == [b \in 1..Len(bs) |-> [holds |-> Holds(bs[b]), status |-> Status(bs[b])]]

LEMMA StoredNext ==
  [b \in 1..Len(blks) |-> [holds |-> Holds(blks[b]), status |-> Status(blks[b])]]' = Stored(blks')
BY DEF Stored

LEMMA StoredParts ==
  ASSUME NEW bs, Len(bs) \in Nat
  PROVE  /\ Len(Stored(bs)) = Len(bs)
         /\ \A b \in 1..Len(bs) : Stored(bs)[b] = [holds |-> Holds(bs[b]), status |-> Status(bs[b])]
BY DEF Stored

\* One context is changed, the others stay.
OneChanged(b) == Len(blks') = Len(blks) /\ \A d \in 1..Len(blks) : d # b => blks'[d] = blks[d]

LEMMA OthersStay ==
  ASSUME BlkTypes, NEW b \in 1..Len(blks), OneChanged(b)
  PROVE  /\ Len(Stored(blks)) = Len(blks) /\ Len(Stored(blks')) = Len(blks)
         /\ \A d \in 1..Len(blks) : d # b => Stored(blks')[d] = Stored(blks)[d]
         /\ Stored(blks)[b] = [holds |-> Holds(blks[b]), status |-> Status(blks[b])]
         /\ Stored(blks')[b] = [holds |-> Holds(blks'[b]), status |-> Status(blks'[b])]
<1>1. Len(blks) \in Nat /\ Len(blks') \in Nat
  BY DEF BlkTypes, OneChanged
<1>. QED
  BY <1>1, StoredParts DEF OneChanged

\* A context filled is one that records.
LEMMA StoreRecord ==
  ASSUME BlkTypes, NEW b \in 1..Len(blks), disk = Unread, UNCHANGED <<file, disk>>,
         OneChanged(b), blks[b].open, blks'[b].open
  PROVE  Store!StoreNext
<1>1. PICK old, new : old = Stored(blks) /\ new = Stored(blks')
  OBVIOUS
<1>2. /\ Len(old) = Len(blks) /\ Len(new) = Len(blks)
      /\ \A d \in 1..Len(blks) : d # b => new[d] = old[d]
      /\ old[b] = [holds |-> Holds(blks[b]), status |-> Status(blks[b])]
      /\ new[b] = [holds |-> Holds(blks'[b]), status |-> Status(blks'[b])]
  BY <1>1, OthersStay
<1>3. old[b].status = "open" /\ new[b].status = "open"
  BY <1>2 DEF Status
<1>4. old = [c \in 1..Len(blks) |-> [holds |-> Holds(blks[c]), status |-> Status(blks[c])]]
  BY <1>1 DEF Stored
<1>5. new = [c \in 1..Len(blks) |-> [holds |-> Holds(blks[c]), status |-> Status(blks[c])]]'
  BY <1>1, StoredNext
<1>6. Store!Others(b)
  BY <1>2, <1>4, <1>5 DEF Store!Others
<1>7. Store!Record(b)
  BY <1>3, <1>4, <1>5, <1>6 DEF Store!Record
<1>. QED
  BY <1>2, <1>4, <1>7 DEF Store!StoreNext

\* A context that keeps what it holds changes its status alone.
LEMMA StatusChanged ==
  ASSUME BlkTypes, NEW b \in 1..Len(blks), OneChanged(b), Holds(blks'[b]) = Holds(blks[b])
  PROVE  Stored(blks') = [Stored(blks) EXCEPT ![b].status = Status(blks'[b])]
<1>1. PICK old, new, n : old = Stored(blks) /\ new = Stored(blks') /\ n = Len(blks)
  OBVIOUS
<1>2. n \in Nat /\ Len(blks') = n /\ b \in 1..n
  BY <1>1 DEF BlkTypes, OneChanged
<1>3. /\ old = [c \in 1..n |-> old[c]] /\ new = [c \in 1..n |-> new[c]]
  BY <1>1, <1>2 DEF Stored
<1>4. /\ \A d \in 1..n : d # b => new[d] = old[d]
      /\ old[b] = [holds |-> Holds(blks[b]), status |-> Status(blks[b])]
      /\ new[b] = [holds |-> Holds(blks'[b]), status |-> Status(blks'[b])]
  BY <1>1, OthersStay
<1>5. PICK held, from, to : held = Holds(blks[b]) /\ from = Status(blks[b]) /\ to = Status(blks'[b])
  OBVIOUS
<1>6. old[b] = [holds |-> held, status |-> from] /\ new[b] = [holds |-> held, status |-> to]
  BY <1>4, <1>5
<1>7. new = [old EXCEPT ![b].status = to]
  <2>1. PICK now : now = [holds |-> held, status |-> to]
    OBVIOUS
  <2>2. [old[b] EXCEPT !.status = to] = now
    BY <1>6, <2>1
  <2>3. new = [c \in 1..n |-> IF c = b THEN now ELSE old[c]]
    BY <1>3, <1>4, <1>6, <2>1, <1>1
  <2>4. [old EXCEPT ![b] = now] = [c \in 1..n |-> IF c = b THEN now ELSE old[c]]
    BY <1>2, <1>3
  <2>5. [old EXCEPT ![b].status = to] = [old EXCEPT ![b] = now]
    BY <2>2
  <2>. QED
    BY <2>3, <2>4, <2>5
<1>. QED
  BY <1>1, <1>5, <1>7

\* A flush that logs what its context holds, and one that is refused.
LEMMA StoreFlush ==
  ASSUME BlkTypes, NEW b \in 1..Len(blks), disk = Unread, UNCHANGED disk, OneChanged(b),
         blks[b].open, Holds(blks'[b]) = Holds(blks[b]),
         \/ /\ Status(blks'[b]) \in {"open", "logged"}
            /\ LoggedAll(Holds(blks[b]), Logged(file), Logged(file'))
         \/ /\ Status(blks'[b]) \in {"open", "refused"}
            /\ LoggedParts(Holds(blks[b]), Logged(file), Logged(file'))
  PROVE  Store!StoreNext
<1>1. PICK old, new, l, m, held : /\ old = Stored(blks) /\ new = Stored(blks')
                                  /\ l = Logged(file) /\ m = Logged(file') /\ held = Holds(blks[b])
  OBVIOUS
<1>2. /\ Len(old) = Len(blks) /\ old[b] = [holds |-> held, status |-> Status(blks[b])]
  BY <1>1, OthersStay
<1>3. old[b].status = "open" /\ old[b].holds = held
  BY <1>2 DEF Status
<1>4. new = [old EXCEPT ![b].status = Status(blks'[b])]
  BY <1>1, StatusChanged
<1>5. old = [c \in 1..Len(blks) |-> [holds |-> Holds(blks[c]), status |-> Status(blks[c])]]
  BY <1>1 DEF Stored
<1>6. new = [c \in 1..Len(blks) |-> [holds |-> Holds(blks[c]), status |-> Status(blks[c])]]'
  BY <1>1, StoredNext
<1>7. m = Logged(file)'
  BY <1>1 DEF Logged, Ascending, DataPlaces, IsData
<1>8. (IF disk = Unread THEN Unread ELSE Logged(disk.blocks))' = IF disk = Unread THEN Unread ELSE Logged(disk.blocks)
  OBVIOUS
<1>9. LoggedParts(held, l, m) => Store!IsPrefix(l, m) /\ Store!PartsOf(held, Len(l) + 1)
  BY <1>1, <1>7, SamePrefix DEF LoggedParts, Store!PartsOf
<1>10. CASE Status(blks'[b]) \in {"open", "logged"} /\ LoggedAll(held, l, m)
  <2>1. LoggedAll(held, l, m)
    BY <1>10
  <2>2. held = UNION {m[i] : i \in Len(l) + 1..Len(m)} /\ LoggedParts(held, l, m)
    BY <2>1 DEF LoggedAll
  <2>3. Store!IsPrefix(l, m) /\ Store!PartsOf(held, Len(l) + 1)
    BY <1>9, <2>2
  <2>4. \E s \in {"open", "logged"} : new = [old EXCEPT ![b].status = s]
    BY <1>4, <1>10
  <2>a. old[b].holds = UNION {(Logged(file)')[i] : i \in Len(l) + 1..Len(Logged(file)')}
    BY <1>3, <1>7, <2>2
  <2>b. old[b].holds = UNION {(Logged(file)')[i] : i \in Len(Logged(file)) + 1..Len(Logged(file)')}
    BY <1>1, <2>a
  <2>5. Store!Flush(b)
    BY <1>1, <1>3, <1>5, <1>6, <1>7, <1>8, <2>b, <2>3, <2>4 DEF Store!Flush
  <2>. QED
    BY <1>2, <1>5, <2>5 DEF Store!StoreNext
<1>11. CASE Status(blks'[b]) \in {"open", "refused"} /\ LoggedParts(held, l, m)
  <2>1. LoggedParts(held, l, m)
    BY <1>11
  <2>a. \E s \in {"open", "refused"} : new = [old EXCEPT ![b].status = s]
    BY <1>4, <1>11
  <2>2. Store!Refuse(b)
    BY <1>1, <1>3, <1>5, <1>6, <1>7, <1>8, <1>9, <2>a, <2>1 DEF Store!Refuse
  <2>. QED
    BY <1>2, <1>5, <2>2 DEF Store!StoreNext
<1>. QED
  BY <1>1, <1>10, <1>11

\* A context is begun: the others are as they were.
LEMMA OneMore ==
  ASSUME BlkTypes, NEW new, blks' = Append(blks, new)
  PROVE  /\ Len(blks) \in Nat /\ Len(blks') = Len(blks) + 1 /\ Len(Stored(blks)) = Len(blks)
         /\ Len(Stored(blks')) = Len(blks) + 1
         /\ \A d \in 1..Len(blks) : Stored(blks')[d] = Stored(blks)[d]
         /\ Stored(blks')[Len(blks) + 1] = [holds |-> Holds(new), status |-> Status(new)]
         /\ IsPrefix(Stored(blks), Stored(blks'))
<1>1. /\ Len(blks) \in Nat /\ Len(blks') = Len(blks) + 1 /\ blks'[Len(blks) + 1] = new
      /\ \A b \in 1..Len(blks) : blks'[b] = blks[b]
  BY DEF BlkTypes
<1>2. /\ Len(Stored(blks)) = Len(blks) /\ Len(Stored(blks')) = Len(blks) + 1
      /\ \A d \in 1..Len(blks) : Stored(blks')[d] = Stored(blks)[d]
      /\ Stored(blks')[Len(blks) + 1] = [holds |-> Holds(new), status |-> Status(new)]
  <2>1. Len(blks') \in Nat
    BY <1>1
  <2>2. /\ Len(Stored(blks)) = Len(blks)
        /\ \A b \in 1..Len(blks) : Stored(blks)[b] = [holds |-> Holds(blks[b]), status |-> Status(blks[b])]
    BY <1>1, StoredParts
  <2>3. /\ Len(Stored(blks')) = Len(blks')
        /\ \A b \in 1..Len(blks') : Stored(blks')[b] = [holds |-> Holds(blks'[b]), status |-> Status(blks'[b])]
    BY <2>1, StoredParts
  <2>. QED
    BY <1>1, <2>2, <2>3
<1>3. PICK old, now : old = Stored(blks) /\ now = Stored(blks')
  OBVIOUS
<1>4. IsPrefix(old, now)
  BY <1>1, <1>2, <1>3, PrefixOf
<1>. QED
  BY <1>1, <1>2, <1>3, <1>4

LEMMA StoreBegin ==
  ASSUME BlkTypes, NEW new, blks' = Append(blks, new), UNCHANGED <<file, disk>>, disk = Unread,
         Holds(new) = {}, new.open
  PROVE  Store!StoreNext
<1>1. PICK old, now : old = Stored(blks) /\ now = Stored(blks')
  OBVIOUS
<1>2. /\ Len(blks) \in Nat /\ Len(old) = Len(blks) /\ Len(now) = Len(blks) + 1
      /\ \A d \in 1..Len(blks) : now[d] = old[d]
      /\ now[Len(blks) + 1] = [holds |-> {}, status |-> "open"]
  BY <1>1, OneMore DEF Status
<1>3. old = [c \in 1..Len(blks) |-> [holds |-> Holds(blks[c]), status |-> Status(blks[c])]]
  BY <1>1 DEF Stored
<1>4. now = [c \in 1..Len(blks) |-> [holds |-> Holds(blks[c]), status |-> Status(blks[c])]]'
  BY <1>1, StoredNext
<1>5. now = Append(old, [holds |-> {}, status |-> "open"])
  <2>1. PICK n, r : n = Len(blks) /\ r = [holds |-> {}, status |-> "open"]
    OBVIOUS
  <2>2. n \in Nat /\ Len(blks') = n + 1
    BY <1>2, <2>1, OneMore
  <2>3. old = [c \in 1..n |-> old[c]] /\ now = [c \in 1..n + 1 |-> now[c]]
    BY <1>1, <2>1, <2>2 DEF Stored
  <2>4. /\ \A d \in 1..n : now[d] = old[d]
        /\ now[n + 1] = r /\ Len(old) = n
    BY <1>2, <2>1
  <2>. DEFINE S == {old[c] : c \in 1..n} \cup {r}
  <2>5. [c \in 1..n |-> old[c]] \in Seq(S) /\ r \in S
    BY <2>2
  <2>. HIDE DEF S
  <2>6. old \in Seq(S)
    BY <2>3, <2>5
  <2>a. PICK app : app = Append(old, r)
    OBVIOUS
  <2>b. /\ app \in Seq(S) /\ Len(app) = n + 1
        /\ \A c \in 1..n + 1 : app[c] = IF c <= n THEN old[c] ELSE r
    BY <2>2, <2>4, <2>5, <2>6, <2>a, AppendProperties
  <2>c. app = [c \in 1..n + 1 |-> app[c]]
    BY <2>2, <2>b
  <2>d. \A c \in 1..n + 1 : now[c] = app[c]
    <3>1. TAKE c \in 1..n + 1
    <3>2. c \in 1..n \/ c = n + 1
      BY <2>2
    <3>. QED
      BY <2>2, <2>4, <2>b, <3>2
  <2>8. now = Append(old, r)
    BY <2>3, <2>a, <2>c, <2>d
  <2>. QED
    BY <2>1, <2>8
<1>6. Store!Begin
  BY <1>3, <1>4, <1>5 DEF Store!Begin
<1>. QED
  BY <1>6 DEF Store!StoreNext

LEMMA StoreWrite ==
  ASSUME BlkTypes, NEW new, blks' = Append(blks, new), UNCHANGED disk, disk = Unread,
         Status(new) = "logged", LoggedAll(Holds(new), Logged(file), Logged(file'))
  PROVE  Store!StoreNext
<1>1. PICK old, now, l, m, held : /\ old = Stored(blks) /\ now = Stored(blks')
                                  /\ l = Logged(file) /\ m = Logged(file') /\ held = Holds(new)
  OBVIOUS
<1>2. /\ Len(blks) \in Nat /\ Len(old) = Len(blks) /\ Len(now) = Len(blks) + 1
      /\ now[Len(now)] = [holds |-> held, status |-> "logged"] /\ IsPrefix(old, now)
  BY <1>1, OneMore
<1>3. old = [c \in 1..Len(blks) |-> [holds |-> Holds(blks[c]), status |-> Status(blks[c])]]
  BY <1>1 DEF Stored
<1>4. now = [c \in 1..Len(blks) |-> [holds |-> Holds(blks[c]), status |-> Status(blks[c])]]'
  BY <1>1, StoredNext
<1>5. m = Logged(file)'
  BY <1>1 DEF Logged, Ascending, DataPlaces, IsData
<1>6. held = UNION {m[i] : i \in Len(l) + 1..Len(m)} /\ LoggedParts(held, l, m)
  BY <1>1 DEF LoggedAll
<1>7. Store!IsPrefix(l, m) /\ Store!IsPrefix(old, now) /\ Store!PartsOf(held, Len(l) + 1)
  BY <1>1, <1>2, <1>5, <1>6, SamePrefix DEF LoggedParts, Store!PartsOf
<1>8. now[Len(now)].status = "logged" /\ now[Len(now)].holds = held /\ Len(now) = Len(old) + 1
  BY <1>2
<1>9. held = UNION {(Logged(file)')[i] : i \in Len(l) + 1..Len(Logged(file)')}
  BY <1>5, <1>6
<1>10. held = UNION {(Logged(file)')[i] : i \in Len(Logged(file)) + 1..Len(Logged(file)')}
  BY <1>1, <1>9
<1>11. Store!Write
  BY <1>1, <1>3, <1>4, <1>5, <1>7, <1>8, <1>10 DEF Store!Write
<1>. QED
  BY <1>11 DEF Store!StoreNext

\* What the store does not know of.
LEMMA StoreStutter ==
  ASSUME UNCHANGED <<blks, disk>>, Logged(file') = Logged(file)
  PROVE  UNCHANGED Store!storeVars
<1>1. Logged(file)' = Logged(file)
  BY DEF Logged, Ascending, DataPlaces, IsData
<1>2. [b \in 1..Len(blks) |-> [holds |-> Holds(blks[b]), status |-> Status(blks[b])]]'
        = [b \in 1..Len(blks) |-> [holds |-> Holds(blks[b]), status |-> Status(blks[b])]]
  BY StoredNext DEF Stored
<1>. QED
  BY <1>1, <1>2 DEF Store!storeVars

\* The data blocks added have places.
LEMMA DataAtExists ==
  ASSUME NEW f, NEW g, Begins(f, g)
  PROVE  \E k, at : DataAt(f, g, k, at)
<1>1. PICK c, d : c = Len(f) /\ d = Len(g)
  OBVIOUS
<1>2. c \in Nat /\ d \in Nat
  BY <1>1 DEF Begins
<1>. DEFINE S == {n \in c + 1..d : IsData(g[n])}
<1>3. S \in SUBSET Nat /\ IsFiniteSet(S)
  <2>1. IsFiniteSet(c + 1..d)
    BY <1>2, FS_Interval
  <2>2. S \subseteq c + 1..d
    OBVIOUS
  <2>3. IsFiniteSet(S)
    BY <2>1, <2>2, FS_Subset
  <2>. QED
    BY <1>2, <2>3
<1>4. PICK k, at : k = Cardinality(S) /\ at = Ascending(S)
  OBVIOUS
<1>5. k \in Nat /\ IsAscending(at, S)
  <2>. HIDE DEF S
  <2>. QED
    BY <1>3, <1>4, PlacesAscend
<1>6. /\ at \in [1..k -> S] /\ \A x \in S : \E i \in 1..k : at[i] = x
      /\ \A i, j \in 1..k : i < j => at[i] < at[j]
  <2>. HIDE DEF S
  <2>. QED
    BY <1>4, <1>5 DEF IsAscending
<1>7. at \in [1..k -> Nat] /\ \A i \in 1..k : at[i] \in c + 1..d /\ IsData(g[at[i]])
  BY <1>3, <1>6
<1>8. \A n \in c + 1..d : IsData(g[n]) => \E i \in 1..k : at[i] = n
  BY <1>6
<1>9. DataAt(f, g, k, at)
  BY <1>1, <1>5, <1>6, <1>7, <1>8 DEF DataAt
<1>. QED
  BY <1>9

\* The log of a file that another begins with is a prefix of the other's.
LEMMA LogPrefix ==
  ASSUME NEW f, NEW g, Begins(f, g)
  PROVE  IsPrefix(Logged(f), Logged(g))
<1>1. PICK k, at : DataAt(f, g, k, at)
  BY DataAtExists
<1>2. Extends(Logged(f), Logged(g), g, k, at) /\ k \in Nat
  BY <1>1, LogExtends DEF DataAt
<1>3. PICK l, m : l = Logged(f) /\ m = Logged(g)
  OBVIOUS
<1>4. Len(l) \in Nat /\ Len(m) = Len(l) + k /\ \A i \in 1..Len(l) : m[i] = l[i]
  BY <1>2, <1>3 DEF Extends
<1>5. Len(m) \in Nat /\ Len(l) <= Len(m)
  BY <1>2, <1>4
<1>6. IsPrefix(l, m)
  BY <1>4, <1>5, PrefixOf
<1>. QED
  BY <1>3, <1>6

\* A file to which no data is added has the log it had.
LEMMA LogKept ==
  ASSUME NEW f, NEW g, Begins(f, g), \A n \in Len(f) + 1..Len(g) : ~IsData(g[n])
  PROVE  Logged(g) = Logged(f)
<1>1. DataPlaces(g) = DataPlaces(f)
  BY DEF Begins, DataPlaces
<1>2. DataPlaces(f) \in SUBSET Nat /\ IsFiniteSet(DataPlaces(f)) /\ DataPlaces(f) \subseteq 1..Len(f)
  BY DataPlacesOf DEF Begins
<1>3. IsAscending(Ascending(DataPlaces(f)), DataPlaces(f))
  BY <1>2, PlacesAscend
<1>4. \A k \in 1..Cardinality(DataPlaces(f)) : Ascending(DataPlaces(f))[k] \in 1..Len(f)
  BY <1>2, <1>3 DEF IsAscending
<1>. QED
  BY <1>1, <1>4 DEF Begins, Logged

\* A new trace is an empty store.
LEMMA StoreStart == TraceInit => Store!StoreInit
<1>. SUFFICES ASSUME TraceInit PROVE Store!StoreInit
  OBVIOUS
<1>1. blks = << >> /\ file = << >> /\ disk = Unread
  BY DEF TraceInit, Init
<1>2. DataPlaces(<< >>) = {} /\ Cardinality({}) = 0
  BY FS_EmptySet DEF DataPlaces
<1>3. Logged(file) = << >>
  BY <1>1, <1>2 DEF Logged
<1>4. [b \in 1..Len(blks) |-> [holds |-> Holds(blks[b]), status |-> Status(blks[b])]] = << >>
  BY <1>1
<1>. QED
  BY <1>1, <1>3, <1>4 DEF Store!StoreInit

\* The end leaves a prefix of the log.
LEMMA StoreEnds ==
  ASSUME TraceInv, End
  PROVE  [Store!StoreNext]_(Store!storeVars)
<1>1. UNCHANGED <<blks, file>> /\ disk = Unread
  BY DEF End, vars, fileVars, blkVars
<1>2. Logged(file)' = Logged(file)
  BY <1>1 DEF Logged, Ascending, DataPlaces, IsData
<1>3. [b \in 1..Len(blks) |-> [holds |-> Holds(blks[b]), status |-> Status(blks[b])]]'
        = [b \in 1..Len(blks) |-> [holds |-> Holds(blks[b]), status |-> Status(blks[b])]]
  BY <1>1, StoredNext DEF Stored
<1>4. PICK left : left = (IF disk = Unread THEN Unread ELSE Logged(disk.blocks))'
  OBVIOUS
<1>5. CASE left = Unread
  <2>1. UNCHANGED Store!storeVars
    BY <1>1, <1>2, <1>3, <1>4, <1>5 DEF Store!storeVars
  <2>. QED
    BY <2>1
<1>6. CASE left # Unread
  <2>1. disk' # Unread /\ left = Logged(disk'.blocks)
    BY <1>4, <1>6 DEF Logged, Ascending, DataPlaces, IsData
  <2>2. DiskInv'
    BY EndLeaves
  <2>3. file \in Seq(Blocks)
    BY DEF TraceInv, WriterInv, TypeOK, FileTypes
  <2>4. /\ disk'.blocks \in Seq(Blocks) /\ Len(disk'.blocks) <= Len(file)
        /\ \A i \in 1..Len(disk'.blocks) : disk'.blocks[i] = file[i]
    BY <1>1, <2>1, <2>2 DEF DiskInv, Ended
  <2>5. Begins(disk'.blocks, file)
    BY <2>3, <2>4 DEF Begins
  <2>6. IsPrefix(left, Logged(file))
    BY <2>1, <2>5, LogPrefix
  <2>7. Store!IsPrefix(left, Logged(file))
    BY <2>6, SamePrefix
  <2>8. Store!End
    BY <1>1, <1>2, <1>3, <1>4, <1>6, <2>7 DEF Store!End
  <2>. QED
    BY <2>8 DEF Store!StoreNext
<1>. QED
  BY <1>5, <1>6

-----------------------------------------------------------------------------
(* What a flush of value changes logs *)

\* The part of a context's holdings that belongs to one scope.
LEMMA ScopePartHolds ==
  ASSUME NEW c \in VcContexts, NEW s
  PROVE  /\ Holds(ScopePart(c, s)) = {r \in Holds(c) : ScopeOf(r.var) = s}
         /\ ~EncodeFails(c) => ~EncodeFails(ScopePart(c, s))
<1>1. PICK recs, init, last : /\ recs = {r \in c.recs : ScopeOf(r.var) = s}
                              /\ init = {r \in c.init : ScopeOf(r.var) = s}
                              /\ last = EndTime(c.start, recs)
  OBVIOUS
<1>2. ScopePart(c, s) = [c EXCEPT !.recs = recs, !.init = init, !.end = last]
  BY <1>1 DEF ScopePart
<1>3. PICK part : part = [c EXCEPT !.recs = recs, !.init = init, !.end = last]
  OBVIOUS
<1>4. /\ part.recs = recs /\ part.init = init /\ part.start = c.start /\ part.codec = c.codec
      /\ part.types = c.types
  BY <1>3 DEF VcContexts
<1>5. Holds(part) = recs \cup {r \in init : \A q \in recs : q.var # r.var}
  BY <1>4 DEF Holds
<1>6. ASSUME NEW r \in init PROVE (\A q \in recs : q.var # r.var) <=> (\A q \in c.recs : q.var # r.var)
  <2>1. ScopeOf(r.var) = s
    BY <1>1
  <2>2. ASSUME NEW q \in c.recs, q.var = r.var PROVE q \in recs
    BY <1>1, <2>1, <2>2
  <2>3. recs \subseteq c.recs
    BY <1>1
  <2>. QED
    BY <2>2, <2>3
<1>7. Holds(part) = {r \in Holds(c) : ScopeOf(r.var) = s}
  BY <1>1, <1>5, <1>6 DEF Holds
<1>8. ~EncodeFails(c) => ~EncodeFails(part)
  <2>1. recs \subseteq c.recs
    BY <1>1
  <2>. QED
    BY <1>4, <2>1 DEF EncodeFails
<1>. QED
  BY <1>2, <1>3, <1>7, <1>8

\* A sequence of contexts that together hold what c holds, each record once.
Divides(whole, c) ==
  /\ \A i \in 1..Len(whole) : Holds(whole[i]) \subseteq Holds(c)
  /\ \A i, j \in 1..Len(whole) : i # j => Holds(whole[i]) \cap Holds(whole[j]) = {}
  /\ \A r \in Holds(c) : \E i \in 1..Len(whole) : r \in Holds(whole[i])
  /\ ~EncodeFails(c) => \A i \in 1..Len(whole) : ~EncodeFails(whole[i])

\* Some numbers, listed without repetition as often as there are of them, are all listed.
LEMMA AllListed ==
  ASSUME NEW S, IsFiniteSet(S), NEW n \in Nat, Cardinality(S) = n, NEW f \in [1..n -> S],
         \A i, j \in 1..n : i # j => f[i] # f[j]
  PROVE  \A x \in S : \E i \in 1..n : f[i] = x
<1>1. f \in Injection(1..n, S)
  BY DEF Injection, IsInjective
<1>2. Cardinality(1..n) = n
  BY FS_Interval
<1>3. f \in Surjection(1..n, S)
  BY <1>1, <1>2, FS_Injection
<1>. QED
  BY <1>3 DEF Surjection

\* By scope, every record is in the part of its variable's scope.
LEMMA ScopesDivide ==
  ASSUME TypeOK, NEW c \in VcContexts, NEW order \in ScopeOrders(c), NEW whole,
         whole = [i \in 1..Len(order) |-> ScopePart(c, order[i])]
  PROVE  Divides(whole, c)
<1>1. PICK used : used = {ScopeOf(r.var) : r \in c.recs \cup c.init}
  OBVIOUS
<1>2. \A r \in c.recs \cup c.init : ScopeOf(r.var) \in 0..MaxScopes
  BY ConstantTypes DEF ScopeOf, TypeOK, HierTypes, PartialFcn
<1>3. used \in SUBSET (0..MaxScopes)
  BY <1>1, <1>2
<1>4. IsFiniteSet(used) /\ Cardinality(used) \in Nat
  <2>1. IsFiniteSet(0..MaxScopes)
    BY ConstantTypes, FS_Interval
  <2>. QED
    BY <1>3, <2>1, FS_Subset, FS_CardinalityType
<1>5. PICK n \in Nat : n = Cardinality(used)
  BY <1>4
<1>6. order \in [1..n -> used] /\ \A i, j \in 1..n : i < j => order[i] < order[j]
  BY <1>1, <1>5 DEF ScopeOrders
<1>7. \A i \in 1..n : order[i] \in Int
  <2>1. 0..MaxScopes \subseteq Int
    BY ConstantTypes
  <2>2. used \subseteq Int
    BY <1>3, <2>1
  <2>. QED
    BY <1>6, <2>2
<1>8. ASSUME NEW i \in 1..n, NEW j \in 1..n, i # j PROVE order[i] # order[j]
  <2>1. i < j \/ j < i
    BY <1>8
  <2>. QED
    BY <1>6, <1>7, <2>1
<1>9. \A x \in used : \E i \in 1..n : order[i] = x
  BY <1>4, <1>5, <1>6, <1>8, AllListed
<1>10. Len(order) = n /\ Len(whole) = n /\ \A i \in 1..n : whole[i] = ScopePart(c, order[i])
  <2>1. Len(order) = n
    BY <1>6
  <2>. QED
    BY <2>1
<1>11. \A i \in 1..n : /\ Holds(whole[i]) = {r \in Holds(c) : ScopeOf(r.var) = order[i]}
                       /\ ~EncodeFails(c) => ~EncodeFails(whole[i])
  BY <1>10, ScopePartHolds
<1>12. ASSUME NEW i \in 1..n, NEW j \in 1..n, i # j PROVE Holds(whole[i]) \cap Holds(whole[j]) = {}
  BY <1>8, <1>11, <1>12
<1>13. ASSUME NEW r \in Holds(c) PROVE \E i \in 1..n : r \in Holds(whole[i])
  <2>1. r \in c.recs \cup c.init
    BY DEF Holds
  <2>2. ScopeOf(r.var) \in used
    BY <1>1, <2>1
  <2>3. PICK i \in 1..n : order[i] = ScopeOf(r.var)
    BY <1>9, <2>2
  <2>. QED
    BY <1>11, <2>3
<1>14. \A i \in 1..n : Holds(whole[i]) \subseteq Holds(c)
  BY <1>11
<1>15. ~EncodeFails(c) => \A i \in 1..n : ~EncodeFails(whole[i])
  BY <1>11
<1>. QED
  BY <1>10, <1>12, <1>13, <1>14, <1>15 DEF Divides

\* Without it, the shared state holds the context flushed, the only one open.
LEMMA VcPartsDivide ==
  ASSUME TypeOK, SoleOpen, NEW b \in 1..Len(blks), blks[b].open, blks[b] \in VcContexts,
         NEW whole \in VcParts(b)
  PROVE  Divides(whole, blks[b])
<1>1. CASE blks[b].codec = "core" /\ ScopeGrouped
  <2>1. PICK order \in ScopeOrders(blks[b]) :
          whole = [i \in 1..Len(order) |-> ScopePart(blks[b], order[i])]
    BY <1>1 DEF VcParts
  <2>. QED
    BY <2>1, ScopesDivide
<1>2. CASE ~(blks[b].codec = "core" /\ ScopeGrouped)
  <2>1. blks[b].codec = "core" => vcState = b
    BY DEF SoleOpen
  <2>2. whole = <<blks[b]>>
    BY <1>2, <2>1 DEF VcParts
  <2>3. PICK c : c = blks[b]
    OBVIOUS
  <2>4. whole = <<c>> /\ Len(whole) = 1 /\ whole[1] = c /\ 1..1 = {1}
    BY <2>2, <2>3
  <2>5. Divides(whole, c)
    BY <2>4 DEF Divides
  <2>. QED
    BY <2>3, <2>5
<1>. QED
  BY <1>1, <1>2

\* A context after its flush.
LEMMA LeftContext ==
  ASSUME BlkTypes, NEW b \in 1..Len(blks), AfterFlush(b)
  PROVE  /\ OneChanged(b) /\ Holds(blks'[b]) = Holds(blks[b])
         /\ Status(blks'[b]) \in {"open", IF EncodeFails(blks[b]) THEN "refused" ELSE "logged"}
<1>0. PICK o \in {FALSE, blks[b].open} : blks' = [blks EXCEPT ![b] = [blks[b] EXCEPT !.open = o]]
  BY FlushedContext
<1>1. PICK c, new : c = blks[b] /\ new = [c EXCEPT !.open = o]
  OBVIOUS
<1>2. c \in VcContexts \cup TxnContexts
  BY <1>1, ElementOfSeq DEF BlkTypes
<1>3. blks' = [blks EXCEPT ![b] = new]
  BY <1>0, <1>1
<1>4. /\ new.codec = c.codec /\ new.recs = c.recs /\ new.init = c.init /\ new.kind = c.kind
      /\ new.start = c.start /\ new.types = c.types
  BY <1>1, <1>2 DEF VcContexts, TxnContexts
<1>5. OneChanged(b) /\ blks'[b] = new
  BY <1>3 DEF BlkTypes, OneChanged
<1>6. Holds(new) = Holds(c)
  BY <1>4 DEF Holds
<1>7. EncodeFails(new) <=> EncodeFails(c)
  BY <1>4 DEF EncodeFails
<1>8. Status(new) \in {"open", IF EncodeFails(c) THEN "refused" ELSE "logged"}
  BY <1>7 DEF Status
<1>. QED
  BY <1>1, <1>5, <1>6, <1>8

\* Blocks one after the other.
LEMMA DataInARow ==
  ASSUME NEW f, NEW g, Begins(f, g), NEW k \in Nat, NEW from \in Nat, Len(f) <= from, Len(g) = from + k,
         \A n \in Len(f) + 1..from : ~IsData(g[n]), \A i \in 1..k : IsData(g[from + i])
  PROVE  DataAt(f, g, k, [i \in 1..k |-> from + i])
<1>1. PICK c \in Nat : c = Len(f)
  BY DEF Begins
<1>2. PICK at : at = [i \in 1..k |-> from + i]
  OBVIOUS
<1>3. at \in [1..k -> Nat] /\ \A i \in 1..k : at[i] = from + i
  BY <1>2
<1>4. \A i \in 1..k : at[i] \in c + 1..from + k /\ IsData(g[at[i]])
  BY <1>1, <1>3
<1>5. \A i, j \in 1..k : i < j => at[i] < at[j]
  BY <1>3
<1>6. ASSUME NEW n \in c + 1..from + k, IsData(g[n]) PROVE \E i \in 1..k : at[i] = n
  <2>1. ~(n <= from)
    BY <1>1, <1>6
  <2>2. n - from \in 1..k /\ from + (n - from) = n
    BY <2>1
  <2>. QED
    BY <1>3, <2>2
<1>7. DataAt(f, g, k, at)
  BY <1>1, <1>3, <1>4, <1>5, <1>6 DEF DataAt
<1>. QED
  BY <1>2, <1>7

LEMMA FileBegins == FileTypes /\ FileTypes' /\ Grows => Begins(file, file')
BY DEF FileTypes, Grows, Begins

\* A flush of value changes logs what its context holds, or part of it.
LEMMA FlushVcStores ==
  ASSUME WriterInv, SoleOpen, disk = Unread, UNCHANGED disk, FileTypes', Grows,
         NEW b \in 1..Len(blks), FlushVc(b)
  PROVE  Store!StoreNext
<1>1. /\ TypeOK /\ ContextsSpan /\ BlkTypes /\ FileTypes
  BY DEF WriterInv, TypeOK
<1>2. blks[b].open /\ blks[b].kind = "vc" /\ AfterFlush(b)
  BY DEF FlushVc
<1>3. blks[b] \in VcContexts
  BY <1>1, <1>2, ElementOfSeq, TxnContextParts DEF BlkTypes
<1>4. PICK parts \in Seq(VcContexts), id \in Nat :
           /\ Len(file') = Len(file) + Len(parts)
           /\ \A i \in 1..Len(parts) : file'[Len(file) + i] = VcBlocks(parts, id)[i]
           /\ vcEntries' = vcEntries \o VcIndex(parts, Len(file))
           /\ id = IF blks[b].codec = "split" THEN IdOf(strtab', SplitName) ELSE 0
           /\ \E whole \in VcParts(b) :
                /\ whole \in Seq(VcContexts) /\ Encoded(whole, Len(parts))
                /\ \A i \in 1..Len(parts) : parts[i] = whole[i]
  BY <1>1, FlushVcWrites
<1>5. PICK whole \in VcParts(b) :
        /\ whole \in Seq(VcContexts) /\ Encoded(whole, Len(parts))
        /\ \A i \in 1..Len(parts) : parts[i] = whole[i]
  BY <1>4
<1>6. PICK c, k, n, holds : c = blks[b] /\ k = Len(parts) /\ n = Len(file) /\ holds = Holds(c)
  OBVIOUS
<1>7. k \in Nat /\ n \in Nat /\ k \in 0..Len(whole) /\ Len(file') = n + k
  BY <1>1, <1>4, <1>5, <1>6 DEF FileTypes, Encoded
<1>8. Divides(whole, c)
  BY <1>1, <1>2, <1>3, <1>6, VcPartsDivide
<1>9. \A i \in 1..k : /\ i \in 1..Len(whole) /\ IsData(file'[n + i])
                      /\ file'[n + i].recs = Holds(whole[i])
  <2>1. TAKE i \in 1..k
  <2>2. i \in 1..Len(whole)
    BY <1>7
  <2>3. file'[n + i] = VcBlock(whole[i], id)
    BY <1>4, <1>5, <1>6 DEF VcBlocks
  <2>. QED
    BY <2>2, <2>3 DEF VcBlock, IsData, Holds
<1>10. Begins(file, file')
  BY <1>1, FileBegins
<1>11. PICK at : at = [i \in 1..k |-> n + i]
  OBVIOUS
<1>12. DataAt(file, file', k, at)
  <2>1. Len(file) <= n /\ Len(file') = n + k /\ k \in Nat /\ n \in Nat
    BY <1>6, <1>7
  <2>2. \A x \in Len(file) + 1..n : ~IsData(file'[x])
    BY <1>6, <1>7
  <2>3. \A i \in 1..k : IsData(file'[n + i])
    BY <1>9
  <2>4. DataAt(file, file', k, [i \in 1..k |-> n + i])
    BY <1>10, <2>1, <2>2, <2>3, DataInARow
  <2>. QED
    BY <1>11, <2>4
<1>13. PICK l, m : l = Logged(file) /\ m = Logged(file')
  OBVIOUS
<1>14. Extends(l, m, file', k, at)
  BY <1>10, <1>12, <1>13, LogExtends
<1>15. \A i \in 1..k : i \in 1..Len(whole) /\ file'[at[i]].recs = Holds(whole[i])
  BY <1>9, <1>11
<1>16. \A i \in 1..k : file'[at[i]].recs \subseteq holds
  BY <1>6, <1>8, <1>15 DEF Divides
<1>17. \A i, j \in 1..k : i # j => file'[at[i]].recs \cap file'[at[j]].recs = {}
  BY <1>8, <1>15 DEF Divides
<1>18. /\ LoggedParts(holds, l, m)
       /\ (\A r \in holds : \E i \in 1..k : r \in file'[at[i]].recs) => LoggedAll(holds, l, m)
  BY <1>7, <1>14, <1>16, <1>17, LogParts
<1>19. /\ OneChanged(b) /\ Holds(blks'[b]) = Holds(blks[b])
       /\ Status(blks'[b]) \in {"open", IF EncodeFails(c) THEN "refused" ELSE "logged"}
  BY <1>1, <1>2, <1>6, LeftContext
<1>20. CASE EncodeFails(c)
  BY <1>1, <1>2, <1>6, <1>13, <1>18, <1>19, <1>20, StoreFlush
<1>21. CASE ~EncodeFails(c)
  <2>1. k = Len(whole)
    <3>1. CASE k < Len(whole)
      <4>1. k + 1 \in 1..Len(whole) /\ EncodeFails(whole[k + 1])
        BY <1>5, <1>6, <1>7, <3>1 DEF Encoded
      <4>. QED
        BY <1>8, <1>21, <4>1 DEF Divides
    <3>. QED
      BY <1>7, <3>1
  <2>2. \A r \in holds : \E i \in 1..k : r \in file'[at[i]].recs
    BY <1>6, <1>8, <1>15, <2>1 DEF Divides
  <2>3. LoggedAll(holds, l, m)
    BY <1>18, <2>2
  <2>. QED
    BY <1>1, <1>2, <1>6, <1>13, <1>19, <1>21, <2>3, StoreFlush
<1>. QED
  BY <1>20, <1>21

\* A flush of transactions logs what its context holds.
LEMMA PutTxnStores ==
  ASSUME WriterInv, SoleOpen, disk = Unread, UNCHANGED disk, FileTypes', Grows,
         NEW b \in 1..Len(blks), FlushTxn(b), PutTxn(b), ~EncodeFails(blks[txnState])
  PROVE  Store!StoreNext
<1>1. BlkTypes /\ FileTypes
  BY DEF WriterInv, TypeOK
<1>2. blks[b].open /\ blks[b].kind = "txn" /\ AfterFlush(b)
  BY DEF FlushTxn
<1>3. blks[b] \in TxnContexts
  BY <1>1, <1>2, ElementOfSeq, VcContextParts DEF BlkTypes
<1>4. txnState = b
  BY <1>2, <1>3 DEF SoleOpen, TxnContexts
<1>5. PICK n, holds, blk : n = Len(file) /\ holds = blks[b].recs /\ blk = [type |-> "TXN", recs |-> holds]
  OBVIOUS
<1>6. file' = Append(file, blk)
  BY <1>4, <1>5 DEF PutTxn
<1>7. n \in Nat /\ Len(file') = n + 1 /\ file'[n + 1] = blk
  BY <1>1, <1>5, <1>6 DEF FileTypes
<1>8. blk.recs = holds /\ IsData(blk)
  BY <1>5 DEF IsData
<1>9. Holds(blks[b]) = holds
  BY <1>3, <1>5 DEF Holds, TxnContexts
<1>10. Begins(file, file')
  BY <1>1, FileBegins
<1>11. PICK at : at = [i \in 1..1 |-> n + i]
  OBVIOUS
<1>12. DataAt(file, file', 1, at)
  <2>1. Len(file) <= n /\ Len(file') = n + 1 /\ 1 \in Nat
    BY <1>5, <1>7
  <2>2. \A x \in Len(file) + 1..n : ~IsData(file'[x])
    BY <1>5, <1>7
  <2>3. \A i \in 1..1 : IsData(file'[n + i])
    BY <1>7, <1>8
  <2>4. DataAt(file, file', 1, [i \in 1..1 |-> n + i])
    BY <1>7, <1>10, <2>1, <2>2, <2>3, DataInARow
  <2>. QED
    BY <1>11, <2>4
<1>13. PICK l, m : l = Logged(file) /\ m = Logged(file')
  OBVIOUS
<1>14. Extends(l, m, file', 1, at)
  BY <1>10, <1>12, <1>13, LogExtends
<1>15. \A i \in 1..1 : file'[at[i]].recs = holds
  BY <1>7, <1>8, <1>11
<1>16. LoggedAll(holds, l, m)
  <2>1. /\ \A i \in 1..1 : file'[at[i]].recs \subseteq holds
        /\ \A i, j \in 1..1 : i # j => file'[at[i]].recs \cap file'[at[j]].recs = {}
    BY <1>15
  <2>2. \A r \in holds : \E i \in 1..1 : r \in file'[at[i]].recs
    BY <1>15
  <2>. QED
    BY <1>14, <2>1, <2>2, LogParts
<1>17. /\ OneChanged(b) /\ Holds(blks'[b]) = Holds(blks[b])
       /\ Status(blks'[b]) \in {"open", "logged"}
  BY <1>1, <1>2, <1>4, LeftContext
<1>. QED
  BY <1>1, <1>2, <1>9, <1>13, <1>16, <1>17, StoreFlush

\* A flush of transactions that is refused logs nothing.
LEMMA RefusedTxnStores ==
  ASSUME WriterInv, SoleOpen, disk = Unread, UNCHANGED <<disk, file>>,
         NEW b \in 1..Len(blks), FlushTxn(b), EncodeFails(blks[txnState])
  PROVE  Store!StoreNext
<1>1. BlkTypes /\ FileTypes
  BY DEF WriterInv, TypeOK
<1>2. blks[b].open /\ blks[b].kind = "txn" /\ AfterFlush(b)
  BY DEF FlushTxn
<1>3. txnState = b
  <2>1. blks[b] \in TxnContexts
    BY <1>1, <1>2, ElementOfSeq, VcContextParts DEF BlkTypes
  <2>. QED
    BY <1>2, <2>1 DEF SoleOpen, TxnContexts
<1>4. /\ OneChanged(b) /\ Holds(blks'[b]) = Holds(blks[b])
      /\ Status(blks'[b]) \in {"open", "refused"}
  BY <1>1, <1>2, <1>3, LeftContext
<1>5. LoggedParts(Holds(blks[b]), Logged(file), Logged(file'))
  <2>1. PICK l : l = Logged(file)
    OBVIOUS
  <2>2. l = Logged(file')
    BY <2>1
  <2>3. Begins(file, file)
    BY <1>1 DEF Begins, FileTypes
  <2>4. DataAt(file, file, 0, << >>)
    BY <1>1 DEF DataAt, FileTypes
  <2>5. Extends(l, l, file, 0, << >>)
    BY <2>1, <2>3, <2>4, LogExtends
  <2>6. LoggedParts(Holds(blks[b]), l, l)
    <3>1. Len(l) \in Nat
      BY <2>5 DEF Extends
    <3>2. IsPrefix(l, l)
      BY <3>1, PrefixOf
    <3>3. ~\E i : i \in Len(l) + 1..Len(l)
      BY <3>1
    <3>. QED
      BY <3>2, <3>3 DEF LoggedParts
  <2>. QED
    BY <2>1, <2>2, <2>6
<1>. QED
  BY <1>1, <1>2, <1>4, <1>5, StoreFlush

\* Either way it is a step of the store.
LEMMA FlushTxnStores ==
  ASSUME WriterInv, SoleOpen, disk = Unread, UNCHANGED disk, FileTypes', Grows,
         NEW b \in 1..Len(blks), FlushTxn(b)
  PROVE  Store!StoreNext
<1>1. CASE EncodeFails(blks[txnState])
  <2>1. UNCHANGED file
    BY <1>1 DEF FlushTxn
  <2>. QED
    BY <1>1, <2>1, RefusedTxnStores
<1>2. CASE ~EncodeFails(blks[txnState])
  <2>1. PutTxn(b)
    BY <1>2 DEF FlushTxn
  <2>. QED
    BY <1>2, <2>1, PutTxnStores
<1>. QED
  BY <1>1, <1>2

-----------------------------------------------------------------------------
(* Materialized signals *)

\* The block of a materialized signal can be encoded: it starts with the first change,
\* and the changes have different times.
LEMMA MaterializedEncodes ==
  ASSUME TypeOK, NEW e \in DerivedEncs, NEW name \in Names,
         NEW times \in SUBSET Times, AddMaterialized(e, name, times), NEW new, blks' = Append(blks, new)
  PROVE  /\ Status(new) = "logged" /\ Holds(new) = new.recs
         /\ times = {} => new.recs = {}
<1>. DEFINE id    == DerivedBase + derived
            start == IF times = {} THEN 0 ELSE CHOOSE t \in times : \A u \in times : t <= u
            recs  == {[var |-> id, time |-> t, ty |-> e, n |-> t] : t \in times}
            last  == EndTime(start, recs)
            types == SigTypes(varTypes')
<1>1. blks' = Append(blks, [NewVc("core", start) EXCEPT !.recs = recs, !.end = last,
                                                       !.types = types, !.open = FALSE])
  BY DEF AddMaterialized
<1>2. \A t \in times : start <= t
  <2>1. CASE times = {}
    BY <2>1
  <2>2. CASE times # {}
    <3>1. \E t \in times : \A u \in times : t <= u
      BY <2>2, MinExists
    <3>. QED
      BY <2>2, <3>1
  <2>. QED
    BY <2>1, <2>2
<1>2a. times \subseteq Nat
  BY ConstantTypes DEF Times
<1>2b. start \in Nat
  <2>1. CASE times = {}
    BY <2>1
  <2>2. CASE times # {}
    <3>1. \E t \in times : \A u \in times : t <= u
      BY <2>2, MinExists
    <3>. QED
      BY <1>2a, <2>2, <3>1
  <2>. QED
    BY <2>1, <2>2
<1>. HIDE DEF start, last
<1>3. PICK from : from = start
  OBVIOUS
<1>3a. PICK end : end = last
  OBVIOUS
<1>3b. PICK ty : ty = types
  OBVIOUS
<1>4. times = {} => recs = {}
  OBVIOUS
<1>5. \A r \in recs : \E t \in times : r = [var |-> id, time |-> t, ty |-> e, n |-> t]
  OBVIOUS
<1>6. PICK held : held = recs
  OBVIOUS
<1>7. \A r \in held : r.time \in times
  BY <1>5, <1>6
<1>8. \A r, s \in held : r.time = s.time => r = s
  <2>1. TAKE r, s \in held
  <2>2. PICK t \in times : r = [var |-> id, time |-> t, ty |-> e, n |-> t]
    BY <1>5, <1>6
  <2>3. PICK u \in times : s = [var |-> id, time |-> u, ty |-> e, n |-> u]
    BY <1>5, <1>6
  <2>4. r.time = t /\ s.time = u
    BY <2>2, <2>3
  <2>. QED
    BY <2>2, <2>3, <2>4
<1>9. blks' = Append(blks, [NewVc("core", from) EXCEPT !.recs = held, !.end = end,
                                                      !.types = ty, !.open = FALSE])
  BY <1>1, <1>3, <1>3a, <1>3b, <1>6
<1>10. \A r \in held : from <= r.time
  BY <1>2, <1>3, <1>7
<1>11. times = {} => held = {}
  BY <1>4, <1>6
<1>13. from \in Nat
  BY <1>2b, <1>3
<1>. HIDE DEF id, recs, types
<1>14. PICK blk : blk = [NewVc("core", from) EXCEPT !.recs = held, !.end = end, !.types = ty, !.open = FALSE]
  OBVIOUS
<1>15. /\ blk.recs = held /\ blk.init = {} /\ blk.codec = "core" /\ blk.start = from /\ blk.open = FALSE
  BY <1>14 DEF NewVc
<1>16. new = blk
  <2>1. blks \in Seq(VcContexts \cup TxnContexts) /\ blks' = Append(blks, blk)
    BY <1>9, <1>14 DEF TypeOK, BlkTypes
  <2>2. blks'[Len(blks) + 1] = new
    BY DEF TypeOK, BlkTypes
  <2>3. blks'[Len(blks) + 1] = blk
    BY <2>1
  <2>. QED
    BY <2>2, <2>3
<1>17. ~EncodeFails(blk)
  <2>1. ASSUME NEW r \in held PROVE ~(r.time < from)
    <3>1. r.time \in Nat
      BY <1>2a, <1>7
    <3>2. from <= r.time
      BY <1>10
    <3>. QED
      BY <1>13, <3>1, <3>2
  <2>. QED
    BY <1>8, <1>15, <2>1 DEF EncodeFails
<1>18. Status(blk) = "logged"
  BY <1>15, <1>17 DEF Status
<1>19. Holds(blk) = blk.recs
  BY <1>15 DEF Holds
<1>. QED
  BY <1>11, <1>15, <1>16, <1>18, <1>19

\* Its block logs its changes, behind the definition.
LEMMA MaterializedStores ==
  ASSUME WriterInv, disk = Unread, UNCHANGED disk, FileTypes', Grows,
         NEW e \in DerivedEncs, NEW name \in Names, NEW times \in SUBSET Times,
         AddMaterialized(e, name, times)
  PROVE  Store!StoreNext
<1>1. TypeOK /\ BlkTypes /\ FileTypes
  BY DEF WriterInv, TypeOK
<1>2. PICK new, parts :
        /\ blks' = Append(blks, new) /\ Materialized(new, e, times)
        /\ parts = <<new>> \/ (parts = << >> /\ times = {})
        /\ Len(file') = Len(file) + 1 + Len(parts) /\ Len(parts) \in Nat
        /\ file'[Len(file) + 1] = DefinitionBlock(name)
        /\ \A i \in 1..Len(parts) : file'[Len(file) + 1 + i] = VcBlocks(parts, 0)[i]
        /\ vcEntries' = vcEntries \o VcIndex(parts, Len(file) + 1)
  BY <1>1, MaterializedWrites
<1>3. Status(new) = "logged" /\ Holds(new) = new.recs /\ (times = {} => new.recs = {})
  BY <1>1, <1>2, MaterializedEncodes
<1>4. PICK k, n, holds : k = Len(parts) /\ n = Len(file) + 1 /\ holds = Holds(new)
  OBVIOUS
<1>5. k \in Nat /\ n \in Nat /\ Len(file) \in Nat /\ Len(file) <= n /\ Len(file') = n + k
  BY <1>1, <1>2, <1>4 DEF FileTypes
<1>6. \A i \in 1..k : i = 1 /\ parts[i] = new
  BY <1>2, <1>4
<1>7. \A i \in 1..k : IsData(file'[n + i]) /\ file'[n + i].recs = holds
  <2>1. TAKE i \in 1..k
  <2>2. file'[n + i] = VcBlock(new, 0)
    BY <1>2, <1>4, <1>6 DEF VcBlocks
  <2>. QED
    BY <1>4, <2>2 DEF VcBlock, IsData, Holds
<1>8. ~IsData(file'[Len(file) + 1])
  BY <1>2 DEF DefinitionBlock, AuxBlock, IsData
<1>9. Begins(file, file')
  BY <1>1, FileBegins
<1>10. PICK at : at = [i \in 1..k |-> n + i]
  OBVIOUS
<1>11. DataAt(file, file', k, at)
  <2>1. \A x \in Len(file) + 1..n : ~IsData(file'[x])
    BY <1>4, <1>5, <1>8
  <2>2. \A i \in 1..k : IsData(file'[n + i])
    BY <1>7
  <2>3. DataAt(file, file', k, [i \in 1..k |-> n + i])
    BY <1>5, <1>9, <2>1, <2>2, DataInARow
  <2>. QED
    BY <1>10, <2>3
<1>12. PICK l, m : l = Logged(file) /\ m = Logged(file')
  OBVIOUS
<1>13. Extends(l, m, file', k, at)
  BY <1>9, <1>11, <1>12, LogExtends
<1>14. \A i \in 1..k : file'[at[i]].recs = holds
  BY <1>7, <1>10
<1>15. LoggedAll(holds, l, m)
  <2>1. /\ \A i \in 1..k : file'[at[i]].recs \subseteq holds
        /\ \A i, j \in 1..k : i # j => file'[at[i]].recs \cap file'[at[j]].recs = {}
    BY <1>6, <1>14
  <2>2. \A r \in holds : \E i \in 1..k : r \in file'[at[i]].recs
    <3>1. CASE parts = <<new>>
      <4>1. 1 \in 1..k
        BY <1>4, <3>1
      <4>. QED
        BY <1>14, <4>1
    <3>2. CASE times = {}
      BY <1>3, <1>4, <3>2
    <3>. QED
      BY <1>2, <3>1, <3>2
  <2>. QED
    BY <1>5, <1>13, <2>1, <2>2, LogParts
<1>. QED
  BY <1>1, <1>2, <1>3, <1>4, <1>12, <1>15, StoreWrite

-----------------------------------------------------------------------------
(* Every step of the writer is one of the store *)

\* A step that begins no context and lists no data adds no data to the file.
LEMMA QuietStores ==
  ASSUME FileTypes, FileTypes', EntriesListed, EntriesListed', Grows,
         UNCHANGED <<blks, vcEntries, txnEntries, disk>>
  PROVE  UNCHANGED Store!storeVars
<1>1. Begins(file, file')
  BY FileBegins
<1>2. ASSUME NEW offs, NEW type, NEW n \in Len(file) + 1..Len(file'),
             Lists(offs, file, type), Lists(offs, file', type), file'[n].type = type
      PROVE  FALSE
  <2>1. Len(file) \in Nat /\ Len(file') \in Nat
    BY DEF FileTypes
  <2>2. n \in 1..Len(file') /\ n \notin 1..Len(file)
    BY <2>1
  <2>3. PICK i \in 1..Len(offs) : offs[i] = n
    BY <1>2, <2>2 DEF Lists
  <2>4. offs[i] \in 1..Len(file)
    BY <1>2 DEF Lists
  <2>. QED
    BY <2>2, <2>3, <2>4
<1>3. PICK vc, txn : vc = Offsets(vcEntries) /\ txn = Offsets(txnEntries)
  OBVIOUS
<1>4. vc = Offsets(vcEntries)' /\ txn = Offsets(txnEntries)'
  BY <1>3 DEF Offsets
<1>5. Lists(vc, file, "VC") /\ Lists(txn, file, "TXN")
  BY <1>3 DEF EntriesListed
<1>6. Lists(vc, file', "VC") /\ Lists(txn, file', "TXN")
  BY <1>4 DEF EntriesListed, Lists
<1>7. \A n \in Len(file) + 1..Len(file') : ~IsData(file'[n])
  BY <1>2, <1>5, <1>6 DEF IsData
<1>8. Logged(file') = Logged(file)
  BY <1>1, <1>7, LogKept
<1>. QED
  BY <1>8, StoreStutter

\* A call that fills a context.
LEMMA FilledStores ==
  ASSUME BlkTypes, NEW b \in 1..Len(blks), Filled(b), UNCHANGED <<file, disk>>, disk = Unread
  PROVE  Store!StoreNext
<1>1. PICK recs, init, end :
        blks' = [blks EXCEPT ![b] = [blks[b] EXCEPT !.recs = recs, !.init = init, !.end = end]]
  BY DEF Filled
<1>2. blks[b] \in VcContexts \cup TxnContexts /\ b \in DOMAIN blks
  BY ElementOfSeq DEF BlkTypes
<1>3. PICK new : new = [blks[b] EXCEPT !.recs = recs, !.init = init, !.end = end]
  OBVIOUS
<1>4. new.open = blks[b].open
  BY <1>2, <1>3 DEF VcContexts, TxnContexts
<1>5. OneChanged(b) /\ blks'[b] = new
  BY <1>1, <1>2, <1>3 DEF OneChanged, BlkTypes
<1>. QED
  BY <1>4, <1>5, StoreRecord DEF Filled

\* The calls on value-change contexts.
LEMMA ChangesStore ==
  ASSUME WriterInv, SoleOpen, disk = Unread, UNCHANGED disk, FileTypes', Grows, RecordChanges
  PROVE  Store!StoreNext
<1>0. BlkTypes
  BY DEF WriterInv, TypeOK
<1>1. ASSUME NEW c \in Codecs, NEW t \in Times, BeginVc(c, t) PROVE Store!StoreNext
  <2>1. PICK new : new = NewVc(c, t)
    OBVIOUS
  <2>2. Holds(new) = {} /\ new.open
    BY <2>1 DEF NewVc, Holds
  <2>3. blks' = Append(blks, new) /\ UNCHANGED file
    BY <1>1, <2>1 DEF BeginVc, fileVars
  <2>. QED
    BY <1>0, <2>2, <2>3, StoreBegin
<1>2. ASSUME NEW b \in 1..Len(blks), NEW h \in 1..Len(hiers), NEW k \in 1..MaxVars,
             (\E t \in Times : AddChange(b, h, k, t)) \/ SetInitial(b, h, k)
      PROVE  Store!StoreNext
  <2>1. UNCHANGED file
    BY <1>2 DEF AddChange, SetInitial, fileVars
  <2>2. Filled(b)
    BY <1>0, <1>2, RecordFills
  <2>. QED
    BY <1>0, <2>1, <2>2, FilledStores
<1>3. ASSUME NEW b \in 1..Len(blks), FlushVc(b) PROVE Store!StoreNext
  BY <1>3, FlushVcStores
<1>. QED
  BY <1>1, <1>2, <1>3 DEF RecordChanges

\* The calls on transaction contexts.
LEMMA TxnsStore ==
  ASSUME WriterInv, SoleOpen, disk = Unread, UNCHANGED disk, FileTypes', Grows, RecordTxns
  PROVE  Store!StoreNext
<1>0. BlkTypes
  BY DEF WriterInv, TypeOK
<1>1. ASSUME NEW sid \in BlockStreams, NEW t \in Times, BeginTxn(sid, t) PROVE Store!StoreNext
  <2>1. PICK new : new = NewTxn(sid, t)
    OBVIOUS
  <2>2. Holds(new) = {} /\ new.open
    BY <2>1 DEF NewTxn, Holds
  <2>3. blks' = Append(blks, new) /\ UNCHANGED file
    BY <1>1, <2>1 DEF BeginTxn, fileVars
  <2>. QED
    BY <1>0, <2>2, <2>3, StoreBegin
<1>2. ASSUME NEW b \in 1..Len(blks), NEW i \in TxnIds,
             \/ \E sid \in Streams, t, u \in Times : WriteFull(b, sid, i, t, u)
             \/ \E sid \in Streams, t \in Times : WriteBegin(b, sid, i, t)
             \/ \E t \in Times : WriteEnd(b, i, t)
             \/ WriteNote(b, i)
             \/ \E s, v \in Names : WriteMeta(b, i, s, v)
      PROVE  Store!StoreNext
  <2>1. \E rec, until : AddRecord(b, rec, until)
    BY <1>2, Zenon DEF WriteFull, WriteBegin, WriteEnd, WriteNote, WriteMeta
  <2>2. UNCHANGED file
    BY <2>1 DEF AddRecord, fileVars
  <2>3. Filled(b)
    BY <1>0, <1>2, TxnCallsFill
  <2>. QED
    BY <1>0, <2>2, <2>3, FilledStores
<1>3. ASSUME NEW b \in 1..Len(blks), FlushTxn(b) PROVE Store!StoreNext
  BY <1>3, FlushTxnStores
<1>. QED
  BY <1>1, <1>2, <1>3 DEF RecordTxns

\* The other calls, of which only a materialized signal is known to the store.
LEMMA OthersStore ==
  ASSUME TraceInv, TraceInv', disk = Unread, UNCHANGED disk, Grows, RecordOther
  PROVE  [Store!StoreNext]_(Store!storeVars)
<1>0. /\ WriterInv /\ EntriesListed /\ EntriesListed' /\ FileTypes /\ FileTypes'
  BY DEF TraceInv, WriterInv, TypeOK
<1>1. ASSUME NEW e \in DerivedEncs, NEW s \in Names, NEW times \in SUBSET Times,
             AddMaterialized(e, s, times)
      PROVE  Store!StoreNext
  BY <1>0, <1>1, MaterializedStores
<1>2. ASSUME UNCHANGED <<blks, vcEntries, txnEntries>> PROVE UNCHANGED Store!storeVars
  BY <1>0, <1>2, QuietStores
<1>3. (\E k \in AuxKeys : WriteAux(k)) => UNCHANGED <<blks, vcEntries, txnEntries>>
  BY DEF WriteAux, blkVars
<1>4. WriteExt => UNCHANGED <<blks, vcEntries, txnEntries>>
  BY DEF WriteExt, blkVars
<1>5. (\E e \in DerivedEncs, s \in Names : AddDerived(e, s)) => UNCHANGED <<blks, vcEntries, txnEntries>>
  BY DEF AddDerived, DeclareDerived
<1>6. RefuseDerived => UNCHANGED <<blks, vcEntries, txnEntries>>
  BY DEF RefuseDerived, blkVars
<1>. QED
  BY <1>1, <1>2, <1>3, <1>4, <1>5, <1>6 DEF RecordOther

\* The declarations, the close and no step at all.
LEMMA RestAlone ==
  ASSUME Declare \/ Close \/ PatchHeader \/ Release \/ UNCHANGED vars
  PROVE  UNCHANGED <<blks, vcEntries, txnEntries>>
<1>1. UNCHANGED vcEntries
  <2>1. CASE Declare
    BY <2>1 DEF Declare, InternString, AddTxnSchema, AddStreamType, AddSignalType, AddTraceMetadata,
                BeginHierarchy, BeginScope, EndScope, AddVar, FlushHierarchy, FlushStringTable,
                FlushTypeRegistry
  <2>. QED
    BY <2>1 DEF Close, PatchHeader, Release, vars
<1>2. UNCHANGED <<blkVars, txnEntries>>
  BY ContextsAlone
<1>. QED
  BY <1>1, <1>2 DEF blkVars

LEMMA StoreStep ==
  ASSUME MaxOpen <= 1, StreamInv, [TraceNext]_traceVars
  PROVE  [Store!StoreNext]_(Store!storeVars)
<1>1. TraceInv /\ WriterInv /\ SoleOpen /\ [Next]_vars
  BY DEF TraceNext, Write, End, traceVars, StreamInv, TraceInv
<1>2. TraceInv' /\ Grows
  BY <1>1, TraceInductive, Inductive
<1>3. FileTypes /\ FileTypes' /\ EntriesListed /\ EntriesListed'
  BY <1>1, <1>2 DEF TraceInv, WriterInv, TypeOK
<1>4. CASE End
  BY <1>1, <1>4, StoreEnds
<1>5. CASE UNCHANGED disk /\ (Declare \/ Close \/ PatchHeader \/ Release \/ UNCHANGED vars)
  <2>1. UNCHANGED <<blks, vcEntries, txnEntries>>
    BY <1>5, RestAlone
  <2>. QED
    BY <1>2, <1>3, <1>5, <2>1, QuietStores
<1>6. CASE disk = Unread /\ UNCHANGED disk /\ (RecordChanges \/ RecordTxns \/ RecordOther)
  BY <1>1, <1>2, <1>3, <1>6, ChangesStore, TxnsStore, OthersStore
<1>. QED
  BY <1>4, <1>5, <1>6 DEF TraceNext, Write, Next, Client, traceVars

\* Each context's records are in the file once, in the order of the flushes, and what
\* the end of the run leaves is a prefix of that, in every program that keeps no two
\* blocks of a codec open (new_block of codec.py replaces the one the codec's state
\* holds, and a flush encodes that one).
THEOREM StoreImplemented ==
  ASSUME MaxOpen <= 1
  PROVE  TraceSpec => ImplementsStore
<1>1. StreamInv /\ [TraceNext]_traceVars => StreamInv'
  BY StreamInductive
<1>2. StreamInv /\ [TraceNext]_traceVars => [Store!StoreNext]_(Store!storeVars)
  BY StoreStep
<1>. QED
  BY <1>1, <1>2, StreamInit, StoreStart, PTL DEF TraceSpec, ImplementsStore, Store!StoreSpec
===============================================================================
