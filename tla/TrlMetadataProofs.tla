--------------------------- MODULE TrlMetadataProofs ---------------------------
(***************************************************************************)
(* Proofs about the metadata a reader finds in the file: the strings, the   *)
(* trace attributes, the hierarchies and the types of the variables.        *)
(***************************************************************************)
EXTENDS TrlTraceProofs

-----------------------------------------------------------------------------
(* Strings, types and metadata without flushes in mid-trace *)

\* A bound of no flushes rules them out.
LEMMA NoFlush ==
  ASSUME FileTypes, MaxFlushes = 0, FlushStringTable \/ FlushTypeRegistry
  PROVE  FALSE
<1>1. Len(file) \in Nat /\ IsFiniteSet(1..Len(file))
  BY FS_Interval DEF FileTypes
<1>2. Cardinality(Written({"STR", "TYPE"})) \in Nat
  BY <1>1, FS_Subset, FS_CardinalityType DEF Written
<1>. QED
  BY <1>2 DEF FlushStringTable, FlushTypeRegistry

\* The blocks that a client's call writes are of data or of hierarchies.
LEMMA ClientWrites ==
  ASSUME WriterInv, MaxFlushes = 0, phase = "open", Client
  PROVE  \A n \in Len(file) + 1..Len(file') : file'[n].type \in {"HIER", "VC", "TXN", "AUX", "EXT"}
<1>1. file \in Seq(Blocks) /\ Len(file) \in Nat /\ TypeOK /\ FileTypes
  BY DEF WriterInv, TypeOK, FileTypes
<1>2. ASSUME UNCHANGED file
      PROVE  \A n \in Len(file) + 1..Len(file') : FALSE
  BY <1>1, <1>2
<1>3. ASSUME NEW blk, file' = Append(file, blk), blk.type \in {"HIER", "TXN", "AUX", "EXT"}
      PROVE  \A n \in Len(file) + 1..Len(file') : file'[n].type \in {"HIER", "VC", "TXN", "AUX", "EXT"}
  <2>1. Len(file') = Len(file) + 1 /\ file'[Len(file) + 1] = blk
    BY <1>1, <1>3
  <2>2. \A n \in Len(file) + 1..Len(file') : n = Len(file) + 1
    BY <1>1, <2>1
  <2>. QED
    BY <1>3, <2>1, <2>2
<1>4. ASSUME NEW off \in Nat, NEW m \in Nat, NEW parts, NEW id, Len(file') = off + m,
             \A i \in 1..m : file'[off + i] = VcBlocks(parts, id)[i], Len(parts) = m
      PROVE  \A n \in off + 1..Len(file') : file'[n].type = "VC"
  <2>1. TAKE n \in off + 1..Len(file')
  <2>2. n - off \in 1..m /\ off + (n - off) = n
    BY <1>4
  <2>3. VcBlocks(parts, id)[n - off].type = "VC"
    BY <1>4, <2>2 DEF VcBlocks, VcBlock
  <2>. QED
    BY <1>4, <2>2, <2>3
<1>5. CASE Declare
  <2>1. \A h \in 1..Len(hiers) : FlushHierarchy(h) => \E blk : file' = Append(file, blk) /\ blk.type = "HIER"
    BY DEF FlushHierarchy
  <2>2. \/ UNCHANGED file
        \/ FlushStringTable \/ FlushTypeRegistry
        \/ \E h \in 1..Len(hiers) : FlushHierarchy(h)
    BY <1>5 DEF Declare, InternString, AddTxnSchema, AddStreamType, AddSignalType, AddTraceMetadata,
                BeginHierarchy, BeginScope, EndScope, AddVar, fileVars
  <2>. QED
    BY <1>1, <1>2, <1>3, <2>1, <2>2, NoFlush
<1>6. CASE RecordChanges
  <2>1. ASSUME NEW b \in 1..Len(blks), FlushVc(b)
        PROVE  \A n \in Len(file) + 1..Len(file') : file'[n].type \in {"HIER", "VC", "TXN", "AUX", "EXT"}
    <3>1. PICK parts \in Seq(VcContexts), id \in Nat :
            /\ Len(file') = Len(file) + Len(parts)
            /\ \A i \in 1..Len(parts) : file'[Len(file) + i] = VcBlocks(parts, id)[i]
      BY <1>1, <2>1, FlushVcWrites DEF WriterInv
    <3>2. Len(parts) \in Nat
      OBVIOUS
    <3>. QED
      BY <1>1, <1>4, <3>1, <3>2
  <2>2. (\E b \in 1..Len(blks) : FlushVc(b)) \/ UNCHANGED file
    <3>1. \A c, t : BeginVc(c, t) => UNCHANGED file
      BY DEF BeginVc, fileVars
    <3>2. \A b, h, k, t : AddChange(b, h, k, t) => UNCHANGED file
      BY DEF AddChange, fileVars
    <3>3. \A b, h, k : SetInitial(b, h, k) => UNCHANGED file
      BY DEF SetInitial, fileVars
    <3>. QED
      BY <1>6, <3>1, <3>2, <3>3 DEF RecordChanges
  <2>. QED
    BY <1>2, <2>1, <2>2
<1>7. CASE RecordTxns
  <2>1. \A b \in 1..Len(blks) : FlushTxn(b) =>
          UNCHANGED file \/ \E blk : file' = Append(file, blk) /\ blk.type = "TXN"
    BY DEF FlushTxn, PutTxn
  <2>2. (\E b \in 1..Len(blks) : FlushTxn(b)) \/ UNCHANGED file
    <3>1. \A sid, t : BeginTxn(sid, t) => UNCHANGED file
      BY DEF BeginTxn, fileVars
    <3>2. \A b, rec, until : AddRecord(b, rec, until) => UNCHANGED file
      BY DEF AddRecord, fileVars
    <3>3. /\ \A b, sid, i, t, u : WriteFull(b, sid, i, t, u) => UNCHANGED file
          /\ \A b, sid, i, t : WriteBegin(b, sid, i, t) => UNCHANGED file
          /\ \A b, i, t : WriteEnd(b, i, t) => UNCHANGED file
          /\ \A b, i : WriteNote(b, i) => UNCHANGED file
          /\ \A b, i, s, v : WriteMeta(b, i, s, v) => UNCHANGED file
      BY <3>2 DEF WriteFull, WriteBegin, WriteEnd, WriteNote, WriteMeta
    <3>. QED
      BY <1>7, <3>1, <3>3 DEF RecordTxns
  <2>. QED
    BY <1>2, <1>3, <2>1, <2>2
<1>8. CASE RecordOther
  <2>1. \A key, strs : AuxBlock(key, strs).type = "AUX"
    BY DEF AuxBlock
  <2>2. ASSUME NEW key \in AuxKeys, WriteAux(key) PROVE \E blk : file' = Append(file, blk) /\ blk.type = "AUX"
    BY <2>1, <2>2 DEF WriteAux
  <2>3. WriteExt => \E blk : file' = Append(file, blk) /\ blk.type = "EXT"
    BY DEF WriteExt
  <2>4. \A e \in DerivedEncs, s \in Names : AddDerived(e, s) => \E blk : file' = Append(file, blk) /\ blk.type = "AUX"
    BY <2>1 DEF AddDerived, DefinitionBlock
  <2>5. ASSUME NEW e \in DerivedEncs, NEW s \in Names, NEW times \in SUBSET Times, AddMaterialized(e, s, times)
        PROVE  \A n \in Len(file) + 1..Len(file') : file'[n].type \in {"HIER", "VC", "TXN", "AUX", "EXT"}
    <3>1. PICK blk, parts :
            /\ Len(file') = Len(file) + 1 + Len(parts) /\ Len(parts) \in Nat
            /\ file'[Len(file) + 1] = DefinitionBlock(s)
            /\ \A i \in 1..Len(parts) : file'[Len(file) + 1 + i] = VcBlocks(parts, 0)[i]
      BY <1>1, <2>5, MaterializedWrites
    <3>2. \A n \in Len(file) + 1 + 1..Len(file') : file'[n].type = "VC"
      <4>1. PICK off : off = Len(file) + 1
        OBVIOUS
      <4>2. off \in Nat /\ Len(file') = off + Len(parts)
            /\ \A i \in 1..Len(parts) : file'[off + i] = VcBlocks(parts, 0)[i]
        BY <1>1, <3>1, <4>1
      <4>3. \A n \in off + 1..Len(file') : file'[n].type = "VC"
        BY <1>4, <3>1, <4>2
      <4>. QED
        BY <4>1, <4>3
    <3>3. \A n \in Len(file) + 1..Len(file') : n = Len(file) + 1 \/ n \in Len(file) + 1 + 1..Len(file')
      BY <1>1, <3>1
    <3>4. file'[Len(file) + 1].type = "AUX"
      BY <2>1, <3>1 DEF DefinitionBlock
    <3>. QED
      BY <3>2, <3>3, <3>4
  <2>6. RefuseDerived => UNCHANGED file
    BY DEF RefuseDerived, fileVars
  <2>. QED
    BY <1>2, <1>3, <1>8, <2>2, <2>3, <2>4, <2>5, <2>6 DEF RecordOther
<1>. QED
  BY <1>5, <1>6, <1>7, <1>8 DEF Client

\* Metadata is written by the close and by nothing else.
LEMMA MetadataStep ==
  ASSUME MaxFlushes = 0, WriterInv, Grows, MetadataOnce, [Next]_vars
  PROVE  MetadataOnce'
<1>1. file \in Seq(Blocks) /\ Len(file) \in Nat /\ TypeOK /\ FileTypes
      /\ phase \in {"open", "closing", "patched", "done"}
  BY DEF WriterInv, TypeOK, FileTypes
<1>2. CASE Client
  <2>1. phase = "open" /\ Len(file') \in Nat
    <3>1. FileTypes'
      BY <1>2, DeclareStep, ChangesStep, TxnsStep, OtherStep DEF Client, WriterInv, TypeOK
    <3>. QED
      BY <1>2, <3>1 DEF Client, FileTypes
  <2>2. \A n \in Len(file) + 1..Len(file') : file'[n].type \in {"HIER", "VC", "TXN", "AUX", "EXT"}
    BY <1>2, <2>1, ClientWrites
  <2>3. \A n \in 1..Len(file) : file'[n] = file[n] /\ file[n].type \notin {"STR", "TYPE", "META"}
    BY <2>1 DEF MetadataOnce, Grows
  <2>4. \A n \in 1..Len(file') : file'[n].type \notin {"STR", "TYPE", "META"}
    <3>1. \A n \in 1..Len(file') : n \in 1..Len(file) \/ n \in Len(file) + 1..Len(file')
      BY <1>1, <2>1
    <3>. QED
      BY <2>2, <2>3, <3>1
  <2>. QED
    BY <2>4 DEF MetadataOnce
<1>3. CASE Close
  <2>1. PICK off, index :
          /\ off \in Nat /\ off = IF meta = << >> THEN Len(file) ELSE Len(file) + 1
          /\ Len(file') = off + 3 /\ Len(file) \in Nat
          /\ file'[off + 1] = [type |-> "STR", strings |-> strtab]
          /\ file'[off + 2] = [type |-> "TYPE", reg |-> typereg]
          /\ file'[off + 3] = index
          /\ index.type = "INDEX" /\ index.strtab = off + 1 /\ index.typereg = off + 2
          /\ index.meta = IF meta = << >> THEN 0 ELSE Len(file) + 1
          /\ meta # << >> => file'[Len(file) + 1] = [type |-> "META", attrs |-> meta]
    BY <1>1, <1>3, CloseWrites
  <2>2. phase = "open" /\ phase' = "closing"
    BY <1>3 DEF Close
  <2>3. \A n \in 1..Len(file) : file'[n].type \notin {"STR", "TYPE", "META"}
    BY <2>2 DEF MetadataOnce, Grows
  <2>4. \A n \in 1..Len(file') : \/ n \in 1..Len(file) \/ n = off + 1 \/ n = off + 2 \/ n = off + 3
                                 \/ (meta # << >> /\ n = Len(file) + 1)
    BY <2>1
  <2>5. file'[off + 1].type = "STR" /\ file'[off + 2].type = "TYPE" /\ file'[off + 3].type = "INDEX"
        /\ (meta # << >> => file'[Len(file) + 1].type = "META")
    BY <2>1
  <2>6. file'[Len(file')] = index
    BY <2>1
  <2>7. ASSUME NEW n \in 1..Len(file')
        PROVE  /\ file'[n].type = "STR"  => n = off + 1
               /\ file'[n].type = "TYPE" => n = off + 2
               /\ file'[n].type = "META" => meta # << >> /\ n = Len(file) + 1
    <3>1. n \in 1..Len(file) => file'[n].type \notin {"STR", "TYPE", "META"}
      BY <2>3
    <3>. QED
      BY <2>4, <2>5, <3>1
  <2>. QED
    BY <2>1, <2>2, <2>6, <2>7 DEF MetadataOnce
<1>4. CASE PatchHeader \/ Release \/ UNCHANGED vars
  <2>1. UNCHANGED file /\ (phase # "open" => phase' # "open")
    BY <1>4 DEF PatchHeader, Release, vars, fileVars
  <2>. QED
    BY <2>1 DEF MetadataOnce
<1>. QED
  BY <1>2, <1>3, <1>4 DEF Next

-----------------------------------------------------------------------------
(* String ids *)

\* What the steps of this section start from: a well-typed state in which every id is
\* interned, and a step that keeps the file and the ids.
IdsMove == TypeOK /\ TypeOK' /\ IdsKept /\ Grows /\ IdsInterned

\* An id once interned stays interned.
LEMMA StillInterned ==
  ASSUME IdsMove, NEW ids, Interned(ids)
  PROVE  ids \subseteq 1..Len(strtab')
<1>1. Len(strtab) \in Nat /\ Len(strtab') \in Nat /\ Len(strtab) <= Len(strtab')
  BY DEF IdsMove, TypeOK, MetaTypes, IdsKept
<1>. QED
  BY <1>1 DEF Interned

\* What a step leaves alone keeps its ids.
LEMMA PartsKept ==
  ASSUME IdsMove
  PROVE  /\ UNCHANGED file => IdsOnFile'
         /\ UNCHANGED hiers => IdsOfHierarchies'
         /\ UNCHANGED blks => IdsOfContexts'
         /\ UNCHANGED typereg => IdsOfTypes'
         /\ UNCHANGED meta => IdsOfMeta'
<1>1. IdsOnFile /\ IdsOfHierarchies /\ IdsOfContexts /\ IdsOfTypes /\ IdsOfMeta
  BY DEF IdsMove, IdsInterned
<1>2. \A ids : Interned(ids) => ids \subseteq 1..Len(strtab')
  BY StillInterned
<1>3. UNCHANGED file => IdsOnFile'
  BY <1>1, <1>2 DEF IdsOnFile, Interned, StringIds
<1>4. UNCHANGED hiers => IdsOfHierarchies'
  BY <1>1, <1>2 DEF IdsOfHierarchies, Interned
<1>5. UNCHANGED blks => IdsOfContexts'
  BY <1>1, <1>2 DEF IdsOfContexts, Interned
<1>6. UNCHANGED typereg => IdsOfTypes'
  BY <1>1, <1>2 DEF IdsOfTypes, Interned
<1>7. UNCHANGED meta => IdsOfMeta'
  BY <1>1, <1>2 DEF IdsOfMeta, Interned
<1>. QED
  BY <1>3, <1>4, <1>5, <1>6, <1>7

\* Blocks written at the end, with ids that are interned by then.
LEMMA WrittenInterned ==
  ASSUME IdsMove, \A n \in Len(file) + 1..Len(file') : StringIds(file'[n]) \subseteq 1..Len(strtab')
  PROVE  IdsOnFile'
<1>1. IdsOnFile /\ Len(file) \in Nat /\ Len(file') \in Nat
  BY DEF IdsMove, IdsInterned, TypeOK, FileTypes
<1>2. \A n \in 1..Len(file) : file'[n] = file[n]
  BY DEF IdsMove, Grows
<1>3. \A n \in 1..Len(file) : StringIds(file[n]) \subseteq 1..Len(strtab')
  BY <1>1, StillInterned DEF IdsOnFile
<1>4. \A n \in 1..Len(file') : n \in 1..Len(file) \/ n \in Len(file) + 1..Len(file')
  BY <1>1
<1>5. \A n \in 1..Len(file') : StringIds(file'[n]) \subseteq 1..Len(strtab')
  BY <1>2, <1>3, <1>4
<1>6. (\A n \in 1..Len(file') : StringIds(file'[n]) \subseteq 1..Len(strtab')) => IdsOnFile'
  BY DEF IdsOnFile, Interned, StringIds
<1>. QED
  BY <1>5, <1>6

\* One block written.
LEMMA OneInterned ==
  ASSUME IdsMove, NEW blk, file' = Append(file, blk), StringIds(blk) \subseteq 1..Len(strtab')
  PROVE  IdsOnFile'
<1>1. file \in Seq(Blocks) /\ Len(file) \in Nat
  BY DEF IdsMove, TypeOK, FileTypes
<1>2. file'[Len(file) + 1] = blk /\ \A n \in Len(file) + 1..Len(file') : n = Len(file) + 1
  BY <1>1
<1>. QED
  BY <1>2, WrittenInterned

\* A hierarchy changed in its place.
LEMMA HierarchyInterned ==
  ASSUME IdsMove, NEW h \in 1..Len(hiers), NEW new, hiers' = [hiers EXCEPT ![h] = new],
         new.strs \subseteq 1..Len(strtab')
  PROVE  IdsOfHierarchies'
<1>1. Len(hiers') = Len(hiers) /\ \A g \in 1..Len(hiers) : hiers'[g] = IF g = h THEN new ELSE hiers[g]
  BY DEF IdsMove, TypeOK, HierTypes
<1>2. \A g \in 1..Len(hiers) : hiers[g].strs \subseteq 1..Len(strtab')
  BY StillInterned DEF IdsMove, IdsInterned, IdsOfHierarchies
<1>. QED
  BY <1>1, <1>2 DEF IdsOfHierarchies, Interned

\* A context changed in its place: records it had, and records with interned ids.
LEMMA ContextInterned ==
  ASSUME IdsMove, NEW b \in 1..Len(blks), NEW new, blks' = [blks EXCEPT ![b] = new],
         new.kind = "txn" =>
           /\ blks[b].kind = "txn"
           /\ \A r \in new.recs : r \in blks[b].recs \/ ToSet(r.strs) \subseteq 1..Len(strtab')
  PROVE  IdsOfContexts'
<1>1. Len(blks') = Len(blks) /\ \A c \in 1..Len(blks) : blks'[c] = IF c = b THEN new ELSE blks[c]
  BY DEF IdsMove, TypeOK, BlkTypes
<1>2. \A c \in 1..Len(blks) : blks[c].kind = "txn" => \A r \in blks[c].recs : ToSet(r.strs) \subseteq 1..Len(strtab')
  BY StillInterned DEF IdsMove, IdsInterned, IdsOfContexts
<1>. QED
  BY <1>1, <1>2 DEF IdsOfContexts, Interned

\* A context begun, of changes or without records.
LEMMA BegunInterned ==
  ASSUME IdsMove, NEW new, blks' = Append(blks, new), new.kind = "vc" \/ new.recs = {}
  PROVE  IdsOfContexts'
<1>1. /\ Len(blks) \in Nat /\ Len(blks') = Len(blks) + 1 /\ blks'[Len(blks) + 1] = new
      /\ \A b \in 1..Len(blks) : blks'[b] = blks[b]
  BY DEF IdsMove, TypeOK, BlkTypes
<1>2. \A b \in 1..Len(blks') : b \in 1..Len(blks) \/ b = Len(blks) + 1
  BY <1>1
<1>3. \A c \in 1..Len(blks) : blks[c].kind = "txn" => \A r \in blks[c].recs : ToSet(r.strs) \subseteq 1..Len(strtab')
  BY StillInterned DEF IdsMove, IdsInterned, IdsOfContexts
<1>. QED
  BY <1>1, <1>2, <1>3 DEF IdsOfContexts, Interned

\* The ids that blocks of each type hold.
LEMMA IdsByType ==
  ASSUME NEW blk
  PROVE  /\ blk.type \in {"STR", "EXT", "INDEX"} => StringIds(blk) = {}
         /\ blk.type = "HIER" => StringIds(blk) = blk.strs
         /\ blk.type = "AUX" => StringIds(blk) = ToSet(blk.strs)
         /\ blk.type = "TXN" => StringIds(blk) = UNION {ToSet(r.strs) : r \in blk.recs}
         /\ blk.type = "META" => StringIds(blk) = UNION {{a.key, a.value} : a \in ToSet(blk.attrs)}
         /\ blk.type = "TYPE" => StringIds(blk) = ToSet(blk.reg.schemas) \cup ToSet(blk.reg.streams)
         /\ blk.type = "VC" => StringIds(blk) = {blk.codec} \ {0}
BY DEF StringIds

\* The ids in a list after one more.
LEMMA ListedIds ==
  ASSUME NEW list \in Seq(Nat), NEW id, NEW S, ToSet(list) \subseteq S, id \in S
  PROVE  ToSet(Append(list, id)) \subseteq S
<1>1. Len(list) \in Nat /\ DOMAIN list = 1..Len(list)
  OBVIOUS
<1>2. PICK more : more = Append(list, id)
  OBVIOUS
<1>3. DOMAIN more = 1..Len(list) + 1 /\ more[Len(list) + 1] = id /\ \A i \in 1..Len(list) : more[i] = list[i]
  BY <1>1, <1>2
<1>4. \A i \in 1..Len(list) : list[i] \in S
  BY <1>1 DEF ToSet
<1>5. \A i \in 1..Len(list) + 1 : i \in 1..Len(list) \/ i = Len(list) + 1
  BY <1>1
<1>. QED
  BY <1>2, <1>3, <1>4, <1>5 DEF ToSet

\* The registry refers to strings that its calls intern.
LEMMA TypesInterned ==
  ASSUME IdsMove, NEW name \in Names, AddTxnSchema(name) \/ AddStreamType(name)
  PROVE  IdsInterned'
<1>1. strtab \in Seq(Strings) /\ name \in Strings /\ typereg \in Registry
  BY ConstantTypes DEF IdsMove, TypeOK, MetaTypes, HierTypes
<1>2. strtab' = Intern(strtab, name) /\ UNCHANGED <<file, meta, hiers, blks>>
  BY DEF AddTxnSchema, AddStreamType, fileVars, hierVars, blkVars
<1>3. PICK id \in 1..Len(strtab') : id = IdOf(strtab', name)
  BY <1>1, <1>2, InternProperties
<1>4. typereg.schemas \in Seq(Nat) /\ typereg.streams \in Seq(Nat)
      /\ typereg = [sigs |-> typereg.sigs, schemas |-> typereg.schemas, streams |-> typereg.streams]
  BY <1>1 DEF Registry
<1>5. Interned(ToSet(typereg.schemas)) /\ Interned(ToSet(typereg.streams))
  BY DEF IdsMove, IdsInterned, IdsOfTypes
<1>6. ToSet(typereg.schemas) \subseteq 1..Len(strtab') /\ ToSet(typereg.streams) \subseteq 1..Len(strtab')
  BY <1>5, StillInterned
<1>7. ToSet(Append(typereg.schemas, id)) \subseteq 1..Len(strtab')
  BY <1>4, <1>6, ListedIds
<1>8. ToSet(Append(typereg.streams, id)) \subseteq 1..Len(strtab')
  BY <1>4, <1>6, ListedIds
<1>9. IdsOfTypes'
  <2>1. CASE AddTxnSchema(name)
    <3>1. typereg' = [typereg EXCEPT !.schemas = Append(@, id)]
      BY <1>3, <2>1 DEF AddTxnSchema
    <3>2. typereg'.schemas = Append(typereg.schemas, id) /\ typereg'.streams = typereg.streams
      BY <1>4, <3>1
    <3>. QED
      BY <1>6, <1>7, <3>2 DEF IdsOfTypes, Interned
  <2>2. CASE AddStreamType(name)
    <3>1. typereg' = [typereg EXCEPT !.streams = Append(@, id)]
      BY <1>3, <2>2 DEF AddStreamType
    <3>2. typereg'.streams = Append(typereg.streams, id) /\ typereg'.schemas = typereg.schemas
      BY <1>4, <3>1
    <3>. QED
      BY <1>6, <1>8, <3>2 DEF IdsOfTypes, Interned
  <2>. QED
    BY <2>1, <2>2
<1>. QED
  BY <1>2, <1>9, PartsKept DEF IdsInterned

\* So do the trace attributes.
LEMMA MetaInterned ==
  ASSUME IdsMove, NEW s \in Names, NEW v \in Names, AddTraceMetadata(s, v)
  PROVE  IdsInterned'
<1>1. strtab \in Seq(Strings) /\ s \in Strings /\ v \in Strings /\ meta \in Seq(Attrs)
  BY ConstantTypes DEF IdsMove, TypeOK, MetaTypes
<1>2. strtab' = Intern(Intern(strtab, s), v) /\ UNCHANGED <<file, typereg, hiers, blks>>
  BY DEF AddTraceMetadata, fileVars, hierVars, blkVars
<1>3. PICK key, value \in 1..Len(strtab') : key = IdOf(strtab', s) /\ value = IdOf(strtab', v)
  BY <1>1, <1>2, InternTwo
<1>4. PICK new : new = [key |-> key, value |-> value]
  OBVIOUS
<1>5. meta' = Append(meta, new)
  BY <1>3, <1>4 DEF AddTraceMetadata
<1>6. /\ Len(meta) \in Nat /\ Len(meta') = Len(meta) + 1 /\ meta'[Len(meta) + 1] = new
      /\ \A i \in 1..Len(meta) : meta'[i] = meta[i]
  BY <1>1, <1>5
<1>7. \A i \in 1..Len(meta') : i \in 1..Len(meta) \/ i = Len(meta) + 1
  BY <1>6
<1>8. \A i \in 1..Len(meta) : {meta[i].key, meta[i].value} \subseteq 1..Len(strtab')
  BY StillInterned DEF IdsMove, IdsInterned, IdsOfMeta
<1>9. {new.key, new.value} \subseteq 1..Len(strtab')
  BY <1>3, <1>4
<1>10. IdsOfMeta'
  BY <1>6, <1>7, <1>8, <1>9 DEF IdsOfMeta, Interned
<1>. QED
  BY <1>2, <1>10, PartsKept DEF IdsInterned

\* And the hierarchies.
LEMMA HierarchiesInterned ==
  ASSUME IdsMove,
         \/ \E i \in 1..MaxHiers, s \in Names : BeginHierarchy(i, s)
         \/ \E h \in 1..Len(hiers) :
              \/ \E s, c \in Names : BeginScope(h, s, c)
              \/ EndScope(h)
              \/ \E s \in Names, ty \in 1..MaxTypes : AddVar(h, s, ty)
              \/ FlushHierarchy(h)
  PROVE  IdsInterned'
<1>1. /\ strtab \in Seq(Strings) /\ Names \subseteq Strings /\ hiers \in Seq(Hierarchies) /\ Len(hiers) \in Nat
      /\ \A h \in 1..Len(hiers) : hiers[h] \in Hierarchies
  BY ConstantTypes, ElementOfSeq DEF IdsMove, TypeOK, MetaTypes, HierTypes
<1>2. \A h \in 1..Len(hiers) : hiers[h].strs \subseteq 1..Len(strtab')
  BY StillInterned DEF IdsMove, IdsInterned, IdsOfHierarchies
<1>3. ASSUME NEW i \in 1..MaxHiers, NEW s \in Names, BeginHierarchy(i, s)
      PROVE  IdsInterned'
  <2>1. strtab' = Intern(strtab, s) /\ UNCHANGED <<file, typereg, meta, blks>>
    BY <1>3 DEF BeginHierarchy, fileVars, blkVars
  <2>2. IdOf(strtab', s) \in 1..Len(strtab')
    BY <1>1, <2>1, InternProperties
  <2>3. PICK new : new = [id |-> i, strs |-> {IdOf(strtab', s)}, vars |-> << >>, stack |-> << >>, open |-> TRUE]
    OBVIOUS
  <2>4. hiers' = Append(hiers, new) /\ new.strs \subseteq 1..Len(strtab')
    BY <1>3, <2>2, <2>3 DEF BeginHierarchy
  <2>5. /\ Len(hiers') = Len(hiers) + 1 /\ hiers'[Len(hiers) + 1] = new
        /\ \A h \in 1..Len(hiers) : hiers'[h] = hiers[h]
    BY <1>1, <2>4
  <2>6. \A h \in 1..Len(hiers') : h \in 1..Len(hiers) \/ h = Len(hiers) + 1
    BY <1>1, <2>5
  <2>7. IdsOfHierarchies'
    BY <1>2, <2>4, <2>5, <2>6 DEF IdsOfHierarchies, Interned
  <2>. QED
    BY <2>1, <2>7, PartsKept DEF IdsInterned
<1>4. ASSUME NEW h \in 1..Len(hiers), NEW s \in Names, NEW c \in Names, BeginScope(h, s, c)
      PROVE  IdsInterned'
  <2>1. strtab' = Intern(Intern(strtab, s), c) /\ UNCHANGED <<file, typereg, meta, blks>>
    BY <1>4 DEF BeginScope, fileVars, blkVars
  <2>2. IdOf(strtab', s) \in 1..Len(strtab') /\ IdOf(strtab', c) \in 1..Len(strtab')
    BY <1>1, <2>1, InternTwo
  <2>3. PICK new : new = [hiers[h] EXCEPT !.stack = Append(@, scopes + 1),
                                          !.strs = @ \cup {IdOf(strtab', s), IdOf(strtab', c)}]
    OBVIOUS
  <2>4. new.strs = hiers[h].strs \cup {IdOf(strtab', s), IdOf(strtab', c)}
    BY <1>1, <2>3 DEF Hierarchies
  <2>5. hiers' = [hiers EXCEPT ![h] = new]
    BY <1>1, <1>4, <2>3 DEF BeginScope
  <2>6. new.strs \subseteq 1..Len(strtab')
    BY <1>2, <2>2, <2>4
  <2>. QED
    BY <2>1, <2>5, <2>6, HierarchyInterned, PartsKept DEF IdsInterned
<1>5. ASSUME NEW h \in 1..Len(hiers), EndScope(h)
      PROVE  IdsInterned'
  <2>1. UNCHANGED <<file, typereg, meta, blks>>
    BY <1>5 DEF EndScope, fileVars, metaVars, blkVars
  <2>2. PICK new : new = [hiers[h] EXCEPT !.stack = SubSeq(@, 1, Len(@) - 1)]
    OBVIOUS
  <2>3. new.strs = hiers[h].strs
    BY <1>1, <2>2 DEF Hierarchies
  <2>4. hiers' = [hiers EXCEPT ![h] = new]
    BY <1>1, <1>5, <2>2 DEF EndScope
  <2>5. new.strs \subseteq 1..Len(strtab')
    BY <1>2, <2>3
  <2>. QED
    BY <2>1, <2>4, <2>5, HierarchyInterned, PartsKept DEF IdsInterned
<1>6. ASSUME NEW h \in 1..Len(hiers), NEW s \in Names, NEW ty \in 1..MaxTypes, AddVar(h, s, ty)
      PROVE  IdsInterned'
  <2>1. strtab' = Intern(strtab, s) /\ UNCHANGED <<file, typereg, meta, blks>>
    BY <1>6 DEF AddVar, fileVars, blkVars
  <2>2. IdOf(strtab', s) \in 1..Len(strtab')
    BY <1>1, <2>1, InternProperties
  <2>3. PICK new : new = [hiers[h] EXCEPT !.vars = Append(@, ty), !.strs = @ \cup {IdOf(strtab', s)}]
    OBVIOUS
  <2>4. new.strs = hiers[h].strs \cup {IdOf(strtab', s)}
    BY <1>1, <2>3 DEF Hierarchies
  <2>5. hiers' = [hiers EXCEPT ![h] = new]
    BY <1>1, <1>6, <2>3 DEF AddVar
  <2>6. new.strs \subseteq 1..Len(strtab')
    BY <1>2, <2>2, <2>4
  <2>. QED
    BY <2>1, <2>5, <2>6, HierarchyInterned, PartsKept DEF IdsInterned
<1>7. ASSUME NEW h \in 1..Len(hiers), FlushHierarchy(h)
      PROVE  IdsInterned'
  <2>1. UNCHANGED <<typereg, meta, blks>>
    BY <1>7 DEF FlushHierarchy, metaVars, blkVars
  <2>2. PICK new : new = [hiers[h] EXCEPT !.open = FALSE]
    OBVIOUS
  <2>3. new.strs \subseteq 1..Len(strtab')
    BY <1>1, <1>2, <2>2 DEF Hierarchies
  <2>4. hiers' = [hiers EXCEPT ![h] = new]
    BY <1>1, <1>7, <2>2 DEF FlushHierarchy
  <2>5. PICK blk : blk = [type |-> "HIER", id |-> hiers[h].id, strs |-> hiers[h].strs, vars |-> hiers[h].vars]
    OBVIOUS
  <2>6. file' = Append(file, blk)
    BY <1>7, <2>5 DEF FlushHierarchy
  <2>7. StringIds(blk) = hiers[h].strs
    BY <2>5, IdsByType
  <2>8. IdsOnFile'
    BY <1>2, <2>6, <2>7, OneInterned
  <2>. QED
    BY <2>1, <2>3, <2>4, <2>8, HierarchyInterned, PartsKept DEF IdsInterned
<1>. QED
  BY <1>3, <1>4, <1>5, <1>6, <1>7

\* Declarations intern what they refer to.
LEMMA DeclareInterned ==
  ASSUME IdsMove, Declare
  PROVE  IdsInterned'
<1>1. ASSUME NEW s \in Names, InternString(s) PROVE IdsInterned'
  <2>1. UNCHANGED <<file, typereg, meta, hiers, blks>>
    BY <1>1 DEF InternString, fileVars, hierVars, blkVars
  <2>. QED
    BY <2>1, PartsKept DEF IdsInterned
<1>2. ASSUME NEW e \in Enc, AddSignalType(e) PROVE IdsInterned'
  <2>1. /\ UNCHANGED <<file, meta, hiers, blks>>
        /\ typereg' = [typereg EXCEPT !.sigs = Append(@, e)]
    BY <1>2 DEF AddSignalType, fileVars, hierVars, blkVars
  <2>2. typereg'.schemas = typereg.schemas /\ typereg'.streams = typereg.streams
    BY <2>1 DEF IdsMove, TypeOK, HierTypes, Registry
  <2>3. ToSet(typereg.schemas) \subseteq 1..Len(strtab') /\ ToSet(typereg.streams) \subseteq 1..Len(strtab')
    BY StillInterned DEF IdsMove, IdsInterned, IdsOfTypes
  <2>4. IdsOfTypes'
    BY <2>2, <2>3 DEF IdsOfTypes, Interned
  <2>. QED
    BY <2>1, <2>4, PartsKept DEF IdsInterned
<1>3. ASSUME FlushStringTable PROVE IdsInterned'
  <2>1. PICK blk : blk = [type |-> "STR", strings |-> strtab]
    OBVIOUS
  <2>2. /\ UNCHANGED <<typereg, meta, hiers, blks>>
        /\ file' = Append(file, blk)
    BY <1>3, <2>1 DEF FlushStringTable, metaVars, hierVars, blkVars
  <2>3. StringIds(blk) = {}
    BY <2>1, IdsByType
  <2>4. IdsOnFile'
    BY <2>2, <2>3, OneInterned
  <2>. QED
    BY <2>2, <2>4, PartsKept DEF IdsInterned
<1>4. ASSUME FlushTypeRegistry PROVE IdsInterned'
  <2>1. PICK blk : blk = [type |-> "TYPE", reg |-> typereg]
    OBVIOUS
  <2>2. /\ UNCHANGED <<typereg, meta, hiers, blks>>
        /\ file' = Append(file, blk)
    BY <1>4, <2>1 DEF FlushTypeRegistry, metaVars, hierVars, blkVars
  <2>3. StringIds(blk) = ToSet(typereg.schemas) \cup ToSet(typereg.streams)
    BY <2>1, IdsByType
  <2>4. StringIds(blk) \subseteq 1..Len(strtab')
    BY <2>3, StillInterned DEF IdsMove, IdsInterned, IdsOfTypes
  <2>5. IdsOnFile'
    BY <2>2, <2>4, OneInterned
  <2>. QED
    BY <2>2, <2>5, PartsKept DEF IdsInterned
<1>5. CASE \E s \in Names : AddTxnSchema(s) \/ AddStreamType(s)
  BY <1>5, TypesInterned
<1>6. CASE \E s, v \in Names : AddTraceMetadata(s, v)
  BY <1>6, MetaInterned
<1>7. CASE \/ \E i \in 1..MaxHiers, s \in Names : BeginHierarchy(i, s)
           \/ \E h \in 1..Len(hiers) :
                \/ \E s, c \in Names : BeginScope(h, s, c)
                \/ EndScope(h)
                \/ \E s \in Names, ty \in 1..MaxTypes : AddVar(h, s, ty)
                \/ FlushHierarchy(h)
  BY <1>7, HierarchiesInterned
<1>. QED
  BY <1>1, <1>2, <1>3, <1>4, <1>5, <1>6, <1>7 DEF Declare

\* Value changes: the codec's name is interned before its id is written.
LEMMA ChangesInterned ==
  ASSUME IdsMove, ContextsSpan, RecordChanges
  PROVE  IdsInterned'
<1>1. ASSUME NEW c \in Codecs, NEW t \in Times, BeginVc(c, t) PROVE IdsInterned'
  <2>1. /\ UNCHANGED <<file, typereg, meta, hiers>>
        /\ blks' = Append(blks, NewVc(c, t)) /\ NewVc(c, t).kind = "vc"
    BY <1>1 DEF BeginVc, NewVc, fileVars, metaVars, hierVars
  <2>2. IdsOfContexts'
    BY <2>1, BegunInterned
  <2>. QED
    BY <2>1, <2>2, PartsKept DEF IdsInterned
<1>2. ASSUME NEW b \in 1..Len(blks), NEW h \in 1..Len(hiers), NEW k \in 1..MaxVars,
             (\E t \in Times : AddChange(b, h, k, t)) \/ SetInitial(b, h, k)
      PROVE  IdsInterned'
  <2>1. UNCHANGED <<file, typereg, meta, hiers>> /\ blks[b].kind = "vc"
    BY <1>2 DEF AddChange, SetInitial, fileVars, metaVars, hierVars
  <2>2. Filled(b) /\ blks[b] \in VcContexts \cup TxnContexts
    BY <1>2, RecordFills, ElementOfSeq DEF IdsMove, TypeOK, BlkTypes
  <2>3. PICK recs, init, end :
          blks' = [blks EXCEPT ![b] = [blks[b] EXCEPT !.recs = recs, !.init = init, !.end = end]]
    BY <2>2 DEF Filled
  <2>4. PICK new : new = [blks[b] EXCEPT !.recs = recs, !.init = init, !.end = end]
    OBVIOUS
  <2>5. new.kind = "vc"
    BY <2>1, <2>2, <2>4 DEF VcContexts, TxnContexts
  <2>6. IdsOfContexts'
    BY <2>3, <2>4, <2>5, ContextInterned
  <2>. QED
    BY <2>1, <2>6, PartsKept DEF IdsInterned
<1>3. ASSUME NEW b \in 1..Len(blks), FlushVc(b) PROVE IdsInterned'
  <2>1. UNCHANGED <<typereg, meta, hiers>> /\ blks[b].kind = "vc" /\ blks[b] \in VcContexts \cup TxnContexts
    BY <1>3, ElementOfSeq DEF FlushVc, metaVars, hierVars, IdsMove, TypeOK, BlkTypes
  <2>a. PICK o \in {FALSE, blks[b].open} : blks' = [blks EXCEPT ![b] = [blks[b] EXCEPT !.open = o]]
    BY <1>3, FlushedContext DEF FlushVc, IdsMove, TypeOK
  <2>2. PICK new : new = [blks[b] EXCEPT !.open = o]
    OBVIOUS
  <2>3. new.kind = "vc" /\ blks' = [blks EXCEPT ![b] = new]
    BY <2>1, <2>a, <2>2 DEF VcContexts, TxnContexts
  <2>4. IdsOfContexts'
    BY <2>3, ContextInterned
  <2>5. PICK parts \in Seq(VcContexts), id \in Nat :
          /\ Len(file') = Len(file) + Len(parts)
          /\ \A i \in 1..Len(parts) : file'[Len(file) + i] = VcBlocks(parts, id)[i]
          /\ id = IF blks[b].codec = "split" THEN IdOf(strtab', SplitName) ELSE 0
    BY <1>3, FlushVcWrites DEF IdsMove
  <2>6. id = 0 \/ id \in 1..Len(strtab')
    <3>1. strtab \in Seq(Strings) /\ SplitName \in Strings
      BY WriterAssumption DEF IdsMove, TypeOK, MetaTypes
    <3>2. blks[b].codec = "split" => strtab' = Intern(strtab, SplitName)
      BY <1>3 DEF FlushVc
    <3>. QED
      BY <2>5, <3>1, <3>2, InternProperties
  <2>7. \A i \in 1..Len(parts) : VcBlocks(parts, id)[i].type = "VC" /\ VcBlocks(parts, id)[i].codec = id
    BY DEF VcBlocks, VcBlock
  <2>8. Len(file) \in Nat /\ Len(parts) \in Nat
    BY DEF IdsMove, TypeOK, FileTypes
  <2>9. ASSUME NEW n \in Len(file) + 1..Len(file') PROVE StringIds(file'[n]) \subseteq 1..Len(strtab')
    <3>1. PICK i \in 1..Len(parts) : n = Len(file) + i
      <4>1. n - Len(file) \in 1..Len(parts) /\ n = Len(file) + (n - Len(file))
        BY <2>5, <2>8
      <4>. QED
        BY <4>1
    <3>a. file'[n] = VcBlocks(parts, id)[i]
      BY <2>5, <3>1
    <3>2. file'[n].type = "VC" /\ file'[n].codec = id
      BY <2>7, <3>1, <3>a
    <3>3. StringIds(file'[n]) = {id} \ {0}
      BY <3>2, IdsByType
    <3>. QED
      BY <2>6, <3>3
  <2>10. IdsOnFile'
    BY <2>9, WrittenInterned
  <2>. QED
    BY <2>1, <2>4, <2>10, PartsKept DEF IdsInterned
<1>. QED
  BY <1>1, <1>2, <1>3 DEF RecordChanges

\* A record of transactions with interned strings, or none.
LEMMA RecordInterned ==
  ASSUME IdsMove, NEW b \in 1..Len(blks), NEW rec, NEW until, AddRecord(b, rec, until),
         ToSet(rec.strs) \subseteq 1..Len(strtab')
  PROVE  IdsInterned'
<1>1. UNCHANGED <<file, typereg, meta, hiers>> /\ blks[b].kind = "txn"
      /\ blks[b] \in VcContexts \cup TxnContexts
  BY ElementOfSeq DEF AddRecord, fileVars, hierVars, IdsMove, TypeOK, BlkTypes
<1>2. PICK new : new = [blks[b] EXCEPT !.recs = @ \cup {rec}, !.end = Later(@, until)]
  OBVIOUS
<1>3. new.recs = blks[b].recs \cup {rec}
  BY <1>1, <1>2 DEF VcContexts, TxnContexts
<1>4. blks' = [blks EXCEPT ![b] = new]
  BY <1>2 DEF AddRecord, IdsMove, TypeOK, BlkTypes
<1>5. IdsOfContexts'
  BY <1>1, <1>3, <1>4, ContextInterned
<1>. QED
  BY <1>1, <1>5, PartsKept DEF IdsInterned

LEMMA TxnsInterned ==
  ASSUME IdsMove, RecordTxns
  PROVE  IdsInterned'
<1>1. ASSUME NEW sid \in BlockStreams, NEW t \in Times, BeginTxn(sid, t) PROVE IdsInterned'
  <2>1. /\ UNCHANGED <<file, typereg, meta, hiers>>
        /\ blks' = Append(blks, NewTxn(sid, t)) /\ NewTxn(sid, t).recs = {}
    BY <1>1 DEF BeginTxn, NewTxn, fileVars, metaVars, hierVars
  <2>2. IdsOfContexts'
    BY <2>1, BegunInterned
  <2>. QED
    BY <2>1, <2>2, PartsKept DEF IdsInterned
<1>2. ASSUME NEW b \in 1..Len(blks), NEW i \in TxnIds,
             \/ \E sid \in Streams, t, u \in Times : WriteFull(b, sid, i, t, u)
             \/ \E sid \in Streams, t \in Times : WriteBegin(b, sid, i, t)
             \/ \E t \in Times : WriteEnd(b, i, t)
             \/ WriteNote(b, i)
      PROVE  IdsInterned'
  <2>1. \A tag, sid, t, u : TxnRec(b, tag, sid, i, t, u, << >>).strs = << >>
    BY DEF TxnRec
  <2>2. \E rec, until : AddRecord(b, rec, until) /\ rec.strs = << >>
    <3>1. CASE \E sid \in Streams, t, u \in Times : WriteFull(b, sid, i, t, u)
      BY <2>1, <3>1 DEF WriteFull
    <3>2. CASE \E sid \in Streams, t \in Times : WriteBegin(b, sid, i, t)
      BY <2>1, <3>2 DEF WriteBegin
    <3>3. CASE \E t \in Times : WriteEnd(b, i, t)
      BY <2>1, <3>3 DEF WriteEnd
    <3>4. CASE WriteNote(b, i)
      BY <2>1, <3>4 DEF WriteNote
    <3>. QED
      BY <1>2, <3>1, <3>2, <3>3, <3>4
  <2>3. PICK rec, until : AddRecord(b, rec, until) /\ rec.strs = << >>
    BY <2>2
  <2>4. ToSet(rec.strs) = {}
    BY <2>3 DEF ToSet
  <2>. QED
    BY <2>3, <2>4, RecordInterned
<1>3. ASSUME NEW b \in 1..Len(blks), NEW i \in TxnIds, NEW s \in Names, NEW v \in Names,
             WriteMeta(b, i, s, v)
      PROVE  IdsInterned'
  <2>1. strtab \in Seq(Strings) /\ s \in Strings /\ v \in Strings
    BY ConstantTypes DEF IdsMove, TypeOK, MetaTypes
  <2>2. strtab' = Intern(Intern(strtab, s), v)
    BY <1>3 DEF WriteMeta
  <2>3. IdOf(strtab', s) \in 1..Len(strtab') /\ IdOf(strtab', v) \in 1..Len(strtab')
    BY <2>1, <2>2, InternTwo
  <2>4. PICK rec : rec = TxnRec(b, "META", Mixed, i, 0, 0, <<IdOf(strtab', s), IdOf(strtab', v)>>)
    OBVIOUS
  <2>5. AddRecord(b, rec, blks[b].end)
    BY <1>3, <2>4 DEF WriteMeta
  <2>6. rec.strs = <<IdOf(strtab', s), IdOf(strtab', v)>>
    BY <2>4 DEF TxnRec
  <2>7. ToSet(rec.strs) \subseteq 1..Len(strtab')
    BY <2>3, <2>6 DEF ToSet
  <2>. QED
    BY <2>5, <2>7, RecordInterned
<1>4. ASSUME NEW b \in 1..Len(blks), FlushTxn(b) PROVE IdsInterned'
  <2>1. UNCHANGED <<typereg, meta, hiers>> /\ blks[b].kind = "txn" /\ BlkTypes
        /\ \A c \in 1..Len(blks) : blks[c] \in VcContexts \cup TxnContexts
    BY <1>4, ElementOfSeq DEF FlushTxn, metaVars, hierVars, IdsMove, TypeOK, BlkTypes
  <2>a. PICK o \in {FALSE, blks[b].open} : blks' = [blks EXCEPT ![b] = [blks[b] EXCEPT !.open = o]]
    BY <1>4, <2>1, FlushedContext DEF FlushTxn
  <2>2. PICK new : new = [blks[b] EXCEPT !.open = o]
    OBVIOUS
  <2>3. new.recs = blks[b].recs /\ blks' = [blks EXCEPT ![b] = new]
    BY <2>1, <2>a, <2>2 DEF VcContexts, TxnContexts
  <2>4. IdsOfContexts'
    BY <2>1, <2>3, ContextInterned
  <2>5. blks[b].codec = "record"
    BY <2>1 DEF VcContexts, TxnContexts
  <2>6. txnState \in 1..Len(blks) /\ blks[txnState].codec = "record"
    BY <2>1, <2>5 DEF BlkTypes
  <2>7. blks[txnState].kind = "txn"
    BY <2>1, <2>6 DEF VcContexts, TxnContexts
  <2>8. \A r \in blks[txnState].recs : ToSet(r.strs) \subseteq 1..Len(strtab')
    BY <2>6, <2>7, StillInterned DEF IdsMove, IdsInterned, IdsOfContexts
  <2>9. PICK blk : blk = [type |-> "TXN", recs |-> blks[txnState].recs]
    OBVIOUS
  <2>10. UNCHANGED file \/ file' = Append(file, blk)
    BY <1>4, <2>9 DEF FlushTxn, PutTxn
  <2>11. StringIds(blk) = UNION {ToSet(r.strs) : r \in blk.recs} /\ blk.recs = blks[txnState].recs
    BY <2>9, IdsByType
  <2>12. StringIds(blk) \subseteq 1..Len(strtab')
    BY <2>8, <2>11
  <2>13. IdsOnFile'
    BY <2>10, <2>12, OneInterned, PartsKept
  <2>. QED
    BY <2>1, <2>4, <2>13, PartsKept DEF IdsInterned
<1>. QED
  BY <1>1, <1>2, <1>3, <1>4 DEF RecordTxns

\* A derived signal's name is interned before its definition is written.
LEMMA DefinitionInterned ==
  ASSUME IdsMove, NEW e \in DerivedEncs, NEW name \in Names, DeclareDerived(e, name)
  PROVE  /\ DefinitionBlock(name).type = "AUX"
         /\ StringIds(DefinitionBlock(name)) \subseteq 1..Len(strtab')
         /\ UNCHANGED <<typereg, meta, hiers>>
<1>1. strtab \in Seq(Strings) /\ name \in Strings
  BY ConstantTypes DEF IdsMove, TypeOK, MetaTypes
<1>2. strtab' = Intern(strtab, name) /\ UNCHANGED <<typereg, meta, hiers>>
  BY DEF DeclareDerived
<1>3. PICK id : id = IdOf(Intern(strtab, name), name)
  OBVIOUS
<1>4. id \in 1..Len(strtab')
  BY <1>1, <1>2, <1>3, InternProperties
<1>5. DefinitionBlock(name).type = "AUX" /\ DefinitionBlock(name).strs = <<id>>
  BY <1>3 DEF DefinitionBlock, AuxBlock
<1>6. StringIds(DefinitionBlock(name)) = ToSet(<<id>>)
  BY <1>5, IdsByType
<1>. QED
  BY <1>2, <1>4, <1>5, <1>6 DEF ToSet

\* Keyed blocks, extension blocks and derived signals.
LEMMA OtherInterned ==
  ASSUME IdsMove, RecordOther
  PROVE  IdsInterned'
<1>1. ASSUME NEW key \in AuxKeys, WriteAux(key) PROVE IdsInterned'
  <2>1. PICK blk : blk = AuxBlock(key, << >>)
    OBVIOUS
  <2>2. /\ UNCHANGED <<typereg, meta, hiers, blks>>
        /\ file' = Append(file, blk)
    BY <1>1, <2>1 DEF WriteAux, metaVars, hierVars, blkVars
  <2>3. StringIds(blk) = ToSet(<< >>)
    <3>1. blk.type = "AUX" /\ blk.strs = << >>
      BY <2>1 DEF AuxBlock
    <3>. QED
      BY <3>1, IdsByType
  <2>4. StringIds(blk) \subseteq 1..Len(strtab')
    BY <2>3 DEF ToSet
  <2>5. IdsOnFile'
    BY <2>2, <2>4, OneInterned
  <2>. QED
    BY <2>2, <2>5, PartsKept DEF IdsInterned
<1>2. ASSUME WriteExt PROVE IdsInterned'
  <2>1. PICK blk : blk = [type |-> "EXT"]
    OBVIOUS
  <2>2. /\ UNCHANGED <<typereg, meta, hiers, blks>>
        /\ file' = Append(file, blk)
    BY <1>2, <2>1 DEF WriteExt, metaVars, hierVars, blkVars
  <2>3. StringIds(blk) = {}
    BY <2>1, IdsByType
  <2>4. IdsOnFile'
    BY <2>2, <2>3, OneInterned
  <2>. QED
    BY <2>2, <2>4, PartsKept DEF IdsInterned
<1>3. ASSUME NEW e \in DerivedEncs, NEW s \in Names, AddDerived(e, s) PROVE IdsInterned'
  <2>1. DeclareDerived(e, s) /\ file' = Append(file, DefinitionBlock(s)) /\ UNCHANGED blks
    BY <1>3 DEF AddDerived
  <2>2. IdsOnFile'
    BY <2>1, DefinitionInterned, OneInterned
  <2>. QED
    BY <2>1, <2>2, DefinitionInterned, PartsKept DEF IdsInterned
<1>4. ASSUME NEW e \in DerivedEncs, NEW s \in Names, NEW times \in SUBSET Times, AddMaterialized(e, s, times)
      PROVE  IdsInterned'
  <2>1. DeclareDerived(e, s)
    BY <1>4 DEF AddMaterialized
  <2>2. PICK blk, parts :
          /\ blks' = Append(blks, blk) /\ Materialized(blk, e, times)
          /\ Len(file') = Len(file) + 1 + Len(parts) /\ Len(parts) \in Nat
          /\ file'[Len(file) + 1] = DefinitionBlock(s)
          /\ \A i \in 1..Len(parts) : file'[Len(file) + 1 + i] = VcBlocks(parts, 0)[i]
    BY <1>4, MaterializedWrites DEF IdsMove
  <2>3. blk.kind = "vc"
    BY <2>2 DEF Materialized, NewVc
  <2>4. IdsOfContexts'
    BY <2>2, <2>3, BegunInterned
  <2>5. \A i \in 1..Len(parts) : VcBlocks(parts, 0)[i].type = "VC" /\ VcBlocks(parts, 0)[i].codec = 0
    BY DEF VcBlocks, VcBlock
  <2>6. ASSUME NEW n \in Len(file) + 1..Len(file') PROVE StringIds(file'[n]) \subseteq 1..Len(strtab')
    <3>1. Len(file) \in Nat
      BY DEF IdsMove, TypeOK, FileTypes
    <3>2. CASE n = Len(file) + 1
      BY <2>1, <2>2, <3>2, DefinitionInterned
    <3>3. CASE n # Len(file) + 1
      <4>1. n - (Len(file) + 1) \in 1..Len(parts) /\ Len(file) + 1 + (n - (Len(file) + 1)) = n
        BY <2>2, <3>1, <3>3
      <4>2. file'[n].type = "VC" /\ file'[n].codec = 0
        BY <2>2, <2>5, <4>1
      <4>3. StringIds(file'[n]) = {0} \ {0}
        BY <4>2, IdsByType
      <4>. QED
        BY <4>3
    <3>. QED
      BY <3>2, <3>3
  <2>7. IdsOnFile'
    BY <2>6, WrittenInterned
  <2>. QED
    BY <2>1, <2>4, <2>7, DefinitionInterned, PartsKept DEF IdsInterned
<1>5. ASSUME RefuseDerived PROVE IdsInterned'
  BY <1>5, PartsKept DEF RefuseDerived, fileVars, metaVars, hierVars, blkVars, IdsInterned
<1>. QED
  BY <1>1, <1>2, <1>3, <1>4, <1>5 DEF RecordOther

\* The close writes the attributes and the registry as they are.
LEMMA CloseInterned ==
  ASSUME IdsMove, Close
  PROVE  IdsInterned'
<1>1. PICK off, index :
        /\ off \in Nat /\ off = IF meta = << >> THEN Len(file) ELSE Len(file) + 1
        /\ Len(file') = off + 3 /\ Len(file) \in Nat
        /\ file'[off + 1] = [type |-> "STR", strings |-> strtab]
        /\ file'[off + 2] = [type |-> "TYPE", reg |-> typereg]
        /\ file'[off + 3] = index
        /\ index.type = "INDEX" /\ index.strtab = off + 1 /\ index.typereg = off + 2
        /\ index.meta = IF meta = << >> THEN 0 ELSE Len(file) + 1
        /\ meta # << >> => file'[Len(file) + 1] = [type |-> "META", attrs |-> meta]
  BY CloseWrites DEF IdsMove, TypeOK
<1>2. UNCHANGED <<typereg, meta, hiers, blks>>
  BY DEF Close, metaVars, hierVars, blkVars
<1>3. StringIds(file'[off + 1]) = {} /\ StringIds(file'[off + 3]) = {}
  BY <1>1, IdsByType
<1>4. StringIds(file'[off + 2]) \subseteq 1..Len(strtab')
  <2>1. StringIds(file'[off + 2]) = ToSet(typereg.schemas) \cup ToSet(typereg.streams)
    BY <1>1, IdsByType
  <2>. QED
    BY <2>1, StillInterned DEF IdsMove, IdsInterned, IdsOfTypes
<1>5. meta # << >> => StringIds(file'[Len(file) + 1]) \subseteq 1..Len(strtab')
  <2>. SUFFICES ASSUME meta # << >> PROVE StringIds(file'[Len(file) + 1]) \subseteq 1..Len(strtab')
    OBVIOUS
  <2>1. StringIds(file'[Len(file) + 1]) = UNION {{a.key, a.value} : a \in ToSet(meta)}
    BY <1>1, IdsByType
  <2>2. \A i \in 1..Len(meta) : {meta[i].key, meta[i].value} \subseteq 1..Len(strtab')
    BY StillInterned DEF IdsMove, IdsInterned, IdsOfMeta
  <2>3. DOMAIN meta = 1..Len(meta)
    BY DEF IdsMove, TypeOK, MetaTypes
  <2>4. \A a \in ToSet(meta) : {a.key, a.value} \subseteq 1..Len(strtab')
    BY <2>2, <2>3 DEF ToSet
  <2>. QED
    BY <2>1, <2>4
<1>6. \A n \in Len(file) + 1..Len(file') :
        n = off + 1 \/ n = off + 2 \/ n = off + 3 \/ (meta # << >> /\ n = Len(file) + 1)
  BY <1>1
<1>7. \A n \in Len(file) + 1..Len(file') : StringIds(file'[n]) \subseteq 1..Len(strtab')
  BY <1>3, <1>4, <1>5, <1>6
<1>8. IdsOnFile'
  BY <1>7, WrittenInterned
<1>. QED
  BY <1>2, <1>8, PartsKept DEF IdsInterned

\* Every step keeps the ids interned.
LEMMA InternedStep ==
  ASSUME WriterInv, IdsInterned, [Next]_vars
  PROVE  IdsInterned'
<1>1. TypeOK /\ TypeOK' /\ Grows /\ ContextsSpan
  BY Inductive DEF WriterInv
<1>2. IdsMove
  BY <1>1, IdsKeptStep DEF IdsMove
<1>3. CASE PatchHeader \/ Release \/ UNCHANGED vars
  <2>1. UNCHANGED <<file, typereg, meta, hiers, blks>>
    BY <1>3 DEF PatchHeader, Release, vars, fileVars, metaVars, hierVars, blkVars
  <2>. QED
    BY <1>2, <2>1, PartsKept DEF IdsInterned
<1>. QED
  BY <1>1, <1>2, <1>3, DeclareInterned, ChangesInterned, TxnsInterned, OtherInterned, CloseInterned
     DEF Next, Client

\* Nothing is held and nothing is on file in a new trace.
LEMMA InternedInit == Init => IdsInterned
<1>. SUFFICES ASSUME Init PROVE IdsInterned
  OBVIOUS
<1>1. /\ file = << >> /\ hiers = << >> /\ blks = << >> /\ meta = << >>
      /\ typereg.schemas = << >> /\ typereg.streams = << >>
  BY DEF Init
<1>2. ToSet(<< >>) = {}
  BY DEF ToSet
<1>. QED
  BY <1>1, <1>2 DEF IdsInterned, IdsOnFile, IdsOfHierarchies, IdsOfContexts, IdsOfTypes, IdsOfMeta, Interned

-----------------------------------------------------------------------------
(* Strings read back *)

\* Without flushes in mid-trace.
MetadataInv == TraceInv /\ MetadataOnce /\ IdsInterned

LEMMA MetadataInductive ==
  ASSUME MaxFlushes = 0, MetadataInv, [TraceNext]_traceVars
  PROVE  MetadataInv'
<1>1. [Next]_vars /\ WriterInv
  BY DEF TraceNext, Write, End, traceVars, MetadataInv, TraceInv
<1>2. TraceInv' /\ Grows
  BY <1>1, TraceInductive, Inductive DEF MetadataInv
<1>3. MetadataOnce' /\ IdsInterned'
  BY <1>1, <1>2, MetadataStep, InternedStep DEF MetadataInv
<1>. QED
  BY <1>2, <1>3 DEF MetadataInv

LEMMA MetadataInit == TraceInit => MetadataInv
<1>1. TraceInit => Init /\ file = << >>
  BY DEF TraceInit, Init
<1>. QED
  BY <1>1, TraceInitInv, InternedInit DEF MetadataInv, MetadataOnce

\* Blocks of one type, when there is none and when there is one.
LEMMA OfTypeNone ==
  ASSUME NEW img, NEW type, PlacesOf(img, type) = {}
  PROVE  OfType(img, type) = << >>
<1>1. Cardinality(PlacesOf(img, type)) = 0
  BY FS_EmptySet
<1>. QED
  BY <1>1 DEF OfType

LEMMA OfTypeOne ==
  ASSUME NEW img, NEW type, NEW n \in Nat, PlacesOf(img, type) = {n}
  PROVE  OfType(img, type) = <<img.blocks[n]>>
<1>1. Cardinality({n}) = 1
  BY FS_Singleton
<1>. DEFINE OneByOne(order) ==
       /\ order \in [1..1 -> {n}]
       /\ \A i \in {n} : \E k \in 1..1 : order[k] = i
       /\ \A k, l \in 1..1 : k < l => order[k] < order[l]
<1>2. Ascending({n}) = CHOOSE order : OneByOne(order)
  BY <1>1, Zenon DEF Ascending
<1>3. OneByOne([k \in 1..1 |-> n])
  OBVIOUS
<1>4. OneByOne(CHOOSE order : OneByOne(order))
  BY <1>3, Zenon
<1>5. Ascending({n})[1] = n
  BY <1>2, <1>4
<1>6. OfType(img, type) = [k \in 1..1 |-> img.blocks[Ascending({n})[k]]]
  BY <1>1 DEF OfType
<1>7. [k \in 1..1 |-> img.blocks[Ascending({n})[k]]] = [k \in 1..1 |-> img.blocks[n]]
  BY <1>5
<1>8. \A x : [k \in 1..1 |-> x] = <<x>>
  OBVIOUS
<1>. QED
  BY <1>6, <1>7, <1>8

\* One list or none put together.
LEMMA FlattenOne ==
  ASSUME NEW s
  PROVE  FlattenSeq(<<s>>) = s
<1>1. Len(<<s>>) = 1 /\ <<s>>[1] = s
  OBVIOUS
<1>. DEFINE lists == <<s>>
            Joins(f) == f = [i \in 1..Len(lists) |-> IF i = 1 THEN lists[i] ELSE f[i - 1] \o lists[i]]
<1>2. FlattenSeq(lists) = (CHOOSE f : Joins(f))[1]
  BY <1>1 DEF FlattenSeq
<1>. HIDE DEF lists
<1>3. Joins([i \in 1..1 |-> s])
  BY <1>1 DEF lists
<1>4. Joins(CHOOSE f : Joins(f))
  BY <1>3, Zenon
<1>. QED
  BY <1>1, <1>2, <1>4 DEF lists

LEMMA FlattenNone == FlattenSeq(<< >>) = << >>
BY DEF FlattenSeq

\* The strings of one table.
LEMMA OneTable ==
  ASSUME NEW tables, NEW blk, tables = <<blk>>, NEW strings, strings = blk.strings
  PROVE  [i \in 1..Len(tables) |-> tables[i].strings] = <<strings>>
<1>1. Len(tables) = 1 /\ tables[1] = blk
  OBVIOUS
<1>2. \A i \in 1..1 : tables[i].strings = strings
  BY <1>1
<1>3. [i \in 1..Len(tables) |-> tables[i].strings] = [i \in 1..1 |-> strings]
  BY <1>1, <1>2
<1>4. [i \in 1..1 |-> strings] = <<strings>>
  OBVIOUS
<1>. QED
  BY <1>3, <1>4

\* The places of string tables, of type registries and of metadata, once the close
\* has written them; before, there are none.
LEMMA MetadataPlaces ==
  ASSUME MetadataInv, Ended
  PROVE  /\ \A type \in {"STR", "TYPE", "META"} : PlacesOf(disk, type) # {} => phase # "open"
         /\ phase # "open" =>
              LET index == file[Len(file)]
              IN  /\ PlacesOf(disk, "STR") \subseteq {index.strtab} /\ index.strtab \in 1..Len(file)
                  /\ PlacesOf(disk, "TYPE") \subseteq {index.typereg} /\ index.typereg \in 1..Len(file)
                  /\ PlacesOf(disk, "META") \subseteq IF meta = << >> THEN {} ELSE {index.meta}
         /\ \A type : \A n \in PlacesOf(disk, type) : n \in 1..Len(file) /\ disk.blocks[n] = file[n]
         /\ phase = "done" => disk.blocks = file
<1>1. /\ disk.blocks \in Seq(Blocks) /\ Len(disk.blocks) \in Nat /\ Len(file) \in Nat
      /\ Len(disk.blocks) <= Len(file) /\ \A n \in 1..Len(disk.blocks) : disk.blocks[n] = file[n]
      /\ phase = "done" => disk.blocks = file
  BY DEF MetadataInv, TraceInv, DiskInv, WriterInv, TypeOK, FileTypes
<1>2. \A type : \A n \in PlacesOf(disk, type) : n \in 1..Len(file) /\ disk.blocks[n] = file[n] /\ file[n].type = type
  BY <1>1 DEF PlacesOf
<1>3. phase # "open" => file[Len(file)].strtab \in 1..Len(file) /\ file[Len(file)].typereg \in 1..Len(file)
  BY DEF MetadataInv, TraceInv, TailWritten
<1>4. MetadataOnce
  BY DEF MetadataInv
<1>5. \A n \in PlacesOf(disk, "STR") : phase # "open" /\ n = file[Len(file)].strtab
  BY <1>2, <1>4 DEF MetadataOnce
<1>6. \A n \in PlacesOf(disk, "TYPE") : phase # "open" /\ n = file[Len(file)].typereg
  BY <1>2, <1>4 DEF MetadataOnce
<1>7. \A n \in PlacesOf(disk, "META") : phase # "open" /\ n = file[Len(file)].meta /\ meta # << >>
  <2>1. \A n \in PlacesOf(disk, "META") : phase # "open" /\ n = file[Len(file)].meta /\ n \in 1..Len(file)
    BY <1>2, <1>4 DEF MetadataOnce
  <2>2. phase # "open" /\ meta = << >> => file[Len(file)].meta = 0
    BY DEF MetadataInv, TraceInv, TailWritten
  <2>3. 0 \notin 1..Len(file)
    BY <1>1
  <2>. QED
    BY <2>1, <2>2, <2>3
<1>8. \A type \in {"STR", "TYPE", "META"} : PlacesOf(disk, type) # {} => phase # "open"
  BY <1>5, <1>6, <1>7
<1>. QED
  BY <1>1, <1>2, <1>3, <1>5, <1>6, <1>7, <1>8

\* The strings a reader finds: none, or all that were interned.
LEMMA StringsRead ==
  ASSUME MetadataInv, Ended
  PROVE  /\ ReadStrings(disk) \in {<< >>, strtab}
         /\ phase = "done" => ReadStrings(disk) = strtab
<1>. DEFINE at == file[Len(file)].strtab
<1>1. phase # "open" => at \in 1..Len(file) /\ file[at] = [type |-> "STR", strings |-> strtab]
  BY DEF MetadataInv, TraceInv, TailWritten
<1>2. phase # "open" => file[at].type = "STR" /\ file[at].strings = strtab
  BY <1>1
<1>3. CASE FastOpen(disk)
  <2>1. Indexed(disk) /\ disk.hdr # 0
    BY <1>3, NoIndexOnDisk DEF FastOpen
  <2>2. disk.blocks = file /\ Index(disk) = file[Len(file)] /\ phase # "open"
    BY <2>1, IndexOnDisk DEF MetadataInv
  <2>. QED
    BY <1>2, <1>3, <2>2 DEF ReadStrings
<1>4. CASE ~FastOpen(disk)
  <2>1. ReadStrings(disk) = FlattenSeq([i \in 1..Len(OfType(disk, "STR")) |-> OfType(disk, "STR")[i].strings])
    BY <1>4 DEF ReadStrings
  <2>2. CASE PlacesOf(disk, "STR") = {}
    <3>1. OfType(disk, "STR") = << >>
      BY <2>2, OfTypeNone
    <3>2. [i \in 1..Len(OfType(disk, "STR")) |-> OfType(disk, "STR")[i].strings] = << >>
      BY <3>1
    <3>3. ReadStrings(disk) = << >>
      BY <2>1, <3>2, FlattenNone
    <3>4. phase # "done"
      <4>1. phase = "done" => disk.blocks = file /\ at \in 1..Len(file) /\ file[at].type = "STR"
        BY <1>1, <1>2, MetadataPlaces
      <4>2. disk.blocks = file => PlacesOf(disk, "STR") = {n \in 1..Len(file) : file[n].type = "STR"}
        BY PlacesOnDisk DEF MetadataInv
      <4>. QED
        BY <2>2, <4>1, <4>2
    <3>. QED
      BY <3>3, <3>4
  <2>3. CASE PlacesOf(disk, "STR") # {}
    <3>1. phase # "open" /\ PlacesOf(disk, "STR") = {at} /\ disk.blocks[at] = file[at]
      BY <2>3, MetadataPlaces
    <3>2. at \in Nat
      BY <1>1, <3>1
    <3>3. PICK blk : blk = file[at]
      OBVIOUS
    <3>4. OfType(disk, "STR") = <<blk>> /\ blk.strings = strtab
      BY <1>2, <3>1, <3>2, <3>3, OfTypeOne
    <3>5. [i \in 1..Len(OfType(disk, "STR")) |-> OfType(disk, "STR")[i].strings] = <<strtab>>
      BY <3>4, OneTable
    <3>. QED
      BY <2>1, <3>5, FlattenOne
  <2>. QED
    BY <2>2, <2>3
<1>. QED
  BY <1>3, <1>4

\* In a trace without flushes in mid-trace no id is read as another string than the
\* one that was interned for it, however the run ended, and after a close every id
\* resolves (the table is written once, by close; _scan_file).
THEOREM IdsReadBack ==
  ASSUME MaxFlushes = 0
  PROVE  TraceSpec => []StringsResolve
<1>1. MetadataInv => StringsResolve
  <2>. SUFFICES ASSUME MetadataInv, Ended, NEW i \in DOMAIN disk.blocks, NEW id \in StringIds(disk.blocks[i])
       PROVE  IF id \in DOMAIN ReadStrings(disk) THEN ReadStrings(disk)[id] = strtab[id]
              ELSE phase # "done"
    BY DEF StringsResolve
  <2>1. CASE ReadStrings(disk) = strtab
    <3>1. i \in 1..Len(file) /\ disk.blocks[i] = file[i]
      BY MetadataPlaces DEF PlacesOf
    <3>2. id \in 1..Len(strtab)
      BY <3>1 DEF MetadataInv, IdsInterned, IdsOnFile, Interned
    <3>3. DOMAIN strtab = 1..Len(strtab)
      BY DEF MetadataInv, TraceInv, WriterInv, TypeOK, MetaTypes
    <3>. QED
      BY <2>1, <3>2, <3>3
  <2>2. CASE ReadStrings(disk) # strtab
    <3>1. ReadStrings(disk) = << >> /\ phase # "done"
      BY <2>2, StringsRead
    <3>2. DOMAIN ReadStrings(disk) = {}
      BY <3>1
    <3>. QED
      BY <3>1, <3>2
  <2>. QED
    BY <2>1, <2>2
<1>2. MetadataInv /\ [TraceNext]_traceVars => MetadataInv'
  BY MetadataInductive
<1>. QED
  BY <1>1, <1>2, MetadataInit, PTL DEF TraceSpec

-----------------------------------------------------------------------------
(* Two ways to open a file *)

\* The places of blocks in file order, as a scan comes upon them.
LEMMA AscendingIs ==
  ASSUME NEW S, NEW s \in Seq(Nat), \A i, j \in 1..Len(s) : i < j => s[i] < s[j],
         \A i \in 1..Len(s) : s[i] \in S, \A x \in S : \E i \in 1..Len(s) : s[i] = x
  PROVE  Cardinality(S) = Len(s) /\ Ascending(S) = s
<1>1. S \in SUBSET Nat /\ Len(s) \in Nat /\ s \in [1..Len(s) -> Nat]
  OBVIOUS
<1>2. Cardinality(S) = Len(s) /\ IsAscending(s, S)
  BY <1>1, ListAscends
<1>3. Ascending(S) = CHOOSE order \in [1..Cardinality(S) -> S] :
        /\ \A i \in S : \E k \in 1..Cardinality(S) : order[k] = i
        /\ \A k, l \in 1..Cardinality(S) : k < l => order[k] < order[l]
  BY Zenon DEF Ascending
<1>4. IsAscending(Ascending(S), S)
  BY <1>2, <1>3 DEF IsAscending
<1>. QED
  BY <1>1, <1>2, <1>4, AscendingUnique

\* A listed type of blocks is read in the same order through the list.
LEMMA OfTypeListed ==
  ASSUME NEW img, NEW type, NEW offs \in Seq(Nat), Len(img.blocks) \in Nat,
         DOMAIN img.blocks = 1..Len(img.blocks), Lists(offs, img.blocks, type)
  PROVE  OfType(img, type) = [i \in 1..Len(offs) |-> img.blocks[offs[i]]]
<1>1. PICK S : S = PlacesOf(img, type)
  OBVIOUS
<1>2. /\ \A i \in 1..Len(offs) : offs[i] \in S
      /\ \A x \in S : \E i \in 1..Len(offs) : offs[i] = x
      /\ \A i, j \in 1..Len(offs) : i < j => offs[i] < offs[j]
  BY <1>1 DEF PlacesOf, Lists
<1>3. Cardinality(S) = Len(offs) /\ Ascending(S) = offs
  BY <1>2, AscendingIs
<1>4. OfType(img, type) = [k \in 1..Cardinality(S) |-> img.blocks[Ascending(S)[k]]]
  BY <1>1 DEF OfType
<1>. QED
  BY <1>3, <1>4

\* After a close: where the metadata is, and that it is there once.
LEMMA ClosedFile ==
  ASSUME MetadataInv, Closed, NEW img, img.blocks = file
  PROVE  LET index == file[Len(file)]
         IN  /\ Len(file) \in Nat /\ DOMAIN file = 1..Len(file)
             /\ index.strtab \in 1..Len(file) /\ PlacesOf(img, "STR") = {index.strtab}
             /\ file[index.strtab].strings = strtab
             /\ index.typereg \in 1..Len(file) /\ PlacesOf(img, "TYPE") = {index.typereg}
             /\ PlacesOf(img, "META") = IF meta = << >> THEN {} ELSE {index.meta}
             /\ IF meta = << >> THEN index.meta = 0
                ELSE index.meta \in 1..Len(file) /\ file[index.meta].attrs = meta
<1>. DEFINE index == file[Len(file)]
<1>1. Len(file) \in Nat /\ DOMAIN file = 1..Len(file) /\ phase # "open"
  BY DEF Closed, MetadataInv, TraceInv, WriterInv, TypeOK, FileTypes
<1>2. /\ index.strtab \in 1..Len(file) /\ file[index.strtab].type = "STR" /\ file[index.strtab].strings = strtab
      /\ index.typereg \in 1..Len(file) /\ file[index.typereg].type = "TYPE"
  BY <1>1 DEF MetadataInv, TraceInv, TailWritten
<1>3. IF meta = << >> THEN index.meta = 0
      ELSE index.meta \in 1..Len(file) /\ file[index.meta].type = "META" /\ file[index.meta].attrs = meta
  BY <1>1 DEF MetadataInv, TraceInv, TailWritten
<1>4. \A n \in 1..Len(file) : /\ file[n].type = "STR" => n = index.strtab
                              /\ file[n].type = "TYPE" => n = index.typereg
                              /\ file[n].type = "META" => n = index.meta
  BY <1>1 DEF MetadataInv, MetadataOnce
<1>5. 0 \notin 1..Len(file)
  BY <1>1
<1>6. \A type : PlacesOf(img, type) = {n \in 1..Len(file) : file[n].type = type}
  BY <1>1 DEF PlacesOf
<1>. HIDE DEF index
<1>7. PlacesOf(img, "STR") = {index.strtab} /\ PlacesOf(img, "TYPE") = {index.typereg}
  BY <1>2, <1>4, <1>6
<1>8. PlacesOf(img, "META") = IF meta = << >> THEN {} ELSE {index.meta}
  <2>1. CASE meta = << >>
    BY <1>3, <1>4, <1>5, <1>6, <2>1
  <2>2. CASE meta # << >>
    BY <1>3, <1>4, <1>6, <2>2
  <2>. QED
    BY <2>1, <2>2
<1>. QED
  BY <1>1, <1>2, <1>3, <1>7, <1>8 DEF index

\* What a scan of the closed file finds.
LEMMA ScanFinds ==
  ASSUME MetadataInv, Closed, NEW img, img.blocks = file, ~FastOpen(img)
  PROVE  /\ TypePlaces(img) = {file[Len(file)].typereg}
         /\ ReadStrings(img) = strtab /\ ReadMeta(img) = meta
         /\ HierBlocks(img) = [i \in 1..Len(hierOffsets) |-> file[hierOffsets[i]]]
<1>1. PICK index : index = file[Len(file)]
  OBVIOUS
<1>2. /\ Len(file) \in Nat /\ DOMAIN file = 1..Len(file)
      /\ index.strtab \in 1..Len(file) /\ PlacesOf(img, "STR") = {index.strtab}
      /\ file[index.strtab].strings = strtab
      /\ PlacesOf(img, "TYPE") = {index.typereg}
      /\ PlacesOf(img, "META") = IF meta = << >> THEN {} ELSE {index.meta}
      /\ meta # << >> => index.meta \in 1..Len(file) /\ file[index.meta].attrs = meta
  BY <1>1, ClosedFile
<1>3. TypePlaces(img) = {index.typereg}
  BY <1>2 DEF TypePlaces
<1>4. ReadStrings(img) = strtab
  <2>1. PICK blk : blk = file[index.strtab]
    OBVIOUS
  <2>a. index.strtab \in Nat /\ img.blocks[index.strtab] = blk
    BY <1>2, <2>1
  <2>2. OfType(img, "STR") = <<blk>> /\ blk.strings = strtab
    BY <1>2, <2>1, <2>a, OfTypeOne
  <2>3. [i \in 1..Len(OfType(img, "STR")) |-> OfType(img, "STR")[i].strings] = <<strtab>>
    BY <2>2, OneTable
  <2>4. ReadStrings(img) = FlattenSeq([i \in 1..Len(OfType(img, "STR")) |-> OfType(img, "STR")[i].strings])
    BY DEF ReadStrings
  <2>. QED
    BY <2>3, <2>4, FlattenOne
<1>5. ReadMeta(img) = meta
  <2>1. CASE meta = << >>
    BY <1>2, <2>1 DEF ReadMeta
  <2>2. CASE meta # << >>
    <3>1. PICK at : at = index.meta
      OBVIOUS
    <3>2. at \in Nat /\ file[at].attrs = meta /\ PlacesOf(img, "META") = {at}
      BY <1>2, <2>2, <3>1
    <3>3. ReadMeta(img) = img.blocks[CHOOSE i \in {at} : \A j \in {at} : j <= i].attrs
      BY <3>2 DEF ReadMeta
    <3>4. (CHOOSE i \in {at} : \A j \in {at} : j <= i) = at
      BY <3>2
    <3>. QED
      BY <3>2, <3>3, <3>4
  <2>. QED
    BY <2>1, <2>2
<1>6. HierBlocks(img) = [i \in 1..Len(hierOffsets) |-> file[hierOffsets[i]]]
  <2>1. hierOffsets \in Seq(Nat) /\ Lists(hierOffsets, file, "HIER")
    BY DEF MetadataInv, TraceInv, EntriesListed, WriterInv, TypeOK, HierTypes
  <2>2. OfType(img, "HIER") = [i \in 1..Len(hierOffsets) |-> file[hierOffsets[i]]]
    BY <1>2, <2>1, OfTypeListed
  <2>. QED
    BY <2>2 DEF HierBlocks
<1>. QED
  BY <1>1, <1>3, <1>4, <1>5, <1>6

\* What the index of the closed file leads to.
LEMMA IndexFinds ==
  ASSUME MetadataInv, Closed, FastOpen(disk)
  PROVE  /\ disk.blocks = file
         /\ TypePlaces(disk) = {file[Len(file)].typereg}
         /\ ReadStrings(disk) = strtab /\ ReadMeta(disk) = meta
         /\ HierBlocks(disk) = [i \in 1..Len(hierOffsets) |-> file[hierOffsets[i]]]
<1>1. Indexed(disk) /\ disk.hdr # 0 /\ Ended
  BY NoIndexOnDisk DEF FastOpen, Closed
<1>2. disk.blocks = file /\ Index(disk) = file[Len(file)] /\ Index(disk).hier = hierOffsets
  BY <1>1, IndexOnDisk DEF MetadataInv
<1>3. PICK index : index = file[Len(file)]
  OBVIOUS
<1>4. /\ file[index.strtab].strings = strtab /\ Len(file) \in Nat
      /\ IF meta = << >> THEN index.meta = 0
         ELSE index.meta \in 1..Len(file) /\ file[index.meta].attrs = meta
  BY <1>2, <1>3, ClosedFile
<1>5. ReadStrings(disk) = strtab
  BY <1>2, <1>3, <1>4 DEF ReadStrings
<1>6. ReadMeta(disk) = meta
  <2>1. ReadMeta(disk) = IF index.meta = 0 THEN << >> ELSE file[index.meta].attrs
    BY <1>2, <1>3 DEF ReadMeta
  <2>2. meta # << >> => index.meta # 0
    BY <1>4
  <2>. QED
    BY <1>4, <2>1, <2>2
<1>7. HierBlocks(disk) = [i \in 1..Len(hierOffsets) |-> file[hierOffsets[i]]]
  BY <1>2 DEF HierBlocks
<1>8. TypePlaces(disk) = {index.typereg}
  BY <1>2, <1>3 DEF TypePlaces
<1>. QED
  BY <1>2, <1>3, <1>5, <1>6, <1>7, <1>8

\* A closed trace opens, and gives the same strings, attributes, hierarchies and types
\* of variables by its index and by a scan, when no metadata was flushed before the
\* close (_scan_file, _read_index; the type registry is on file once).
THEOREM OpensAlike ==
  ASSUME MaxFlushes = 0
  PROVE  TraceSpec => []PathsAgree
<1>1. MetadataInv => PathsAgree
  <2>. SUFFICES ASSUME MetadataInv, Closed PROVE PathsAgree
    BY DEF PathsAgree
  <2>1. PICK scanned : scanned = [disk EXCEPT !.hdr = 0]
    OBVIOUS
  <2>2. disk \in [blocks : Seq(Blocks), hdr : Nat] /\ disk.blocks = file
    BY DEF Closed, MetadataInv, TraceInv, DiskInv
  <2>3. scanned.blocks = file /\ scanned.hdr = 0
    BY <2>1, <2>2
  <2>4. Indexed(scanned) = FALSE
    BY <2>3 DEF Indexed
  <2>5. /\ TypePlaces(scanned) = {file[Len(file)].typereg}
        /\ ReadStrings(scanned) = strtab /\ ReadMeta(scanned) = meta
        /\ HierBlocks(scanned) = [i \in 1..Len(hierOffsets) |-> file[hierOffsets[i]]]
    BY <2>3, <2>4, ScanFinds DEF FastOpen
  <2>6. /\ TypePlaces(disk) = {file[Len(file)].typereg}
        /\ ReadStrings(disk) = strtab /\ ReadMeta(disk) = meta
        /\ HierBlocks(disk) = [i \in 1..Len(hierOffsets) |-> file[hierOffsets[i]]]
    BY <2>2, ScanFinds, IndexFinds
  <2>7. file[Len(file)].typereg \in Nat
    BY <2>2, ClosedFile
  <2>8. ~OpenFails(disk) /\ ~OpenFails(scanned)
    BY <2>5, <2>6, <2>7 DEF OpenFails
  <2>9. ReadHiers(disk) = ReadHiers(scanned)
    BY <2>5, <2>6 DEF ReadHiers
  <2>10. ReadSigs(disk) = ReadSigs(scanned)
    BY <2>2, <2>3, <2>5, <2>6 DEF ReadSigs
  <2>11. \A v \in Vars : SigType(disk, v) = SigType(scanned, v)
    BY <2>9, <2>10 DEF SigType
  <2>. QED
    BY <2>1, <2>5, <2>6, <2>8, <2>9, <2>11 DEF PathsAgree
<1>2. MetadataInv /\ [TraceNext]_traceVars => MetadataInv'
  BY MetadataInductive
<1>. QED
  BY <1>1, <1>2, MetadataInit, PTL DEF TraceSpec

-----------------------------------------------------------------------------
(* Types of variables *)

\* The programs that the types of variables agree in: one hierarchy, all declarations
\* before the first block, no registry flushed before the close, derived signals of
\* the default type, and fewer signal types than the ids below the derived ones.
OneTypeEach ==
  /\ MaxHiers <= 1 /\ SetupFirst /\ MaxFlushes = 0
  /\ DerivedEncs \subseteq {DefaultEnc} /\ MaxTypes < DerivedBase

\* What the steps of this section start from.
TypesMove == OneTypeEach /\ WriterInv /\ TypeOK' /\ Grows /\ TypesInv

LEMMA TypesFacts ==
  ASSUME TypesMove
  PROVE  /\ hiers \in Seq(Hierarchies) /\ Len(hiers) \in Nat /\ Len(hiers') \in Nat
         /\ \A h \in 1..Len(hiers) : hiers[h] \in Hierarchies /\ Len(hiers[h].vars) \in Nat
         /\ \A h \in 1..Len(hiers) : \A k \in 1..Len(hiers[h].vars) :
              k \in 1..MaxVars /\ hiers[h].vars[k] \in 1..Len(typereg.sigs)
         /\ Len(typereg.sigs) \in Nat /\ \A i \in 1..Len(typereg.sigs) : typereg.sigs[i] \in Enc
         /\ blks \in Seq(VcContexts \cup TxnContexts) /\ Len(blks) \in Nat /\ Len(blks') \in Nat
         /\ \A b \in 1..Len(blks) : blks[b] \in VcContexts \cup TxnContexts
         /\ file \in Seq(Blocks) /\ Len(file) \in Nat /\ Len(file') \in Nat
         /\ \A n \in 1..Len(file) : file'[n] = file[n]
         /\ Len(file) <= Len(file') /\ derived \in Nat /\ MaxVars \in Nat /\ MaxVars < DerivedBase
<1>1. /\ hiers \in Seq(Hierarchies) /\ Len(hiers) \in Nat /\ Len(hiers') \in Nat
      /\ \A h \in 1..Len(hiers) : \A k \in 1..Len(hiers[h].vars) :
           k \in 1..MaxVars /\ hiers[h].vars[k] \in 1..Len(typereg.sigs)
      /\ typereg \in Registry
  BY DEF TypesMove, WriterInv, TypeOK, HierTypes
<1>2. \A h \in 1..Len(hiers) : hiers[h] \in Hierarchies
  BY <1>1, ElementOfSeq
<1>3. \A h \in 1..Len(hiers) : Len(hiers[h].vars) \in Nat
  BY <1>2 DEF Hierarchies
<1>4. Len(typereg.sigs) \in Nat /\ \A i \in 1..Len(typereg.sigs) : typereg.sigs[i] \in Enc
  BY <1>1 DEF Registry
<1>5. /\ blks \in Seq(VcContexts \cup TxnContexts) /\ Len(blks) \in Nat /\ Len(blks') \in Nat
      /\ \A b \in 1..Len(blks) : blks[b] \in VcContexts \cup TxnContexts
  BY ElementOfSeq DEF TypesMove, WriterInv, TypeOK, BlkTypes
<1>6. /\ file \in Seq(Blocks) /\ Len(file) \in Nat /\ Len(file') \in Nat
      /\ \A n \in 1..Len(file) : file'[n] = file[n]
      /\ Len(file) <= Len(file')
  BY DEF TypesMove, WriterInv, TypeOK, FileTypes, Grows
<1>7. derived \in Nat
  BY DEF TypesMove, WriterInv, TypeOK, IndexTypes
<1>8. MaxVars \in Nat /\ MaxVars < DerivedBase
  BY WriterAssumption
<1>. QED
  BY <1>1, <1>2, <1>3, <1>4, <1>5, <1>6, <1>7, <1>8

\* The sizes alone.
LEMMA TypesCounts ==
  ASSUME TypesMove
  PROVE  /\ Len(hiers) \in Nat /\ Len(blks) \in Nat /\ Len(file) \in Nat /\ Len(file') \in Nat
         /\ Len(file) <= Len(file') /\ derived \in Nat /\ MaxVars \in Nat /\ MaxVars < DerivedBase
BY TypesFacts

\* A hierarchy of the program is its only one.
LEMMA OnlyHierarchy ==
  ASSUME TypesMove, NEW h \in 1..Len(hiers)
  PROVE  Len(hiers) = 1 /\ h = 1
<1>1. Len(hiers) <= 1
  BY DEF TypesMove, TypesInv, SetupOver
<1>2. PICK n \in Nat : n = Len(hiers)
  BY TypesCounts
<1>3. n <= 1 /\ h \in 1..n
  BY <1>1, <1>2
<1>4. n = 1 /\ h = 1
  BY <1>3
<1>. QED
  BY <1>2, <1>4

\* The hierarchies are those there were, with their variables, closed if they were.
Alike ==
  /\ Len(hiers') = Len(hiers)
  /\ \A h \in 1..Len(hiers) : hiers'[h].vars = hiers[h].vars /\ hiers'[h].open = hiers[h].open

\* No variable is declared by the step.
SameDeclared ==
  \A v, e : (InHierarchy(v, e)' <=> InHierarchy(v, e)) /\ (Declared(v, e)' <=> Declared(v, e))

LEMMA AlikeDeclared ==
  ASSUME TypesMove, Alike, UNCHANGED <<derived, varTypes>>,
         \A i \in 1..Len(typereg.sigs) : typereg'.sigs[i] = typereg.sigs[i]
  PROVE  SameDeclared
<1>1. \A v, e : InHierarchy(v, e)' <=> InHierarchy(v, e)
  BY TypesFacts DEF InHierarchy, Alike
<1>2. \A v, e : Declared(v, e)' <=> Declared(v, e)
  BY <1>1 DEF Declared
<1>. QED
  BY <1>1, <1>2 DEF SameDeclared

\* No hierarchy is written or closed.
LEMMA HierarchyFileKept ==
  ASSUME TypesMove, Alike, phase' = "open", \A n \in Len(file) + 1..Len(file') : file'[n].type # "HIER"
  PROVE  HierarchyOnFile'
<1>1. HierarchyOnFile
  BY DEF TypesMove, TypesInv
<1>2. \A n \in 1..Len(file') : file'[n].type = "HIER" => n \in 1..Len(file) /\ file'[n] = file[n]
  <2>1. \A n \in 1..Len(file') : n \in 1..Len(file) \/ n \in Len(file) + 1..Len(file')
    BY TypesFacts
  <2>. QED
    BY <2>1, TypesFacts
<1>3. \A n \in 1..Len(file) : n \in 1..Len(file') /\ file'[n] = file[n]
  BY TypesFacts
<1>4. ASSUME NEW n \in 1..Len(file'), file'[n].type = "HIER"
      PROVE  /\ \E h \in 1..Len(hiers') : ~hiers'[h].open /\ file'[n].vars = hiers'[h].vars
             /\ \A m \in 1..Len(file') : file'[m].type = "HIER" => m = n
  <2>1. n \in 1..Len(file) /\ file[n].type = "HIER" /\ file'[n] = file[n]
    BY <1>2, <1>4
  <2>2. PICK h \in 1..Len(hiers) : ~hiers[h].open /\ file[n].vars = hiers[h].vars
    BY <1>1, <2>1 DEF HierarchyOnFile
  <2>3. h \in 1..Len(hiers') /\ ~hiers'[h].open /\ file'[n].vars = hiers'[h].vars
    BY <2>1, <2>2 DEF Alike
  <2>4. \A m \in 1..Len(file') : file'[m].type = "HIER" => m = n
    BY <1>1, <1>2, <2>1 DEF HierarchyOnFile
  <2>. QED
    BY <2>3, <2>4
<1>5. \A h \in 1..Len(hiers') : ~hiers'[h].open => \E n \in 1..Len(file') : file'[n].type = "HIER"
  BY <1>1, <1>3 DEF HierarchyOnFile, Alike
<1>. QED
  BY <1>4, <1>5 DEF HierarchyOnFile

\* No block of value changes is written.
LEMMA BlocksFitKept ==
  ASSUME TypesMove, SameDeclared, blks # << >> => blks' # << >>,
         \A n \in Len(file) + 1..Len(file') : file'[n].type # "VC"
  PROVE  BlocksFit'
<1>1. BlocksFit
  BY DEF TypesMove, TypesInv
<1>2. \A n \in 1..Len(file') : file'[n].type = "VC" => n \in 1..Len(file) /\ file'[n] = file[n]
  <2>1. \A n \in 1..Len(file') : n \in 1..Len(file) \/ n \in Len(file) + 1..Len(file')
    BY TypesFacts
  <2>. QED
    BY <2>1, TypesFacts
<1>3. ASSUME NEW n \in 1..Len(file'), file'[n].type = "VC"
      PROVE  /\ blks' # << >>
             /\ \A r \in file'[n].recs : Declared(r.var, r.ty)' /\ file'[n].enc[r.var] = r.ty
  <2>1. n \in 1..Len(file) /\ file'[n] = file[n] /\ file[n].type = "VC"
    BY <1>2, <1>3
  <2>2. blks # << >> /\ \A r \in file[n].recs : Declared(r.var, r.ty) /\ file[n].enc[r.var] = r.ty
    BY <1>1, <2>1 DEF BlocksFit
  <2>. QED
    BY <2>1, <2>2 DEF SameDeclared
<1>. QED
  BY <1>3 DEF BlocksFit

\* A step that touches neither contexts nor variables nor blocks of either kind.
LEMMA TypesKept ==
  ASSUME TypesMove, Alike, UNCHANGED <<derived, varTypes, blks, phase>>, phase = "open",
         \A i \in 1..Len(typereg.sigs) : typereg'.sigs[i] = typereg.sigs[i],
         \A n \in Len(file) + 1..Len(file') : file'[n].type \notin {"HIER", "VC"}
  PROVE  TypesInv'
<1>1. SameDeclared
  BY AlikeDeclared
<1>2. SetupOver /\ TypesKnown /\ ContextsFit
  BY DEF TypesMove, TypesInv
<1>3. SetupOver'
  BY <1>2 DEF SetupOver, Alike
<1>4. TypesKnown'
  BY <1>1, <1>2 DEF TypesKnown, SameDeclared
<1>5. ContextsFit'
  BY <1>1, <1>2 DEF ContextsFit, Fits, SameDeclared
<1>. QED
  BY <1>1, <1>3, <1>4, <1>5, HierarchyFileKept, BlocksFitKept DEF TypesInv

\* A program declares before its first block, on a hierarchy that is open.
LEMMA NoContextsYet ==
  ASSUME TypesMove, MayDeclare \/ \E h \in 1..Len(hiers) : hiers[h].open
  PROVE  blks = << >>
BY DEF TypesMove, OneTypeEach, TypesInv, SetupOver, MayDeclare

\* Before the first block there is none on file either.
LEMMA NoContextsFit ==
  ASSUME TypesMove, blks = << >>, blks' = << >>,
         \A n \in Len(file) + 1..Len(file') : file'[n].type # "VC"
  PROVE  ContextsFit' /\ BlocksFit'
<1>1. BlocksFit
  BY DEF TypesMove, TypesInv
<1>2. \A n \in 1..Len(file') : n \in 1..Len(file) \/ n \in Len(file) + 1..Len(file')
  BY TypesFacts
<1>3. \A n \in 1..Len(file') : file'[n].type # "VC"
  BY <1>1, <1>2, TypesFacts DEF BlocksFit
<1>4. Len(blks') = 0
  OBVIOUS
<1>. QED
  BY <1>3, <1>4 DEF ContextsFit, BlocksFit

\* A hierarchy begins without variables.
LEMMA BeginHierarchyFits ==
  ASSUME TypesMove, phase = "open", NEW i \in 1..MaxHiers, NEW s \in Names, BeginHierarchy(i, s)
  PROVE  TypesInv'
<1>1. PICK new : new = [id |-> i, strs |-> {IdOf(strtab', s)}, vars |-> << >>, stack |-> << >>, open |-> TRUE]
  OBVIOUS
<1>2. hiers' = Append(hiers, new) /\ new.open /\ new.vars = << >>
  BY <1>1 DEF BeginHierarchy
<1>3. /\ MayDeclare /\ Len(hiers) < MaxHiers
      /\ UNCHANGED <<phase, file, typereg, derived, varTypes, blks>>
  BY DEF BeginHierarchy, fileVars, blkVars, auxVars
<1>4. blks = << >> /\ blks' = << >>
  BY <1>3, NoContextsYet
<1>5. Len(hiers) = 0 /\ Len(hiers') = 1 /\ hiers'[1] = new
  <2>1. MaxHiers \in Nat /\ MaxHiers <= 1
    BY WriterAssumption DEF TypesMove, OneTypeEach
  <2>2. Len(hiers) = 0
    BY <1>3, <2>1, TypesFacts
  <2>. QED
    BY <1>2, <2>2, TypesFacts
<1>6. \A v, e : ~InHierarchy(v, e) /\ ~InHierarchy(v, e)'
  <2>1. Len(hiers'[1].vars) = 0
    BY <1>2, <1>5
  <2>. QED
    BY <1>5, <2>1 DEF InHierarchy
<1>7. \A v, e : Declared(v, e)' => Declared(v, e)
  BY <1>3, <1>6 DEF Declared
<1>8. SetupOver'
  BY <1>4, <1>5 DEF SetupOver
<1>9. TypesKnown'
  BY <1>3, <1>7 DEF TypesMove, TypesInv, TypesKnown
<1>10. \A n \in Len(file) + 1..Len(file') : FALSE
  BY <1>3, TypesFacts
<1>11. ContextsFit' /\ BlocksFit'
  BY <1>4, <1>10, NoContextsFit
<1>12. HierarchyOnFile'
  <2>1. HierarchyOnFile
    BY DEF TypesMove, TypesInv
  <2>2. \A n \in 1..Len(file) : file[n].type # "HIER"
    BY <1>5, <2>1 DEF HierarchyOnFile
  <2>3. \A h \in 1..Len(hiers') : hiers'[h].open
    BY <1>2, <1>5
  <2>. QED
    BY <1>3, <2>2, <2>3 DEF HierarchyOnFile
<1>. QED
  BY <1>8, <1>9, <1>11, <1>12 DEF TypesInv

\* A variable gets the number after those of its hierarchy, which no other has.
LEMMA AddVarFits ==
  ASSUME TypesMove, phase = "open", NEW h \in 1..Len(hiers), NEW s \in Names,
         NEW ty \in 1..MaxTypes, AddVar(h, s, ty)
  PROVE  TypesInv'
<1>1. PICK new : new = [hiers[h] EXCEPT !.vars = Append(@, ty), !.strs = @ \cup {IdOf(strtab', s)}]
  OBVIOUS
<1>2. PICK v : v = Len(hiers[h].vars) + 1
  OBVIOUS
<1>3. /\ hiers[h].open /\ v <= MaxVars /\ ty \in 1..Len(typereg.sigs)
      /\ UNCHANGED <<phase, file, typereg, derived, blks>>
      /\ varTypes' = [u \in DOMAIN varTypes \cup {v} |-> IF u = v THEN typereg.sigs[ty] ELSE varTypes[u]]
  BY <1>2 DEF AddVar, fileVars, blkVars, auxVars
<1>4. hiers' = [hiers EXCEPT ![h] = new]
  BY <1>1, TypesFacts DEF AddVar
<1>5. Len(hiers) = 1 /\ h = 1
  BY OnlyHierarchy
<1>a. hiers[h] \in Hierarchies
  BY TypesFacts
<1>6. hiers[h] \in Hierarchies /\ hiers[h].vars \in Seq(1..MaxTypes) /\ v \in Nat \ {0}
  BY <1>2, <1>a DEF Hierarchies
<1>7. new.vars = Append(hiers[h].vars, ty) /\ new.open
  BY <1>1, <1>3, <1>6 DEF Hierarchies
<1>8. Len(hiers') = 1 /\ hiers'[1] = new
  BY <1>4, <1>5, TypesFacts
<1>9. /\ Len(new.vars) = v /\ new.vars[v] = ty
      /\ \A k \in 1..Len(hiers[h].vars) : new.vars[k] = hiers[h].vars[k]
  BY <1>2, <1>6, <1>7
<1>10. blks = << >> /\ blks' = << >>
  BY <1>3, NoContextsYet
<1>11. ASSUME NEW u, NEW e, Declared(u, e)'
       PROVE  u \in VarIds => u \in DOMAIN varTypes' /\ varTypes'[u] = e
  <2>. SUFFICES ASSUME u \in VarIds PROVE u \in DOMAIN varTypes' /\ varTypes'[u] = e
    OBVIOUS
  <2>1. CASE u = v
    <3>1. e = typereg.sigs[ty]
      <4>1. CASE InHierarchy(u, e)'
        <5>1. e = typereg'.sigs[hiers'[1].vars[u]]
          BY <1>8, <4>1 DEF InHierarchy
        <5>. QED
          BY <1>3, <1>8, <1>9, <2>1, <5>1
      <4>2. CASE u \in DerivedBase..DerivedBase + derived' - 1
        BY <1>3, <1>6, <2>1, <4>2, TypesFacts DEF DerivedBase
      <4>. QED
        BY <1>11, <4>1, <4>2 DEF Declared
    <3>. QED
      BY <1>3, <2>1, <3>1
  <2>2. CASE u # v
    <3>1. Declared(u, e)
      <4>1. CASE InHierarchy(u, e)'
        <5>1. u \in 1..v /\ e = typereg.sigs[new.vars[u]]
          BY <1>3, <1>8, <1>9, <4>1 DEF InHierarchy
        <5>a. Len(hiers[h].vars) \in Nat
          BY <1>6
        <5>b. u \in 1..Len(hiers[h].vars)
          BY <1>2, <2>2, <5>1, <5>a
        <5>2. u \in 1..Len(hiers[h].vars) /\ e = typereg.sigs[hiers[h].vars[u]]
          BY <1>9, <5>1, <5>b
        <5>. QED
          BY <5>2 DEF InHierarchy, Declared
      <4>2. CASE ~InHierarchy(u, e)'
        BY <1>3, <1>11, <2>2, <4>2 DEF Declared
      <4>. QED
        BY <4>1, <4>2
    <3>2. e \in Enc
      <4>1. DefaultEnc \in Enc
        BY WriterAssumption
      <4>2. ASSUME InHierarchy(u, e) PROVE e \in Enc
        BY <4>2, TypesFacts DEF InHierarchy
      <4>. QED
        BY <3>1, <4>1, <4>2 DEF Declared
    <3>3. u \in DOMAIN varTypes /\ varTypes[u] = e
      BY <3>1, <3>2 DEF TypesMove, TypesInv, TypesKnown
    <3>. QED
      BY <1>3, <2>2, <3>3
  <2>. QED
    BY <2>1, <2>2
<1>12. TypesKnown'
  BY <1>11 DEF TypesKnown
<1>13. SetupOver'
  BY <1>8, <1>10 DEF SetupOver
<1>14. \A n \in Len(file) + 1..Len(file') : FALSE
  BY <1>3, TypesFacts
<1>15. ContextsFit' /\ BlocksFit'
  BY <1>10, <1>14, NoContextsFit
<1>16. HierarchyOnFile'
  <2>1. HierarchyOnFile
    BY DEF TypesMove, TypesInv
  <2>2. \A g \in 1..Len(hiers) : hiers[g].open
    BY <1>3, <1>5
  <2>3. \A n \in 1..Len(file) : file[n].type # "HIER"
    BY <2>1, <2>2 DEF HierarchyOnFile
  <2>4. \A g \in 1..Len(hiers') : hiers'[g].open
    BY <1>7, <1>8
  <2>. QED
    BY <1>3, <2>3, <2>4 DEF HierarchyOnFile
<1>. QED
  BY <1>12, <1>13, <1>15, <1>16 DEF TypesInv

\* The hierarchy is written once, when it is closed.
LEMMA FlushHierarchyFits ==
  ASSUME TypesMove, phase = "open", NEW h \in 1..Len(hiers), FlushHierarchy(h)
  PROVE  TypesInv'
<1>1. PICK new : new = [hiers[h] EXCEPT !.open = FALSE]
  OBVIOUS
<1>2. PICK blk : blk = [type |-> "HIER", id |-> hiers[h].id, strs |-> hiers[h].strs, vars |-> hiers[h].vars]
  OBVIOUS
<1>3. /\ hiers[h].open /\ UNCHANGED <<phase, typereg, derived, varTypes, blks>>
      /\ file' = Append(file, blk)
  BY <1>2 DEF FlushHierarchy, metaVars, blkVars, auxVars
<1>4. hiers' = [hiers EXCEPT ![h] = new]
  BY <1>1, TypesFacts DEF FlushHierarchy
<1>5. new.vars = hiers[h].vars /\ ~new.open
  BY <1>1, TypesFacts DEF Hierarchies
<1>6. Len(hiers) = 1 /\ h = 1
  BY OnlyHierarchy
<1>7. Len(hiers') = 1 /\ hiers'[1] = new
  BY <1>4, <1>6, TypesFacts
<1>8. \A v, e : InHierarchy(v, e)' => InHierarchy(v, e)
  BY <1>3, <1>5, <1>6, <1>7 DEF InHierarchy
<1>9. TypesKnown'
  BY <1>3, <1>8 DEF TypesMove, TypesInv, TypesKnown, Declared
<1>10. blks = << >> /\ blks' = << >>
  BY <1>3, NoContextsYet
<1>11. SetupOver'
  BY <1>7, <1>10 DEF SetupOver
<1>12. Len(file') = Len(file) + 1 /\ file'[Len(file) + 1] = blk
  BY <1>3, TypesFacts
<1>13. ContextsFit' /\ BlocksFit'
  <2>1. \A n \in Len(file) + 1..Len(file') : n = Len(file) + 1
    BY <1>12, TypesFacts
  <2>2. \A n \in Len(file) + 1..Len(file') : file'[n].type # "VC"
    BY <1>2, <1>12, <2>1
  <2>. QED
    BY <1>10, <2>2, NoContextsFit
<1>14. HierarchyOnFile'
  <2>1. HierarchyOnFile
    BY DEF TypesMove, TypesInv
  <2>2. \A g \in 1..Len(hiers) : hiers[g].open
    BY <1>3, <1>6
  <2>3. \A n \in 1..Len(file) : file[n].type # "HIER"
    BY <2>1, <2>2 DEF HierarchyOnFile
  <2>4. \A n \in 1..Len(file') : n \in 1..Len(file) \/ n = Len(file) + 1
    BY <1>12, TypesFacts
  <2>5. \A n \in 1..Len(file') : file'[n].type = "HIER" => n = Len(file) + 1 /\ file'[n] = blk
    BY <1>12, <2>3, <2>4, TypesFacts
  <2>6. blk.type = "HIER" /\ blk.vars = hiers[h].vars
    BY <1>2
  <2>7. Len(file) + 1 \in 1..Len(file')
    BY <1>12, TypesFacts
  <2>8. phase' = "open"
    BY <1>3
  <2>. QED
    BY <1>5, <1>6, <1>7, <1>12, <2>5, <2>6, <2>7, <2>8 DEF HierarchyOnFile
<1>. QED
  BY <1>9, <1>11, <1>13, <1>14 DEF TypesInv

\* Declarations.
LEMMA DeclareFits ==
  ASSUME TypesMove, phase = "open", Declare
  PROVE  TypesInv'
<1>1. CASE \/ \E s \in Names : InternString(s) \/ AddTxnSchema(s) \/ AddStreamType(s)
           \/ \E e \in Enc : AddSignalType(e)
           \/ \E s, v \in Names : AddTraceMetadata(s, v)
  <2>1. UNCHANGED <<phase, file, hiers, derived, varTypes, blks>>
    BY <1>1 DEF InternString, AddTxnSchema, AddStreamType, AddSignalType, AddTraceMetadata,
                fileVars, hierVars, blkVars, auxVars
  <2>2. \A i \in 1..Len(typereg.sigs) : typereg'.sigs[i] = typereg.sigs[i]
    <3>1. typereg = [sigs |-> typereg.sigs, schemas |-> typereg.schemas, streams |-> typereg.streams]
          /\ typereg.sigs \in Seq(Enc)
      BY DEF TypesMove, WriterInv, TypeOK, HierTypes, Registry
    <3>2. CASE \E e \in Enc : AddSignalType(e)
      <4>1. PICK e \in Enc : typereg' = [typereg EXCEPT !.sigs = Append(@, e)]
        BY <3>2 DEF AddSignalType
      <4>2. typereg'.sigs = Append(typereg.sigs, e)
        BY <3>1, <4>1
      <4>. QED
        BY <3>1, <4>2
    <3>3. CASE \E s \in Names : InternString(s) \/ AddTxnSchema(s) \/ AddStreamType(s)
      <4>1. PICK s \in Names : InternString(s) \/ AddTxnSchema(s) \/ AddStreamType(s)
        BY <3>3
      <4>2. InternString(s) => typereg'.sigs = typereg.sigs
        BY DEF InternString
      <4>3. AddTxnSchema(s) => typereg'.sigs = typereg.sigs
        BY <3>1 DEF AddTxnSchema
      <4>4. AddStreamType(s) => typereg'.sigs = typereg.sigs
        BY <3>1 DEF AddStreamType
      <4>. QED
        BY <4>1, <4>2, <4>3, <4>4
    <3>4. CASE \E s, v \in Names : AddTraceMetadata(s, v)
      BY <3>4 DEF AddTraceMetadata
    <3>. QED
      BY <1>1, <3>2, <3>3, <3>4
  <2>3. \A n \in Len(file) + 1..Len(file') : FALSE
    BY <2>1, TypesFacts
  <2>4. Alike
    BY <2>1 DEF Alike
  <2>. QED
    BY <2>1, <2>2, <2>3, <2>4, TypesKept
<1>2. CASE FlushStringTable \/ FlushTypeRegistry
  <2>1. FileTypes /\ MaxFlushes = 0
    BY DEF TypesMove, WriterInv, TypeOK, OneTypeEach
  <2>. QED
    BY <1>2, <2>1, NoFlush
<1>3. ASSUME NEW h \in 1..Len(hiers), EndScope(h) \/ \E s, c \in Names : BeginScope(h, s, c)
      PROVE  TypesInv'
  <2>1. UNCHANGED <<phase, file, typereg, derived, varTypes, blks>>
    BY <1>3 DEF BeginScope, EndScope, fileVars, metaVars, blkVars, auxVars
  <2>2. \E new : /\ hiers' = [hiers EXCEPT ![h] = new]
                 /\ new.vars = hiers[h].vars /\ new.open = hiers[h].open
    <3>1. CASE EndScope(h)
      <4>1. PICK new : new = [hiers[h] EXCEPT !.stack = SubSeq(@, 1, Len(@) - 1)]
        OBVIOUS
      <4>2. hiers' = [hiers EXCEPT ![h] = new]
        BY <3>1, <4>1, TypesFacts DEF EndScope
      <4>3. new.vars = hiers[h].vars /\ new.open = hiers[h].open
        BY <4>1, TypesFacts DEF Hierarchies
      <4>. QED
        BY <4>2, <4>3
    <3>2. CASE \E s, c \in Names : BeginScope(h, s, c)
      <4>1. PICK s, c \in Names : BeginScope(h, s, c)
        BY <3>2
      <4>2. PICK new : new = [hiers[h] EXCEPT !.stack = Append(@, scopes + 1),
                                              !.strs = @ \cup {IdOf(strtab', s), IdOf(strtab', c)}]
        OBVIOUS
      <4>3. hiers' = [hiers EXCEPT ![h] = new]
        BY <4>1, <4>2, TypesFacts DEF BeginScope
      <4>4. new.vars = hiers[h].vars /\ new.open = hiers[h].open
        BY <4>2, TypesFacts DEF Hierarchies
      <4>. QED
        BY <4>3, <4>4
    <3>. QED
      BY <1>3, <3>1, <3>2
  <2>3. PICK new : /\ hiers' = [hiers EXCEPT ![h] = new]
                   /\ new.vars = hiers[h].vars /\ new.open = hiers[h].open
    BY <2>2
  <2>4. Alike
    BY <2>3, TypesFacts DEF Alike
  <2>5. \A n \in Len(file) + 1..Len(file') : FALSE
    BY <2>1, TypesFacts
  <2>. QED
    BY <2>1, <2>4, <2>5, TypesKept
<1>. QED
  BY <1>1, <1>2, <1>3, BeginHierarchyFits, AddVarFits, FlushHierarchyFits DEF Declare

\* No variable is declared anew in a hierarchy, and none is lost.
MoreDeclared ==
  \A v, e : (InHierarchy(v, e)' <=> InHierarchy(v, e)) /\ (Declared(v, e) => Declared(v, e)')

LEMMA DerivedIds ==
  ASSUME NEW m \in Nat, NEW n \in Nat, m <= n, NEW v \in DerivedBase..DerivedBase + m - 1
  PROVE  v \in DerivedBase..DerivedBase + n - 1
<1>1. v \in Int /\ DerivedBase <= v /\ v <= DerivedBase + m - 1
  BY DEF DerivedBase
<1>2. v <= DerivedBase + n - 1
  BY <1>1 DEF DerivedBase
<1>. QED
  BY <1>1, <1>2 DEF DerivedBase

LEMMA RecordDeclared ==
  ASSUME TypesMove, UNCHANGED <<hiers, typereg>>, derived' \in Nat, derived <= derived',
         \A v \in DerivedBase..DerivedBase + derived - 1 :
           v \in DOMAIN varTypes => v \in DOMAIN varTypes' /\ varTypes'[v] = varTypes[v]
  PROVE  MoreDeclared /\ Alike
<1>1. \A v, e : InHierarchy(v, e)' <=> InHierarchy(v, e)
  BY DEF InHierarchy
<1>a. PICK m \in Nat, n \in Nat : m = derived /\ n = derived' /\ m <= n
  BY TypesCounts
<1>b. \A v : v \in DerivedBase..DerivedBase + m - 1 => v \in DerivedBase..DerivedBase + n - 1
  BY <1>a, DerivedIds
<1>2. \A v : v \in DerivedBase..DerivedBase + derived - 1 => v \in DerivedBase..DerivedBase + derived' - 1
  BY <1>a, <1>b
<1>3. ASSUME NEW v, NEW e, Declared(v, e) PROVE Declared(v, e)'
  <2>1. CASE InHierarchy(v, e)
    BY <1>1, <2>1 DEF Declared
  <2>2. CASE v \in DerivedBase..DerivedBase + derived - 1 /\ v \in DOMAIN varTypes /\ varTypes[v] = e /\ e = DefaultEnc
    BY <1>2, <2>2 DEF Declared
  <2>. QED
    BY <1>3, <2>1, <2>2 DEF Declared
<1>. QED
  BY <1>1, <1>3 DEF MoreDeclared, Alike

\* A context stays fit for its blocks as more variables are declared.
LEMMA StillFits ==
  ASSUME MoreDeclared, NEW c, Fits(c)
  PROVE  Fits(c)'
BY DEF Fits, MoreDeclared

\* A context changed in its place keeps its types and takes changes of variables of
\* the hierarchy only.
LEMMA ContextFits ==
  ASSUME TypesMove, MoreDeclared, NEW b \in 1..Len(blks), NEW new,
         blks' = [blks EXCEPT ![b] = new], new.kind = blks[b].kind, new.types = blks[b].types,
         blks[b].kind = "vc" =>
           \A r \in new.recs \cup new.init :
             \/ r \in blks[b].recs \cup blks[b].init
             \/ InHierarchy(r.var, r.ty) /\ r.var \in VarIds /\ r.ty \in Enc
  PROVE  ContextsFit'
<1>1. Len(blks') = Len(blks) /\ \A c \in 1..Len(blks) : blks'[c] = IF c = b THEN new ELSE blks[c]
  BY TypesFacts
<1>2. ContextsFit
  BY DEF TypesMove, TypesInv
<1>3. ASSUME NEW c \in 1..Len(blks), blks'[c].kind = "vc"
      PROVE  /\ Fits(blks[c])' /\ blks'[c].types = blks[c].types /\ blks[c].kind = "vc"
  <2>1. PICK old : old = blks[c]
    OBVIOUS
  <2>2. PICK now : now = blks'[c]
    OBVIOUS
  <2>3. old.kind = "vc" /\ now.types = old.types
    BY <1>1, <1>3, <2>1, <2>2
  <2>4. Fits(old)
    BY <1>2, <2>1, <2>3 DEF ContextsFit
  <2>5. Fits(old)'
    BY <2>4, StillFits
  <2>6. \A v \in VarIds, e \in Enc : InHierarchy(v, e) => v \in DOMAIN old.types /\ old.types[v] = e
    BY <1>2, <2>1, <2>3 DEF ContextsFit
  <2>7. \A r \in now.recs \cup now.init :
          \/ r \in old.recs \cup old.init
          \/ InHierarchy(r.var, r.ty) /\ r.var \in VarIds /\ r.ty \in Enc
    BY <1>1, <2>1, <2>2, <2>3
  <2>8. \A r : InHierarchy(r.var, r.ty) => Declared(r.var, r.ty)'
    BY DEF MoreDeclared, Declared
  <2>9. Fits(now)'
    BY <2>3, <2>5, <2>6, <2>7, <2>8 DEF Fits
  <2>10. Fits(now)' <=> Fits(blks[c])'
    BY <2>2 DEF Fits
  <2>. QED
    BY <2>1, <2>2, <2>3, <2>9, <2>10
<1>4. ASSUME NEW c \in 1..Len(blks'), blks'[c].kind = "vc"
      PROVE  /\ Fits(blks[c])'
             /\ \A v \in VarIds, e \in Enc : InHierarchy(v, e)' =>
                  v \in DOMAIN blks'[c].types /\ blks'[c].types[v] = e
  <2>1. c \in 1..Len(blks)
    BY <1>1
  <2>2. Fits(blks[c])' /\ blks'[c].types = blks[c].types /\ blks[c].kind = "vc"
    BY <1>3, <1>4, <2>1
  <2>3. \A v \in VarIds, e \in Enc : InHierarchy(v, e) => v \in DOMAIN blks[c].types /\ blks[c].types[v] = e
    BY <1>2, <2>1, <2>2 DEF ContextsFit
  <2>. QED
    BY <2>2, <2>3 DEF MoreDeclared
<1>. QED
  BY <1>4 DEF ContextsFit

\* A context begun knows the types of all variables of the hierarchy.
LEMMA BegunFits ==
  ASSUME TypesMove, MoreDeclared, NEW new, blks' = Append(blks, new),
         new.kind = "vc" => Fits(new)' /\ new.types = SigTypes(varTypes'), TypesKnown'
  PROVE  ContextsFit'
<1>1. /\ Len(blks) \in Nat /\ Len(blks') = Len(blks) + 1 /\ blks'[Len(blks) + 1] = new
      /\ \A b \in 1..Len(blks) : blks'[b] = blks[b]
  BY TypesFacts
<1>2. \A b \in 1..Len(blks') : b \in 1..Len(blks) \/ b = Len(blks) + 1
  BY <1>1
<1>3. ContextsFit
  BY DEF TypesMove, TypesInv
<1>4. ASSUME NEW b \in 1..Len(blks), blks'[b].kind = "vc"
      PROVE  /\ Fits(blks[b])'
             /\ \A v \in VarIds, e \in Enc : InHierarchy(v, e)' =>
                  v \in DOMAIN blks'[b].types /\ blks'[b].types[v] = e
  <2>1. PICK old : old = blks[b]
    OBVIOUS
  <2>2. /\ Fits(old) /\ blks'[b] = old
        /\ \A v \in VarIds, e \in Enc : InHierarchy(v, e) => v \in DOMAIN old.types /\ old.types[v] = e
    BY <1>1, <1>3, <1>4, <2>1 DEF ContextsFit
  <2>3. Fits(old)'
    BY <2>2, StillFits
  <2>4. Fits(old)' <=> Fits(blks[b])'
    BY <2>2 DEF Fits
  <2>. QED
    BY <2>2, <2>3, <2>4 DEF MoreDeclared
<1>5. ASSUME NEW b \in 1..Len(blks'), b = Len(blks) + 1, blks'[b].kind = "vc"
      PROVE  /\ Fits(blks[b])'
             /\ \A v \in VarIds, e \in Enc : InHierarchy(v, e)' =>
                  v \in DOMAIN blks'[b].types /\ blks'[b].types[v] = e
  <2>1. blks'[b] = new /\ Fits(new)' /\ new.types = SigTypes(varTypes')
    BY <1>1, <1>5
  <2>2. Fits(new)' <=> Fits(blks[b])'
    BY <2>1 DEF Fits
  <2>3. \A v \in DOMAIN varTypes' : v \in DOMAIN new.types /\ new.types[v] = varTypes'[v]
    BY <2>1 DEF SigTypes
  <2>4. ASSUME NEW v \in VarIds, NEW e \in Enc, InHierarchy(v, e)'
        PROVE  v \in DOMAIN new.types /\ new.types[v] = e
    <3>1. v \in DOMAIN varTypes' /\ varTypes'[v] = e
      BY <2>4 DEF TypesKnown, Declared
    <3>. QED
      BY <2>3, <3>1
  <2>. QED
    BY <2>1, <2>2, <2>4
<1>. QED
  BY <1>2, <1>4, <1>5 DEF ContextsFit

\* Blocks made of contexts that fit are written.
LEMMA BlocksWrittenFit ==
  ASSUME TypesMove, MoreDeclared, NEW off \in Nat, NEW m \in Nat, NEW parts, NEW id,
         Len(file) <= off, Len(parts) = m, Len(file') = off + m, blks' # << >>,
         \A n \in Len(file) + 1..off : file'[n].type # "VC",
         \A i \in 1..m : file'[off + i] = VcBlocks(parts, id)[i],
         \A i \in 1..m : Fits(parts[i])'
  PROVE  BlocksFit'
<1>1. BlocksFit
  BY DEF TypesMove, TypesInv
<1>2. ASSUME NEW i \in 1..m, NEW c, c = parts[i]
      PROVE  \A r \in file'[off + i].recs : Declared(r.var, r.ty)' /\ file'[off + i].enc[r.var] = r.ty
  <2>1. PICK kept : kept = {r \in c.init : \A s \in c.recs : s.var # r.var}
    OBVIOUS
  <2>a. file'[off + i] = VcBlock(c, id)
    BY <1>2 DEF VcBlocks
  <2>b. VcBlock(c, id) = [type |-> "VC", codec |-> id, recs |-> c.recs \cup kept,
                          enc |-> [v \in {r.var : r \in c.recs \cup kept} |-> EncodedType(c, v)]]
    BY <2>1 DEF VcBlock
  <2>2. /\ file'[off + i].recs = c.recs \cup kept
        /\ file'[off + i].enc = [v \in {r.var : r \in c.recs \cup kept} |-> EncodedType(c, v)]
    BY <2>a, <2>b
  <2>3. ASSUME NEW r \in c.recs \cup kept
        PROVE  Declared(r.var, r.ty)' /\ EncodedType(c, r.var) = r.ty
    <3>1. r \in c.recs \cup c.init /\ Fits(c)'
      BY <1>2, <2>1, <2>3
    <3>. QED
      BY <3>1 DEF Fits, EncodedType
  <2>. QED
    BY <2>2, <2>3
<1>3. ASSUME NEW n \in 1..Len(file'), file'[n].type = "VC"
      PROVE  \A r \in file'[n].recs : Declared(r.var, r.ty)' /\ file'[n].enc[r.var] = r.ty
  <2>1. CASE n \in 1..Len(file)
    <3>1. file'[n] = file[n]
      BY <2>1, TypesFacts
    <3>2. \A r \in file[n].recs : Declared(r.var, r.ty) /\ file[n].enc[r.var] = r.ty
      BY <1>1, <1>3, <2>1, <3>1 DEF BlocksFit
    <3>. QED
      BY <3>1, <3>2 DEF MoreDeclared
  <2>2. CASE n \notin 1..Len(file)
    <3>1. n \notin Len(file) + 1..off
      BY <1>3
    <3>2. n - off \in 1..m /\ n = off + (n - off)
      BY <2>2, <3>1, TypesCounts
    <3>3. PICK i \in 1..m : n = off + i
      BY <3>2
    <3>4. PICK c : c = parts[i]
      OBVIOUS
    <3>. QED
      BY <1>2, <3>3, <3>4
  <2>. QED
    BY <2>1, <2>2
<1>. QED
  BY <1>3 DEF BlocksFit

\* None is written.
LEMMA NoBlocksFit ==
  ASSUME TypesMove, MoreDeclared, blks # << >> => blks' # << >>,
         \A n \in Len(file) + 1..Len(file') : file'[n].type # "VC"
  PROVE  BlocksFit'
<1>1. BlocksFit
  BY DEF TypesMove, TypesInv
<1>2. \A n \in 1..Len(file') : n \in 1..Len(file) \/ n \in Len(file) + 1..Len(file')
  BY TypesFacts
<1>3. \A n \in 1..Len(file') : file'[n].type = "VC" => n \in 1..Len(file) /\ file'[n] = file[n]
  BY <1>2, TypesFacts
<1>4. ASSUME NEW n \in 1..Len(file'), file'[n].type = "VC"
      PROVE  /\ blks' # << >>
             /\ \A r \in file'[n].recs : Declared(r.var, r.ty)' /\ file'[n].enc[r.var] = r.ty
  <2>1. n \in 1..Len(file) /\ file'[n] = file[n] /\ file[n].type = "VC"
    BY <1>3, <1>4
  <2>2. blks # << >> /\ \A r \in file[n].recs : Declared(r.var, r.ty) /\ file[n].enc[r.var] = r.ty
    BY <1>1, <2>1 DEF BlocksFit
  <2>. QED
    BY <2>1, <2>2 DEF MoreDeclared
<1>. QED
  BY <1>4 DEF BlocksFit

\* What a record step has to show.
LEMMA RecordFits ==
  ASSUME TypesMove, phase' = "open", UNCHANGED hiers, blks' # << >> => blks # << >> \/ MayRecord,
         \A n \in Len(file) + 1..Len(file') : file'[n].type # "HIER",
         TypesKnown', ContextsFit', BlocksFit'
  PROVE  TypesInv'
<1>1. Alike
  BY DEF Alike
<1>2. SetupOver'
  BY DEF TypesMove, TypesInv, OneTypeEach, SetupOver, MayRecord
<1>. QED
  BY <1>1, <1>2, HierarchyFileKept DEF TypesInv

\* The contexts a flush encodes fit, as the one it was called on and the one the
\* shared state holds do.
LEMMA PartsFit ==
  ASSUME TypesMove, NEW b \in 1..Len(blks), blks[b].kind = "vc", NEW whole \in VcParts(b),
         NEW i \in 1..Len(whole), NEW part, part = whole[i]
  PROVE  Fits(part)
<1>1. \A c \in 1..Len(blks) : blks[c].kind = "vc" => Fits(blks[c]) /\ blks[c] \in VcContexts
  <2>1. ContextsFit
    BY DEF TypesMove, TypesInv
  <2>. QED
    BY <2>1, TypesFacts DEF ContextsFit, VcContexts, TxnContexts
<1>2. whole \in Seq(VcContexts)
  BY VcPartsProperties DEF TypesMove, WriterInv
<1>3. CASE blks[b].codec = "core" /\ ScopeGrouped
  <2>1. PICK order \in ScopeOrders(blks[b]) : whole = [k \in 1..Len(order) |-> ScopePart(blks[b], order[k])]
    BY <1>3 DEF VcParts
  <2>2. i \in DOMAIN whole
    BY <1>2
  <2>3. PICK s : part = ScopePart(blks[b], s)
    BY <2>1, <2>2
  <2>4. PICK c : c = blks[b]
    OBVIOUS
  <2>5. Fits(c) /\ c \in VcContexts
    BY <1>1, <2>4
  <2>6. PICK end : end = EndTime(c.start, {r \in c.recs : ScopeOf(r.var) = s})
    OBVIOUS
  <2>7. part = [c EXCEPT !.recs = {r \in c.recs : ScopeOf(r.var) = s},
                         !.init = {r \in c.init : ScopeOf(r.var) = s}, !.end = end]
    BY <2>3, <2>4, <2>6 DEF ScopePart
  <2>8. part.recs \subseteq c.recs /\ part.init \subseteq c.init /\ part.types = c.types
    BY <2>5, <2>7 DEF VcContexts
  <2>. QED
    BY <2>5, <2>8 DEF Fits
<1>4. CASE ~(blks[b].codec = "core" /\ ScopeGrouped)
  <2>1. whole = <<IF blks[b].codec = "core" THEN blks[vcState] ELSE blks[b]>>
    BY <1>4 DEF VcParts
  <2>2. part = IF blks[b].codec = "core" THEN blks[vcState] ELSE blks[b]
    BY <2>1
  <2>3. blks[b].codec = "core" => vcState \in 1..Len(blks) /\ blks[vcState].kind = "vc"
    <3>1. blks[b].codec = "core" => vcState \in 1..Len(blks) /\ blks[vcState].codec = "core"
      BY TypesFacts DEF TypesMove, WriterInv, TypeOK, BlkTypes
    <3>2. \A c \in 1..Len(blks) : blks[c].codec = "core" => blks[c].kind = "vc"
      BY TypesFacts DEF VcContexts, TxnContexts
    <3>. QED
      BY <3>1, <3>2
  <2>. QED
    BY <1>1, <2>2, <2>3
<1>. QED
  BY <1>3, <1>4

\* Value changes carry the type of their variable's declaration.
LEMMA ChangesFit ==
  ASSUME TypesMove, phase = "open", RecordChanges
  PROVE  TypesInv'
<1>1. UNCHANGED <<phase, hiers, typereg, derived, varTypes>>
  <2>1. \A c, t : BeginVc(c, t) => UNCHANGED <<phase, hiers, typereg, derived, varTypes>>
    BY DEF BeginVc, fileVars, metaVars, hierVars, auxVars
  <2>2. \A b, h, k, t : AddChange(b, h, k, t) => UNCHANGED <<phase, hiers, typereg, derived, varTypes>>
    BY DEF AddChange, fileVars, metaVars, hierVars, auxVars
  <2>3. \A b, h, k : SetInitial(b, h, k) => UNCHANGED <<phase, hiers, typereg, derived, varTypes>>
    BY DEF SetInitial, fileVars, metaVars, hierVars, auxVars
  <2>4. \A b : FlushVc(b) => UNCHANGED <<phase, hiers, typereg, derived, varTypes>>
    BY DEF FlushVc, hierVars, auxVars
  <2>. QED
    BY <2>1, <2>2, <2>3, <2>4 DEF RecordChanges
<1>2. MoreDeclared
  BY <1>1, RecordDeclared, TypesFacts
<1>3. TypesKnown'
  <2>1. \A v, e : Declared(v, e)' => Declared(v, e)
    BY <1>1 DEF Declared, InHierarchy
  <2>. QED
    BY <1>1, <2>1 DEF TypesMove, TypesInv, TypesKnown
<1>4. ASSUME NEW c \in Codecs, NEW t \in Times, BeginVc(c, t) PROVE TypesInv'
  <2>1. PICK new : new = NewVc(c, t)
    OBVIOUS
  <2>2. blks' = Append(blks, new) /\ MayRecord /\ UNCHANGED file
    BY <1>4, <2>1 DEF BeginVc, fileVars
  <2>3. new.recs = {} /\ new.init = {} /\ new.types = SigTypes(varTypes)
    BY <2>1 DEF NewVc
  <2>4. Fits(new)'
    BY <2>3 DEF Fits
  <2>5. SigTypes(varTypes) = SigTypes(varTypes')
    BY <1>1 DEF SigTypes
  <2>6. ContextsFit'
    BY <1>2, <1>3, <2>2, <2>3, <2>4, <2>5, BegunFits
  <2>7. \A n \in Len(file) + 1..Len(file') : FALSE
    BY <2>2, TypesFacts
  <2>8. blks # << >> => blks' # << >>
    BY <2>2, TypesFacts
  <2>9. BlocksFit'
    BY <1>2, <2>7, <2>8, NoBlocksFit
  <2>. QED
    BY <1>1, <1>3, <2>2, <2>6, <2>7, <2>9, RecordFits
<1>5. ASSUME NEW b \in 1..Len(blks), NEW h \in 1..Len(hiers), NEW k \in 1..MaxVars,
             (\E t \in Times : AddChange(b, h, k, t)) \/ SetInitial(b, h, k)
      PROVE  TypesInv'
  <2>1. UNCHANGED file /\ blks[b].kind = "vc" /\ k \in 1..Len(hiers[h].vars)
    BY <1>5 DEF AddChange, SetInitial, fileVars
  <2>2. PICK ty : ty = typereg.sigs[hiers[h].vars[k]]
    OBVIOUS
  <2>3. InHierarchy(k, ty) /\ k \in VarIds /\ ty \in Enc
    BY <2>1, <2>2, TypesFacts DEF InHierarchy, VarIds
  <2>4. blks[b] \in VcContexts
    BY <2>1, TypesFacts DEF VcContexts, TxnContexts
  <2>5. \E new : /\ blks' = [blks EXCEPT ![b] = new]
                 /\ new.kind = blks[b].kind /\ new.types = blks[b].types
                 /\ \A r \in new.recs \cup new.init :
                      r \in blks[b].recs \cup blks[b].init \/ (r.var = k /\ r.ty = ty)
    <3>1. CASE \E t \in Times : AddChange(b, h, k, t)
      <4>1. PICK t \in Times : AddChange(b, h, k, t)
        BY <3>1
      <4>2. PICK rec : rec = [var |-> k, time |-> t, ty |-> ty, n |-> Cardinality(blks[b].recs)]
        OBVIOUS
      <4>3. PICK new : new = [blks[b] EXCEPT !.recs = @ \cup {rec}, !.end = Later(@, t)]
        OBVIOUS
      <4>4. blks' = [blks EXCEPT ![b] = new]
        BY <2>2, <4>1, <4>2, <4>3, TypesFacts DEF AddChange
      <4>5. /\ new.kind = blks[b].kind /\ new.types = blks[b].types
            /\ new.recs = blks[b].recs \cup {rec} /\ new.init = blks[b].init
        BY <2>4, <4>3 DEF VcContexts
      <4>6. rec.var = k /\ rec.ty = ty
        BY <4>2
      <4>. QED
        BY <4>4, <4>5, <4>6
    <3>2. CASE SetInitial(b, h, k)
      <4>1. DEFINE rec(n) == [var |-> k, time |-> blks[b].start, ty |-> ty, n |-> n]
      <4>2. PICK init : init = IF blks[b].codec = "split" THEN blks[b].init
                               ELSE {r \in blks[b].init : r.var # k} \cup {rec(0)}
        OBVIOUS
      <4>3. PICK recs : recs = IF blks[b].codec = "split"
                               THEN blks[b].recs \cup {rec(-1 - Cardinality(blks[b].recs))} ELSE blks[b].recs
        OBVIOUS
      <4>4. \A r \in recs \cup init : r \in blks[b].recs \cup blks[b].init \/ \E n : r = rec(n)
        BY <4>2, <4>3
      <4>5. \A n : rec(n).var = k /\ rec(n).ty = ty
        OBVIOUS
      <4>6. PICK new : new = [blks[b] EXCEPT !.init = init, !.recs = recs]
        OBVIOUS
      <4>7. blks' = [blks EXCEPT ![b] = new]
        BY <2>2, <3>2, <4>2, <4>3, <4>6, TypesFacts DEF SetInitial
      <4>8. /\ new.kind = blks[b].kind /\ new.types = blks[b].types /\ new.recs = recs /\ new.init = init
        BY <2>4, <4>6 DEF VcContexts
      <4>. HIDE DEF rec
      <4>9. \A r \in new.recs \cup new.init : r \in blks[b].recs \cup blks[b].init \/ (r.var = k /\ r.ty = ty)
        BY <4>4, <4>5, <4>8
      <4>. QED
        BY <4>7, <4>8, <4>9
    <3>. QED
      BY <1>5, <3>1, <3>2
  <2>6. PICK new : /\ blks' = [blks EXCEPT ![b] = new]
                   /\ new.kind = blks[b].kind /\ new.types = blks[b].types
                   /\ \A r \in new.recs \cup new.init :
                        r \in blks[b].recs \cup blks[b].init \/ (r.var = k /\ r.ty = ty)
    BY <2>5
  <2>7. \A r \in new.recs \cup new.init :
          \/ r \in blks[b].recs \cup blks[b].init
          \/ InHierarchy(r.var, r.ty) /\ r.var \in VarIds /\ r.ty \in Enc
    BY <2>3, <2>6
  <2>8. ContextsFit'
    BY <1>2, <2>6, <2>7, ContextFits
  <2>9. \A n \in Len(file) + 1..Len(file') : FALSE
    BY <2>1, TypesFacts
  <2>10. blks # << >> /\ blks' # << >>
    BY <2>6, TypesFacts
  <2>11. BlocksFit'
    BY <1>2, <2>9, <2>10, NoBlocksFit
  <2>. QED
    BY <1>1, <1>3, <2>8, <2>9, <2>10, <2>11, RecordFits
<1>6. ASSUME NEW b \in 1..Len(blks), FlushVc(b) PROVE TypesInv'
  <2>1. blks[b].kind = "vc" /\ blks[b] \in VcContexts
    BY <1>6, TypesFacts DEF FlushVc, VcContexts, TxnContexts
  <2>a. PICK o \in {FALSE, blks[b].open} : blks' = [blks EXCEPT ![b] = [blks[b] EXCEPT !.open = o]]
    BY <1>6, FlushedContext DEF FlushVc, TypesMove, WriterInv, TypeOK
  <2>2. PICK new : new = [blks[b] EXCEPT !.open = o]
    OBVIOUS
  <2>3. /\ new.kind = blks[b].kind /\ new.types = blks[b].types
        /\ new.recs = blks[b].recs /\ new.init = blks[b].init
    BY <2>1, <2>2 DEF VcContexts
  <2>4. blks' = [blks EXCEPT ![b] = new]
    BY <2>a, <2>2
  <2>5. ContextsFit'
    BY <1>2, <2>3, <2>4, ContextFits
  <2>6. PICK parts \in Seq(VcContexts), id \in Nat :
          /\ Len(file') = Len(file) + Len(parts)
          /\ \A i \in 1..Len(parts) : file'[Len(file) + i] = VcBlocks(parts, id)[i]
          /\ \E whole \in VcParts(b) :
               /\ whole \in Seq(VcContexts) /\ Encoded(whole, Len(parts))
               /\ \A i \in 1..Len(parts) : parts[i] = whole[i]
    BY <1>6, FlushVcWrites DEF TypesMove, WriterInv
  <2>7. PICK whole \in VcParts(b) :
          /\ whole \in Seq(VcContexts) /\ Encoded(whole, Len(parts))
          /\ \A i \in 1..Len(parts) : parts[i] = whole[i]
    BY <2>6
  <2>8. Len(parts) \in Nat /\ Len(parts) <= Len(whole) /\ Len(whole) \in Nat
    BY <2>6, <2>7 DEF Encoded
  <2>9. \A i \in 1..Len(parts) : Fits(parts[i])'
    <3>1. TAKE i \in 1..Len(parts)
    <3>2. i \in 1..Len(whole) /\ parts[i] = whole[i]
      BY <2>7, <2>8
    <3>3. Fits(parts[i])
      BY <2>1, <2>7, <3>2, PartsFit
    <3>. QED
      BY <1>2, <3>3, StillFits
  <2>10. blks # << >> /\ blks' # << >>
    BY <2>4, TypesFacts
  <2>11. Len(file) \in Nat /\ \A n \in Len(file) + 1..Len(file) : file'[n].type # "VC"
    BY TypesCounts
  <2>12. BlocksFit'
    <3>1. PICK off \in Nat, m \in Nat : off = Len(file) /\ m = Len(parts)
      BY <2>8, <2>11
    <3>2. Len(file) <= off /\ Len(parts) = m /\ Len(file') = off + m
      BY <2>6, <3>1
    <3>3. \A n \in Len(file) + 1..off : file'[n].type # "VC"
      BY <2>11, <3>1
    <3>4. \A i \in 1..m : file'[off + i] = VcBlocks(parts, id)[i]
      BY <2>6, <3>1
    <3>5. \A i \in 1..m : Fits(parts[i])'
      BY <2>9, <3>1
    <3>. QED
      BY <1>2, <2>10, <3>2, <3>3, <3>4, <3>5, BlocksWrittenFit
  <2>13. \A n \in Len(file) + 1..Len(file') : file'[n].type # "HIER"
    <3>1. \A i \in 1..Len(parts) : VcBlocks(parts, id)[i].type = "VC"
      BY DEF VcBlocks, VcBlock
    <3>2. TAKE n \in Len(file) + 1..Len(file')
    <3>3. n - Len(file) \in 1..Len(parts) /\ Len(file) + (n - Len(file)) = n
      BY <2>6, <2>8, TypesFacts
    <3>. QED
      BY <2>6, <3>1, <3>3
  <2>. QED
    BY <1>1, <1>3, <2>5, <2>10, <2>12, <2>13, RecordFits
<1>. QED
  BY <1>4, <1>5, <1>6 DEF RecordChanges

\* Transactions have nothing to do with the types of variables.
LEMMA TxnsFit ==
  ASSUME TypesMove, phase = "open", RecordTxns
  PROVE  TypesInv'
<1>1. UNCHANGED <<phase, hiers, typereg, derived, varTypes>>
  <2>1. \A sid, t : BeginTxn(sid, t) => UNCHANGED <<phase, hiers, typereg, derived, varTypes>>
    BY DEF BeginTxn, fileVars, metaVars, hierVars, auxVars
  <2>2. \A b, rec, until : AddRecord(b, rec, until) => UNCHANGED <<phase, hiers, typereg, derived, varTypes>>
    BY DEF AddRecord, fileVars, hierVars, auxVars
  <2>3. \A b : FlushTxn(b) => UNCHANGED <<phase, hiers, typereg, derived, varTypes>>
    BY DEF FlushTxn, metaVars, hierVars, auxVars
  <2>. QED
    BY <2>1, <2>2, <2>3 DEF RecordTxns, WriteFull, WriteBegin, WriteEnd, WriteNote, WriteMeta
<1>2. MoreDeclared
  BY <1>1, RecordDeclared, TypesFacts
<1>3. TypesKnown'
  <2>1. \A v, e : Declared(v, e)' => Declared(v, e)
    BY <1>1 DEF Declared, InHierarchy
  <2>. QED
    BY <1>1, <2>1 DEF TypesMove, TypesInv, TypesKnown
<1>4. ASSUME NEW sid \in BlockStreams, NEW t \in Times, BeginTxn(sid, t) PROVE TypesInv'
  <2>1. PICK new : new = NewTxn(sid, t)
    OBVIOUS
  <2>2. blks' = Append(blks, new) /\ MayRecord /\ UNCHANGED file /\ new.kind = "txn"
    BY <1>4, <2>1 DEF BeginTxn, NewTxn, fileVars
  <2>3. ContextsFit'
    BY <1>2, <1>3, <2>2, BegunFits
  <2>4. \A n \in Len(file) + 1..Len(file') : FALSE
    BY <2>2, TypesFacts
  <2>5. blks # << >> => blks' # << >>
    BY <2>2, TypesFacts
  <2>6. BlocksFit'
    BY <1>2, <2>4, <2>5, NoBlocksFit
  <2>. QED
    BY <1>1, <1>3, <2>2, <2>3, <2>4, <2>6, RecordFits
<1>5. ASSUME NEW b \in 1..Len(blks), NEW new, blks' = [blks EXCEPT ![b] = new],
             blks[b].kind = "txn", new.kind = blks[b].kind, new.types = blks[b].types,
             \A n \in Len(file) + 1..Len(file') : file'[n].type = "TXN"
      PROVE  TypesInv'
  <2>1. ContextsFit'
    BY <1>2, <1>5, ContextFits
  <2>2. blks # << >> /\ blks' # << >>
    BY <1>5, TypesFacts
  <2>3. \A n \in Len(file) + 1..Len(file') : file'[n].type # "VC" /\ file'[n].type # "HIER"
    BY <1>5
  <2>4. BlocksFit'
    BY <1>2, <2>2, <2>3, NoBlocksFit
  <2>. QED
    BY <1>1, <1>3, <2>1, <2>2, <2>3, <2>4, RecordFits
<1>6. ASSUME NEW b \in 1..Len(blks), NEW rec, NEW until, AddRecord(b, rec, until)
      PROVE  TypesInv'
  <2>1. PICK new : new = [blks[b] EXCEPT !.recs = @ \cup {rec}, !.end = Later(@, until)]
    OBVIOUS
  <2>2. blks[b].kind = "txn" /\ UNCHANGED file /\ blks[b] \in VcContexts \cup TxnContexts
    BY <1>6, TypesFacts DEF AddRecord, fileVars
  <2>3. blks' = [blks EXCEPT ![b] = new]
    BY <1>6, <2>1, TypesFacts DEF AddRecord
  <2>4. new.kind = blks[b].kind /\ new.types = blks[b].types
    BY <2>1, <2>2 DEF VcContexts, TxnContexts
  <2>5. \A n \in Len(file) + 1..Len(file') : FALSE
    BY <2>2, TypesFacts
  <2>. QED
    BY <1>5, <2>2, <2>3, <2>4, <2>5
<1>7. ASSUME NEW b \in 1..Len(blks), FlushTxn(b) PROVE TypesInv'
  <2>a. PICK o \in {FALSE, blks[b].open} : blks' = [blks EXCEPT ![b] = [blks[b] EXCEPT !.open = o]]
    BY <1>7, FlushedContext DEF FlushTxn, TypesMove, WriterInv, TypeOK
  <2>1. PICK new : new = [blks[b] EXCEPT !.open = o]
    OBVIOUS
  <2>2. blks[b].kind = "txn" /\ blks[b] \in VcContexts \cup TxnContexts
    BY <1>7, TypesFacts DEF FlushTxn
  <2>3. blks' = [blks EXCEPT ![b] = new]
    BY <2>a, <2>1
  <2>4. new.kind = blks[b].kind /\ new.types = blks[b].types
    BY <2>1, <2>2 DEF VcContexts, TxnContexts
  <2>8. \A n \in Len(file) + 1..Len(file') : file'[n].type = "TXN"
    <3>1. CASE UNCHANGED file
      BY <3>1, TypesFacts
    <3>2. ASSUME NEW blk, file' = Append(file, blk), blk.type = "TXN"
          PROVE  \A n \in Len(file) + 1..Len(file') : file'[n].type = "TXN"
      <4>1. Len(file') = Len(file) + 1 /\ file'[Len(file) + 1] = blk
        BY <3>2, TypesFacts
      <4>2. \A n \in Len(file) + 1..Len(file') : n = Len(file) + 1
        BY <4>1, TypesFacts
      <4>. QED
        BY <3>2, <4>1, <4>2
    <3>3. UNCHANGED file \/ \E blk : file' = Append(file, blk) /\ blk.type = "TXN"
      BY <1>7 DEF FlushTxn, PutTxn
    <3>. QED
      BY <3>1, <3>2, <3>3
  <2>. QED
    BY <1>5, <2>2, <2>3, <2>4, <2>8
<1>8. ASSUME NEW b \in 1..Len(blks), NEW id \in TxnIds,
             \/ \E sid \in Streams, t, u \in Times : WriteFull(b, sid, id, t, u)
             \/ \E sid \in Streams, t \in Times : WriteBegin(b, sid, id, t)
             \/ \E t \in Times : WriteEnd(b, id, t)
             \/ WriteNote(b, id)
             \/ \E s, v \in Names : WriteMeta(b, id, s, v)
      PROVE  TypesInv'
  <2>1. \E rec, until : AddRecord(b, rec, until)
    BY <1>8 DEF WriteFull, WriteBegin, WriteEnd, WriteNote, WriteMeta
  <2>. QED
    BY <1>6, <2>1
<1>. QED
  BY <1>4, <1>7, <1>8 DEF RecordTxns

\* A derived signal is declared under an id that no hierarchy hands out.
LEMMA DerivedKnown ==
  ASSUME TypesMove, NEW e \in DerivedEncs, NEW name \in Names, DeclareDerived(e, name),
         NEW id, id = DerivedBase + derived
  PROVE  /\ TypesKnown' /\ MoreDeclared /\ MayRecord
         /\ UNCHANGED <<phase, hiers, typereg>> /\ derived' = derived + 1
         /\ Declared(id, e)' /\ id \in DOMAIN varTypes' /\ varTypes'[id] = e
<1>1. id = DerivedBase + derived
  OBVIOUS
<1>2. /\ MayRecord /\ UNCHANGED <<phase, hiers, typereg>> /\ derived' = derived + 1
      /\ varTypes' = [v \in DOMAIN varTypes \cup {id} |-> IF v = id THEN e ELSE varTypes[v]]
  BY <1>1 DEF DeclareDerived
<1>0. id \notin DerivedBase..DerivedBase + derived - 1
  BY <1>1, TypesFacts DEF DerivedBase
<1>3. MoreDeclared
  <2>1. \A v \in DerivedBase..DerivedBase + derived - 1 :
          v \in DOMAIN varTypes => v \in DOMAIN varTypes' /\ varTypes'[v] = varTypes[v]
    BY <1>0, <1>2
  <2>2. derived' \in Nat /\ derived <= derived'
    BY <1>2, TypesFacts
  <2>. QED
    BY <1>2, <2>1, <2>2, RecordDeclared
<1>4. e = DefaultEnc
  BY DEF TypesMove, OneTypeEach
<1>5. \A v : v \in DerivedBase..DerivedBase + derived' - 1 <=> (v \in DerivedBase..DerivedBase + derived - 1 \/ v = id)
  BY <1>1, <1>2, TypesFacts DEF DerivedBase
<1>6. Declared(id, e)'
  BY <1>2, <1>4, <1>5 DEF Declared
<1>a. id \notin 1..MaxVars
  BY <1>1, TypesCounts DEF DerivedBase
<1>b. \A h \in 1..Len(hiers) : \A k \in 1..Len(hiers[h].vars) : k \in 1..MaxVars
  BY TypesFacts
<1>7. \A v, f : ~InHierarchy(v, f) \/ v # id
  BY <1>a, <1>b DEF InHierarchy
<1>8. ASSUME NEW v \in VarIds, NEW f \in Enc, Declared(v, f)'
      PROVE  v \in DOMAIN varTypes' /\ varTypes'[v] = f
  <2>1. Declared(v, f) \/ (v = id /\ f = DefaultEnc)
    BY <1>2, <1>3, <1>5, <1>8 DEF MoreDeclared, Declared
  <2>2. CASE v = id
    <3>1. f = DefaultEnc
      BY <1>0, <1>7, <2>1, <2>2 DEF Declared
    <3>. QED
      BY <1>2, <1>4, <2>2, <3>1
  <2>3. CASE v # id
    <3>1. v \in DOMAIN varTypes /\ varTypes[v] = f
      BY <2>1, <2>3 DEF TypesMove, TypesInv, TypesKnown
    <3>. QED
      BY <1>2, <2>3, <3>1
  <2>. QED
    BY <2>2, <2>3
<1>9. TypesKnown'
  BY <1>8 DEF TypesKnown
<1>10. id \in DOMAIN varTypes' /\ varTypes'[id] = e
  BY <1>2
<1>. QED
  BY <1>1, <1>2, <1>3, <1>6, <1>9, <1>10

LEMMA OtherFits ==
  ASSUME TypesMove, phase = "open", RecordOther
  PROVE  TypesInv'
<1>1. ASSUME (\E k \in AuxKeys : WriteAux(k)) \/ WriteExt PROVE TypesInv'
  <2>1. UNCHANGED <<phase, hiers, derived, varTypes, blks, typereg>>
    BY <1>1 DEF WriteAux, WriteExt, metaVars, hierVars, blkVars, auxVars
  <2>a. \A k : WriteAux(k) => \E blk : file' = Append(file, blk) /\ blk.type \in {"AUX", "EXT"}
    BY DEF WriteAux, AuxBlock
  <2>b. WriteExt => \E blk : file' = Append(file, blk) /\ blk.type \in {"AUX", "EXT"}
    BY DEF WriteExt
  <2>2. PICK blk : file' = Append(file, blk) /\ blk.type \in {"AUX", "EXT"}
    BY <1>1, <2>a, <2>b
  <2>3. Len(file') = Len(file) + 1 /\ file'[Len(file) + 1] = blk
    BY <2>2, TypesFacts
  <2>4. \A n \in Len(file) + 1..Len(file') : n = Len(file) + 1
    BY <2>3, TypesFacts
  <2>5. \A n \in Len(file) + 1..Len(file') : file'[n].type \notin {"HIER", "VC"}
    BY <2>2, <2>3, <2>4
  <2>6. Alike
    BY <2>1 DEF Alike
  <2>7. \A i \in 1..Len(typereg.sigs) : typereg'.sigs[i] = typereg.sigs[i]
    BY <2>1
  <2>. QED
    BY <2>1, <2>5, <2>6, <2>7, TypesKept
<1>2. ASSUME NEW e \in DerivedEncs, NEW s \in Names, AddDerived(e, s) PROVE TypesInv'
  <2>1. DeclareDerived(e, s) /\ UNCHANGED blks
    BY <1>2 DEF AddDerived
  <2>2. TypesKnown' /\ MoreDeclared /\ MayRecord /\ UNCHANGED <<phase, hiers, typereg>>
    BY <2>1, DerivedKnown
  <2>3. PICK blk : file' = Append(file, blk) /\ blk.type = "AUX"
    BY <1>2 DEF AddDerived, DefinitionBlock, AuxBlock
  <2>4. Len(file') = Len(file) + 1 /\ file'[Len(file) + 1] = blk
    BY <2>3, TypesFacts
  <2>5. \A n \in Len(file) + 1..Len(file') : n = Len(file) + 1
    BY <2>4, TypesFacts
  <2>6. \A n \in Len(file) + 1..Len(file') : file'[n].type # "HIER" /\ file'[n].type # "VC"
    BY <2>3, <2>4, <2>5
  <2>7. ContextsFit'
    <3>1. ContextsFit
      BY DEF TypesMove, TypesInv
    <3>2. ASSUME NEW b \in 1..Len(blks), blks[b].kind = "vc"
          PROVE  /\ Fits(blks[b])'
                 /\ \A v \in VarIds, f \in Enc : InHierarchy(v, f)' =>
                      v \in DOMAIN blks[b].types /\ blks[b].types[v] = f
      <4>1. PICK c : c = blks[b]
        OBVIOUS
      <4>2. Fits(c)
        BY <3>1, <3>2, <4>1 DEF ContextsFit
      <4>3. Fits(c)'
        BY <2>2, <4>2, StillFits
      <4>4. Fits(c)' <=> Fits(blks[b])'
        BY <2>1, <4>1 DEF Fits
      <4>5. \A v \in VarIds, f \in Enc : InHierarchy(v, f) =>
              v \in DOMAIN blks[b].types /\ blks[b].types[v] = f
        BY <3>1, <3>2 DEF ContextsFit
      <4>. QED
        BY <2>2, <4>3, <4>4, <4>5 DEF MoreDeclared
    <3>. QED
      BY <2>1, <3>2 DEF ContextsFit
  <2>8. BlocksFit'
    BY <2>1, <2>2, <2>6, NoBlocksFit
  <2>9. phase' = "open"
    BY <2>2
  <2>. QED
    BY <2>1, <2>2, <2>6, <2>7, <2>8, <2>9, RecordFits
<1>3. ASSUME NEW e \in DerivedEncs, NEW s \in Names, NEW times \in SUBSET Times,
             AddMaterialized(e, s, times)
      PROVE  TypesInv'
  <2>1. DeclareDerived(e, s)
    BY <1>3 DEF AddMaterialized
  <2>2. PICK id : id = DerivedBase + derived
    OBVIOUS
  <2>3. /\ TypesKnown' /\ MoreDeclared /\ MayRecord /\ UNCHANGED <<phase, hiers, typereg>>
        /\ Declared(id, e)' /\ id \in DOMAIN varTypes' /\ varTypes'[id] = e
    BY <2>1, <2>2, DerivedKnown
  <2>4. PICK blk, parts :
           /\ blks' = Append(blks, blk) /\ Materialized(blk, e, times)
           /\ parts = <<blk>> \/ (parts = << >> /\ times = {})
           /\ Len(file') = Len(file) + 1 + Len(parts) /\ Len(parts) \in Nat
           /\ file'[Len(file) + 1] = DefinitionBlock(s)
           /\ \A i \in 1..Len(parts) : file'[Len(file) + 1 + i] = VcBlocks(parts, 0)[i]
           /\ vcEntries' = vcEntries \o VcIndex(parts, Len(file) + 1)
    <3>1. TypeOK
      BY DEF TypesMove, WriterInv
    <3>. QED
      BY <1>3, <3>1, MaterializedWrites
  <2>5. /\ blk.types = SigTypes(varTypes') /\ blk.init = {}
        /\ \A r \in blk.recs : r.var = id /\ r.ty = e
    BY <2>2, <2>4 DEF Materialized, NewVc
  <2>6. id \in DOMAIN blk.types /\ blk.types[id] = e
    BY <2>3, <2>5 DEF SigTypes
  <2>7. Fits(blk)'
    BY <2>3, <2>5, <2>6 DEF Fits
  <2>9. ContextsFit'
    BY <2>3, <2>4, <2>5, <2>7, BegunFits
  <2>10. blks' # << >>
    BY <2>4, TypesFacts
  <2>11. DefinitionBlock(s).type = "AUX"
    BY DEF DefinitionBlock, AuxBlock
  <2>12. \A n \in Len(file) + 1..Len(file) + 1 : file'[n].type = "AUX"
    <3>1. \A n \in Len(file) + 1..Len(file) + 1 : n = Len(file) + 1
      BY TypesFacts
    <3>. QED
      BY <2>4, <2>11, <3>1
  <2>13. \A i \in 1..Len(parts) : Fits(parts[i])'
    BY <2>4, <2>7
  <2>14. Len(file) + 1 \in Nat /\ Len(file) <= Len(file) + 1
    BY TypesFacts
  <2>15. BlocksFit'
    BY <2>3, <2>4, <2>10, <2>12, <2>13, <2>14, BlocksWrittenFit
  <2>16. \A n \in Len(file) + 1..Len(file') : file'[n].type # "HIER"
    <3>1. \A i \in 1..Len(parts) : VcBlocks(parts, 0)[i].type = "VC"
      BY DEF VcBlocks, VcBlock
    <3>2. TAKE n \in Len(file) + 1..Len(file')
    <3>3. CASE n = Len(file) + 1
      BY <2>4, <2>11, <3>3
    <3>4. CASE n # Len(file) + 1
      <4>1. n - (Len(file) + 1) \in 1..Len(parts) /\ Len(file) + 1 + (n - (Len(file) + 1)) = n
        BY <2>4, <3>4, TypesFacts
      <4>. QED
        BY <2>4, <3>1, <4>1
    <3>. QED
      BY <3>3, <3>4
  <2>17. phase' = "open"
    BY <2>3
  <2>. QED
    BY <2>3, <2>9, <2>15, <2>16, <2>17, RecordFits
<1>4. ASSUME RefuseDerived PROVE TypesInv'
  <2>1. /\ MayRecord /\ derived' = derived + 1
        /\ UNCHANGED <<phase, hiers, typereg, varTypes, blks, file>>
    BY <1>4 DEF RefuseDerived, fileVars, metaVars, hierVars, blkVars
  <2>2. MoreDeclared
    BY <2>1, RecordDeclared, TypesFacts
  <2>3. TypesKnown'
    <3>1. ASSUME NEW v \in VarIds, NEW f \in Enc, Declared(v, f)'
          PROVE  v \in DOMAIN varTypes' /\ varTypes'[v] = f
      <4>1. Declared(v, f) \/ (v \in DOMAIN varTypes' /\ varTypes'[v] = f)
        BY <2>2, <3>1 DEF Declared, MoreDeclared
      <4>. QED
        BY <2>1, <4>1 DEF TypesMove, TypesInv, TypesKnown
    <3>. QED
      BY <3>1 DEF TypesKnown
  <2>4. ContextsFit'
    <3>1. ContextsFit
      BY DEF TypesMove, TypesInv
    <3>2. \A b \in 1..Len(blks) : Fits(blks[b]) => Fits(blks[b])'
      BY <2>1, <2>2 DEF MoreDeclared, Fits
    <3>. QED
      BY <2>1, <2>2, <3>1, <3>2 DEF ContextsFit, MoreDeclared
  <2>5. \A n \in Len(file) + 1..Len(file') : FALSE
    BY <2>1, TypesFacts
  <2>6. BlocksFit'
    BY <2>1, <2>2, <2>5, NoBlocksFit
  <2>7. phase' = "open"
    BY <2>1
  <2>. QED
    BY <2>1, <2>3, <2>4, <2>5, <2>6, <2>7, RecordFits
<1>. QED
  BY <1>1, <1>2, <1>3, <1>4 DEF RecordOther

\* The close writes the registry behind the hierarchies.
LEMMA CloseFits ==
  ASSUME TypesMove, Close
  PROVE  TypesInv'
<1>1. phase' = "closing" /\ UNCHANGED <<hiers, typereg, derived, varTypes, blks>>
  BY DEF Close, metaVars, hierVars, blkVars, auxVars
<1>2. MoreDeclared /\ Alike
  BY <1>1, RecordDeclared, TypesFacts
<1>3. TypesKnown'
  <2>1. \A v, e : Declared(v, e)' => Declared(v, e)
    BY <1>1 DEF Declared, InHierarchy
  <2>. QED
    BY <1>1, <2>1 DEF TypesMove, TypesInv, TypesKnown
<1>4. ContextsFit'
  BY <1>1 DEF TypesMove, TypesInv, ContextsFit, Fits, Declared, InHierarchy
<1>5. SetupOver'
  BY <1>1 DEF TypesMove, TypesInv, SetupOver
<1>6. PICK off, index :
           /\ off \in Nat /\ off = IF meta = << >> THEN Len(file) ELSE Len(file) + 1
           /\ Len(file') = off + 3 /\ Len(file) \in Nat
           /\ file'[off + 1] = [type |-> "STR", strings |-> strtab]
           /\ file'[off + 2] = [type |-> "TYPE", reg |-> typereg]
           /\ file'[off + 3] = index
           /\ index.type = "INDEX" /\ index.typereg = off + 2
           /\ meta # << >> => file'[Len(file) + 1] = [type |-> "META", attrs |-> meta]
  BY CloseWrites DEF TypesMove, WriterInv, TypeOK
<1>7. /\ file'[off + 1].type = "STR" /\ file'[off + 2].type = "TYPE" /\ file'[off + 3].type = "INDEX"
      /\ meta # << >> => file'[Len(file) + 1].type = "META"
  BY <1>6
<1>8. \A n \in Len(file) + 1..Len(file') : file'[n].type \in {"META", "STR", "TYPE", "INDEX"}
  <2>1. TAKE n \in Len(file) + 1..Len(file')
  <2>2. \/ n = off + 1 \/ n = off + 2 \/ n = off + 3
        \/ (meta # << >> /\ n = Len(file) + 1)
    BY <1>6
  <2>. QED
    BY <1>7, <2>2
<1>9. BlocksFit'
  <2>1. \A n \in Len(file) + 1..Len(file') : file'[n].type # "VC"
    BY <1>8
  <2>. QED
    BY <1>1, <1>2, <2>1, NoBlocksFit
<1>10. HierarchyOnFile'
  <2>1. HierarchyOnFile
    BY DEF TypesMove, TypesInv
  <2>2. \A n \in 1..Len(file') : n \in 1..Len(file) \/ n \in Len(file) + 1..Len(file')
    BY TypesFacts
  <2>3. \A n \in 1..Len(file') : file'[n].type = "HIER" => n \in 1..Len(file) /\ file'[n] = file[n]
    BY <1>8, <2>2, TypesFacts
  <2>4. \A n \in 1..Len(file) : n \in 1..Len(file') /\ file'[n] = file[n]
    BY TypesFacts
  <2>5. file'[Len(file')].typereg = off + 2
    BY <1>6
  <2>6. \A n \in 1..Len(file) : n < off + 2
    BY <1>6
  <2>7. ASSUME NEW n \in 1..Len(file'), file'[n].type = "HIER"
        PROVE  /\ \E h \in 1..Len(hiers') : ~hiers'[h].open /\ file'[n].vars = hiers'[h].vars
               /\ n < file'[Len(file')].typereg
               /\ \A m \in 1..Len(file') : file'[m].type = "HIER" => m = n
    <3>1. n \in 1..Len(file) /\ file[n].type = "HIER" /\ file'[n] = file[n]
      BY <2>3, <2>7
    <3>2. \E h \in 1..Len(hiers) : ~hiers[h].open /\ file[n].vars = hiers[h].vars
      BY <2>1, <3>1 DEF HierarchyOnFile
    <3>3. \A m \in 1..Len(file') : file'[m].type = "HIER" => m = n
      BY <2>1, <2>3, <3>1 DEF HierarchyOnFile
    <3>. QED
      BY <1>1, <2>5, <2>6, <3>1, <3>2, <3>3
  <2>8. \A h \in 1..Len(hiers') : ~hiers'[h].open => \E n \in 1..Len(file') : file'[n].type = "HIER"
    BY <1>1, <2>1, <2>4 DEF HierarchyOnFile
  <2>. QED
    BY <2>7, <2>8 DEF HierarchyOnFile
<1>. QED
  BY <1>3, <1>4, <1>5, <1>9, <1>10 DEF TypesInv

\* Every step keeps the types.
LEMMA TypesStep ==
  ASSUME TypesMove, [Next]_vars
  PROVE  TypesInv'
<1>1. CASE Client
  BY <1>1, DeclareFits, ChangesFit, TxnsFit, OtherFits DEF Client
<1>2. CASE Close
  BY <1>2, CloseFits
<1>3. CASE PatchHeader \/ Release \/ UNCHANGED vars
  <2>1. UNCHANGED <<file, hiers, typereg, derived, varTypes, blks>>
    BY <1>3 DEF PatchHeader, Release, vars, fileVars, metaVars, hierVars, blkVars, auxVars
  <2>2. phase' # "open" => phase # "open"
    BY <1>3 DEF PatchHeader, Release, vars, fileVars
  <2>3. SetupOver'
    BY <2>1 DEF TypesMove, TypesInv, SetupOver
  <2>4. TypesKnown'
    BY <2>1 DEF TypesMove, TypesInv, TypesKnown, Declared, InHierarchy
  <2>5. ContextsFit'
    BY <2>1 DEF TypesMove, TypesInv, ContextsFit, Fits, Declared, InHierarchy
  <2>6. BlocksFit'
    BY <2>1 DEF TypesMove, TypesInv, BlocksFit, Declared, InHierarchy
  <2>7. HierarchyOnFile'
    BY <2>1, <2>2 DEF TypesMove, TypesInv, HierarchyOnFile
  <2>. QED
    BY <2>3, <2>4, <2>5, <2>6, <2>7 DEF TypesInv
<1>. QED
  BY <1>1, <1>2, <1>3 DEF Next

LEMMA TypesInit == Init => TypesInv
<1>. SUFFICES ASSUME Init PROVE TypesInv
  OBVIOUS
<1>1. Len(hiers) = 0 /\ Len(blks) = 0 /\ Len(file) = 0 /\ blks = << >> /\ derived = 0
  BY DEF Init
<1>2. \A v, e : ~Declared(v, e)
  <2>1. \A v : v \notin DerivedBase..DerivedBase + derived - 1
    BY <1>1 DEF DerivedBase
  <2>. QED
    BY <1>1, <2>1 DEF Declared, InHierarchy
<1>. QED
  BY <1>1, <1>2 DEF TypesInv, SetupOver, TypesKnown, ContextsFit, BlocksFit, HierarchyOnFile

\* With one type to each variable.
OneTypeInv == MetadataInv /\ TypesInv

LEMMA OneTypeInductive ==
  ASSUME OneTypeEach, OneTypeInv, [TraceNext]_traceVars
  PROVE  OneTypeInv'
<1>1. [Next]_vars /\ WriterInv /\ MaxFlushes = 0
  BY DEF TraceNext, Write, End, traceVars, OneTypeInv, MetadataInv, TraceInv, OneTypeEach
<1>2. MetadataInv' /\ Grows
  BY <1>1, MetadataInductive, Inductive DEF OneTypeInv
<1>3. TypeOK'
  BY <1>2 DEF MetadataInv, TraceInv, WriterInv
<1>4. TypesInv'
  BY <1>1, <1>2, <1>3, TypesStep DEF OneTypeInv, TypesMove
<1>. QED
  BY <1>2, <1>4 DEF OneTypeInv

\* One registry is read as it was written.
LEMMA SigsRead ==
  ASSUME NEW img, NEW at \in Nat, TypePlaces(img) = {at}, NEW sigs, sigs = img.blocks[at].reg.sigs
  PROVE  DOMAIN ReadSigs(img) = DOMAIN sigs /\ \A id \in DOMAIN sigs : ReadSigs(img)[id] = sigs[id]
<1>. DEFINE defs(id) == {i \in {at} : id \in DOMAIN img.blocks[i].reg.sigs}
<1>1. ReadSigs(img) =
        [id \in UNION {DOMAIN img.blocks[i].reg.sigs : i \in {at}} |->
           img.blocks[CHOOSE i \in defs(id) : \A j \in defs(id) : j <= i].reg.sigs[id]]
  BY DEF ReadSigs
<1>2. UNION {DOMAIN img.blocks[i].reg.sigs : i \in {at}} = DOMAIN sigs
  OBVIOUS
<1>3. ASSUME NEW id \in DOMAIN sigs
      PROVE  (CHOOSE i \in defs(id) : \A j \in defs(id) : j <= i) = at
  <2>1. defs(id) = {at}
    BY <1>3
  <2>. HIDE DEF defs
  <2>2. (CHOOSE i \in {at} : \A j \in {at} : j <= i) = at
    OBVIOUS
  <2>. QED
    BY <2>1, <2>2
<1>. HIDE DEF defs
<1>. QED
  BY <1>1, <1>2, <1>3

\* A dictionary of one hierarchy, and of none.
LEMMA ByIdOne ==
  ASSUME NEW blk
  PROVE  ById(<<blk>>) = <<blk>>
<1>1. PICK one : one = <<blk>>
  OBVIOUS
<1>2. Len(one) = 1 /\ one[1] = blk
  BY <1>1
<1>. DEFINE first == {i \in 1..Len(one) : \A j \in 1..i - 1 : one[j].id # one[i].id}
            last(id) == CHOOSE i \in 1..Len(one) :
                          one[i].id = id /\ \A j \in i + 1..Len(one) : one[j].id # id
<1>3. ById(one) = [k \in 1..Cardinality(first) |-> one[last(one[Ascending(first)[k]].id)]]
  BY DEF ById
<1>4. first = {1}
  BY <1>2
<1>5. Cardinality({1}) = 1 /\ Ascending({1})[1] = 1
  <2>a. PICK S : S = {1}
    OBVIOUS
  <2>1. PICK s : s = <<1>>
    OBVIOUS
  <2>2. s \in Seq(Nat) /\ Len(s) = 1 /\ s[1] = 1
    BY <2>1
  <2>3. \A i, j \in 1..Len(s) : i < j => s[i] < s[j]
    BY <2>2
  <2>4. (\A i \in 1..Len(s) : s[i] \in S) /\ \A x \in S : \E i \in 1..Len(s) : s[i] = x
    BY <2>a, <2>2
  <2>5. Cardinality(S) = Len(s) /\ Ascending(S) = s
    BY <2>2, <2>3, <2>4, AscendingIs
  <2>. QED
    BY <2>a, <2>2, <2>5
<1>6. last(blk.id) = 1
  <2>. DEFINE Is(i) == i \in 1..Len(one) /\ one[i].id = blk.id /\ \A j \in i + 1..Len(one) : one[j].id # blk.id
  <2>1. Is(1)
    BY <1>2
  <2>2. last(blk.id) = CHOOSE i : Is(i)
    BY Zenon
  <2>3. Is(CHOOSE i : Is(i))
    BY <2>1, Zenon
  <2>. QED
    BY <1>2, <2>2, <2>3
<1>. HIDE DEF first, last
<1>7. \A k \in 1..1 : one[last(one[Ascending({1})[k]].id)] = blk
  BY <1>2, <1>5, <1>6
<1>8. ById(one) = [k \in 1..1 |-> blk]
  BY <1>3, <1>4, <1>5, <1>7
<1>. QED
  BY <1>1, <1>8

LEMMA ByIdNone == ById(<< >>) = << >>
<1>. DEFINE none == << >>
            first == {i \in 1..Len(none) : \A j \in 1..i - 1 : none[j].id # none[i].id}
            last(id) == CHOOSE i \in 1..Len(none) :
                          none[i].id = id /\ \A j \in i + 1..Len(none) : none[j].id # id
<1>1. ById(none) = [k \in 1..Cardinality(first) |-> none[last(none[Ascending(first)[k]].id)]]
  BY DEF ById
<1>2. first = {}
  OBVIOUS
<1>3. Cardinality({}) = 0
  BY FS_EmptySet
<1>. HIDE DEF first, last, none
<1>4. ById(none) = << >>
  BY <1>1, <1>2, <1>3
<1>. QED
  BY <1>4 DEF none

\* Hierarchies are read in their order, through the index and by a scan.
LEMMA HierarchiesRead ==
  ASSUME TraceInv, Ended
  PROVE  HierBlocks(disk) = OfType(disk, "HIER")
<1>1. CASE FastOpen(disk)
  <2>1. Indexed(disk) /\ disk.hdr # 0
    BY <1>1, NoIndexOnDisk DEF FastOpen
  <2>2. disk.blocks = file /\ Index(disk).hier = hierOffsets /\ Len(file) \in Nat
    BY <2>1, IndexOnDisk
  <2>3. hierOffsets \in Seq(Nat) /\ Lists(hierOffsets, disk.blocks, "HIER") /\ DOMAIN file = 1..Len(file)
    BY <2>2 DEF TraceInv, EntriesListed, WriterInv, TypeOK, HierTypes, FileTypes
  <2>4. OfType(disk, "HIER") = [i \in 1..Len(hierOffsets) |-> disk.blocks[hierOffsets[i]]]
    BY <2>2, <2>3, OfTypeListed
  <2>. QED
    BY <1>1, <2>2, <2>4 DEF HierBlocks
<1>2. CASE ~FastOpen(disk)
  BY <1>2 DEF HierBlocks
<1>. QED
  BY <1>1, <1>2

\* What a reader makes of one hierarchy, or of none.
LEMMA SigTypeOne ==
  ASSUME NEW img, NEW blk, ReadHiers(img) = <<blk>>, NEW v
  PROVE  SigType(img, v) =
           IF v \in DOMAIN blk.vars /\ blk.vars[v] \in DOMAIN ReadSigs(img) THEN ReadSigs(img)[blk.vars[v]]
           ELSE IF v \in DOMAIN ReadSigs(img) THEN ReadSigs(img)[v] ELSE DefaultEnc
<1>1. PICK one : one = <<blk>>
  OBVIOUS
<1>2. Len(one) = 1 /\ one[1] = blk
  BY <1>1
<1>3. PICK sigs : sigs = ReadSigs(img)
  OBVIOUS
<1>4. PICK decl : decl = {i \in 1..Len(one) : v \in DOMAIN one[i].vars /\ one[i].vars[v] \in DOMAIN sigs}
  OBVIOUS
<1>5. SigType(img, v) =
        IF decl # {} THEN sigs[one[CHOOSE i \in decl : \A j \in decl : j <= i].vars[v]]
        ELSE IF v \in DOMAIN sigs THEN sigs[v] ELSE DefaultEnc
  BY <1>1, <1>3, <1>4 DEF SigType
<1>6. decl = IF v \in DOMAIN blk.vars /\ blk.vars[v] \in DOMAIN sigs THEN {1} ELSE {}
  BY <1>2, <1>4
<1>7. (CHOOSE i \in {1} : \A j \in {1} : j <= i) = 1
  OBVIOUS
<1>. QED
  BY <1>2, <1>3, <1>5, <1>6, <1>7

LEMMA SigTypeNone ==
  ASSUME NEW img, ReadHiers(img) = << >>, NEW v, v \notin DOMAIN ReadSigs(img)
  PROVE  SigType(img, v) = DefaultEnc
BY DEF SigType

\* With a registry on disk, a reader finds the types of the declarations.
LEMMA TypesRead ==
  ASSUME OneTypeEach, OneTypeInv, Ended, Places("TYPE") # {}, blks # << >>, NEW v, NEW e, Declared(v, e)
  PROVE  SigType(disk, v) = e
<1>1. MetadataInv /\ TraceInv /\ TypesInv
  BY DEF OneTypeInv, MetadataInv
<1>2. PICK at : at = file[Len(file)].typereg
  OBVIOUS
<1>3. phase # "open" /\ PlacesOf(disk, "TYPE") = {at} /\ at \in 1..Len(file) /\ disk.blocks[at] = file[at]
  BY <1>1, <1>2, MetadataPlaces DEF Places
<1>4. file[at] = [type |-> "TYPE", reg |-> typereg]
  BY <1>1, <1>2, <1>3 DEF TraceInv, TailWritten
<1>5. disk.blocks[at].reg.sigs = typereg.sigs
  BY <1>3, <1>4
<1>6. TypePlaces(disk) = {at}
  <2>1. CASE FastOpen(disk)
    <3>1. Indexed(disk) /\ disk.hdr # 0
      BY <2>1, NoIndexOnDisk DEF FastOpen
    <3>2. Index(disk) = file[Len(file)]
      BY <1>1, <3>1, IndexOnDisk
    <3>. QED
      BY <1>2, <2>1, <3>2 DEF TypePlaces
  <2>2. CASE ~FastOpen(disk)
    BY <1>3, <2>2 DEF TypePlaces
  <2>. QED
    BY <2>1, <2>2
<1>7. PICK sigs : sigs = typereg.sigs
  OBVIOUS
<1>8. /\ sigs \in Seq(Enc) /\ Len(sigs) \in Nat /\ Len(sigs) <= MaxTypes /\ DOMAIN sigs = 1..Len(sigs)
      /\ \A h \in 1..Len(hiers) : \A k \in 1..Len(hiers[h].vars) :
           k \in 1..MaxVars /\ hiers[h].vars[k] \in 1..Len(sigs)
      /\ hiers \in Seq(Hierarchies) /\ Len(hiers) \in Nat
  BY <1>1, <1>7 DEF TraceInv, WriterInv, TypeOK, HierTypes, Registry
<1>9. DOMAIN ReadSigs(disk) = DOMAIN sigs /\ \A id \in DOMAIN sigs : ReadSigs(disk)[id] = sigs[id]
  <2>1. at \in Nat
    BY <1>3
  <2>. QED
    BY <1>5, <1>6, <1>7, <2>1, SigsRead
<1>10. MaxVars \in Nat /\ MaxTypes \in Nat /\ MaxVars < DerivedBase /\ MaxTypes < DerivedBase
  BY WriterAssumption DEF OneTypeEach
<1>11. Len(file) \in Nat /\ Len(disk.blocks) \in Nat /\ DOMAIN disk.blocks = 1..Len(disk.blocks)
       /\ \A n \in 1..Len(disk.blocks) : disk.blocks[n] = file[n]
       /\ Len(disk.blocks) <= Len(file)
  BY <1>1 DEF TraceInv, DiskInv, WriterInv, TypeOK, FileTypes
<1>12. at <= Len(disk.blocks)
  <2>1. at \in DOMAIN disk.blocks
    BY <1>3 DEF PlacesOf
  <2>. QED
    BY <1>11, <2>1
<1>13. \A h \in 1..Len(hiers) : ~hiers[h].open /\ h = 1
  BY <1>1, <1>8 DEF TypesInv, SetupOver
<1>14. \A h \in 1..Len(hiers) : hiers[h].vars \in Seq(1..MaxTypes) /\ Len(hiers[h].vars) \in Nat
                               /\ DOMAIN hiers[h].vars = 1..Len(hiers[h].vars)
  <2>1. \A h \in 1..Len(hiers) : hiers[h] \in Hierarchies
    BY <1>8, ElementOfSeq
  <2>. QED
    BY <2>1 DEF Hierarchies
<1>15. ReadHiers(disk) = ById(OfType(disk, "HIER"))
  BY <1>1, HierarchiesRead DEF ReadHiers
<1>16. CASE Len(hiers) = 0
  <2>1. \A n \in 1..Len(file) : file[n].type # "HIER"
    BY <1>1, <1>16 DEF TypesInv, HierarchyOnFile
  <2>2. PlacesOf(disk, "HIER") = {}
    BY <1>1, <2>1, MetadataPlaces DEF PlacesOf
  <2>3. ReadHiers(disk) = << >>
    BY <1>15, <2>2, OfTypeNone, ByIdNone
  <2>4. v \in DerivedBase..DerivedBase + derived - 1 /\ e = DefaultEnc
    BY <1>16 DEF Declared, InHierarchy
  <2>5. v \notin DOMAIN ReadSigs(disk)
    BY <1>8, <1>9, <1>10, <2>4 DEF DerivedBase
  <2>. QED
    BY <2>3, <2>4, <2>5, SigTypeNone
<1>17. CASE Len(hiers) # 0
  <2>1. 1 \in 1..Len(hiers)
    BY <1>8, <1>17
  <2>2. PICK n \in 1..Len(file) : file[n].type = "HIER"
    BY <1>1, <1>13, <2>1 DEF TypesInv, HierarchyOnFile
  <2>3. file[n].vars = hiers[1].vars /\ n < at /\ \A m \in 1..Len(file) : file[m].type = "HIER" => m = n
    BY <1>1, <1>2, <1>3, <1>13, <2>2 DEF TypesInv, HierarchyOnFile
  <2>4. n \in 1..Len(disk.blocks) /\ disk.blocks[n] = file[n] /\ n \in Nat
    BY <1>3, <1>11, <1>12, <2>2, <2>3
  <2>5. PlacesOf(disk, "HIER") = {n}
    BY <1>11, <2>2, <2>3, <2>4 DEF PlacesOf
  <2>6. PICK blk : blk = file[n]
    OBVIOUS
  <2>7. ReadHiers(disk) = <<blk>>
    BY <1>15, <2>4, <2>5, <2>6, OfTypeOne, ByIdOne
  <2>8. PICK vs : vs = hiers[1].vars
    OBVIOUS
  <2>9. blk.vars = vs /\ DOMAIN vs = 1..Len(vs) /\ Len(vs) \in Nat
    BY <1>14, <2>1, <2>3, <2>6, <2>8
  <2>10. \A k \in 1..Len(vs) : k \in 1..MaxVars /\ vs[k] \in 1..Len(sigs)
    BY <1>8, <2>1, <2>8
  <2>11. SigType(disk, v) =
           IF v \in DOMAIN vs /\ vs[v] \in DOMAIN ReadSigs(disk) THEN ReadSigs(disk)[vs[v]]
           ELSE IF v \in DOMAIN ReadSigs(disk) THEN ReadSigs(disk)[v] ELSE DefaultEnc
    BY <2>7, <2>9, SigTypeOne
  <2>12. CASE InHierarchy(v, e)
    <3>1. v \in 1..Len(vs) /\ e = sigs[vs[v]]
      BY <1>7, <1>13, <2>8, <2>12 DEF InHierarchy
    <3>. QED
      BY <1>8, <1>9, <2>9, <2>10, <2>11, <3>1
  <2>13. CASE v \in DerivedBase..DerivedBase + derived - 1 /\ e = DefaultEnc
    <3>1. derived \in Nat
      BY <1>1 DEF TraceInv, WriterInv, TypeOK, IndexTypes
    <3>2. v \notin 1..MaxVars /\ v \notin 1..Len(sigs)
      BY <1>8, <1>10, <2>13, <3>1 DEF DerivedBase
    <3>3. v \notin DOMAIN vs
      BY <2>9, <2>10, <3>2
    <3>. QED
      BY <1>8, <1>9, <2>11, <2>13, <3>2, <3>3
  <2>. QED
    BY <2>12, <2>13 DEF Declared
<1>. QED
  BY <1>16, <1>17

\* In the programs of OneTypeEach a value is encoded with the type it was declared
\* with and, once a registry is on disk, decoded with it (_var_types copied by
\* begin_vc_block, _build_sig_types of the reader).
THEOREM TypesReadBack ==
  ASSUME OneTypeEach
  PROVE  TraceSpec => []TypesAgree
<1>1. OneTypeInv => TypesAgree
  <2>. SUFFICES ASSUME OneTypeInv, Ended, NEW i \in Places("VC"), NEW r \in disk.blocks[i].recs
       PROVE  /\ disk.blocks[i].enc[r.var] = r.ty
              /\ Places("TYPE") # {} => SigType(disk, r.var) = r.ty
    BY DEF TypesAgree
  <2>1. i \in 1..Len(file) /\ disk.blocks[i] = file[i] /\ file[i].type = "VC"
    BY MetadataPlaces DEF OneTypeInv, Places, PlacesOf
  <2>2. blks # << >> /\ Declared(r.var, r.ty) /\ disk.blocks[i].enc[r.var] = r.ty
    BY <2>1 DEF OneTypeInv, TypesInv, BlocksFit
  <2>. QED
    BY <2>2, TypesRead
<1>2. OneTypeInv /\ [TraceNext]_traceVars => OneTypeInv'
  BY OneTypeInductive
<1>3. TraceInit => OneTypeInv
  BY MetadataInit, TypesInit DEF OneTypeInv, TraceInit
<1>. QED
  BY <1>1, <1>2, <1>3, PTL DEF TraceSpec
================================================================================
