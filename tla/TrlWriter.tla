------------------------------ MODULE TrlWriter ------------------------------
(***************************************************************************)
(* The Python trace writer (_writer.py, with the block builders of          *)
(* _vc_data.py, _bytesplit.py and _txn_data.py, the block codecs of         *)
(* codec.py, _string_table.py, _type_registry.py and _index.py).            *)
(*                                                                          *)
(* The trace file is the sequence of blocks written so far.  The file       *)
(* header sits at offset 0 and the i-th block after it at offset i, so the  *)
(* offset 0 means "absent", as it does in the code.  Signal values are left *)
(* out: a value change is known by its variable, its time, the type of the  *)
(* value the client passed and its place in the calls that made the block.  *)
(***************************************************************************)
EXTENDS Integers, Sequences, FiniteSets

CONSTANTS
  Enc,           \* signal types, each an encoding with its bit width
  DefaultEnc,    \* the type assumed for an unknown variable: (SE_2STATE, 1)
  DerivedEncs,   \* types the client gives to derived signals
  Names,         \* names the client gives to what it declares
  Strings,       \* strings the client interns
  SplitName,     \* the codec id string of core.bytesplit
  Codecs,        \* value-change codecs the client selects
  Streams,       \* transaction stream instances
  Mixed,         \* the stream id 0xFFFFFFFF of a block of no single stream
  BlockStreams,  \* what the client passes as a block's stream_inst_id
  TxnIds,        \* transaction ids
  AuxKeys,       \* (owner, key) pairs of the opaque keyed blocks
  MaxTime,       \* times run from 0 to MaxTime
  ScopeGrouped,  \* the writer's scope_grouped option
  CanSeek,       \* the output file accepts a seek
  SetupFirst,    \* the client declares everything before its first data block
  MaxOpen,       \* blocks of one shared codec that the client keeps open
  MaxBlocks, MaxRecs, MaxTypes, MaxSchemas, MaxHiers, MaxVars, MaxScopes,
  MaxAux, MaxDerived, MaxMeta, MaxFlushes, MaxEarly, MaxExt

Times == 0..MaxTime

\* Derived signals get variable ids from DERIVED_VAR_BASE up, out of the way
\* of the ids hierarchies hand out.
DerivedBase == 100

\* DERIVED_AUX_OWNER: the owner of the aux blocks that hold derived definitions.
DerivedOwner == 1000

ASSUME WriterAssumption ==
  /\ DefaultEnc \in Enc
  /\ DerivedEncs \subseteq Enc
  /\ Names \subseteq Strings
  /\ SplitName \in Strings
  /\ Codecs \subseteq {"core", "split"}
  /\ Mixed \notin Streams
  /\ BlockStreams \subseteq Streams \cup {Mixed}
  /\ MaxTime \in Nat
  /\ ScopeGrouped \in BOOLEAN
  /\ CanSeek \in BOOLEAN
  /\ SetupFirst \in BOOLEAN
  /\ MaxVars < DerivedBase
  /\ \A n \in {MaxOpen, MaxBlocks, MaxRecs, MaxTypes, MaxSchemas, MaxHiers, MaxVars,
               MaxScopes, MaxAux, MaxDerived, MaxMeta, MaxFlushes, MaxEarly, MaxExt} : n \in Nat

VARIABLES
  phase,        \* "open", "closing", "patched" or "done"
  file,         \* blocks written, in file order
  hdr,          \* index_offset field of the file header
  strtab,       \* _strtab: the string with id i is strtab[i]
  typereg,      \* _typereg: signal types, transaction schemas, stream types
  meta,         \* _meta: trace-global typed attributes
  hiers,        \* hierarchy contexts, in the order of begin_hierarchy
  hierOffsets,  \* _hier_offsets
  scopes,       \* _scope_id_counter
  varTypes,     \* _var_types: variable id -> type
  varScope,     \* _var_scope: variable id -> scope id
  blks,         \* block contexts, in the order of begin_vc_block/begin_txn_block
  vcState,      \* _vc_state.blk: block held by the shared value-change codec state
  txnState,     \* _txn_state.blk: block held by the shared transaction codec state
  vcEntries, txnEntries, keyEntries,  \* the index
  auxOrdinals,  \* _aux_ordinals
  derived       \* _next_derived_id

fileVars  == <<phase, file, hdr>>
metaVars  == <<strtab, typereg, meta>>
hierVars  == <<hiers, hierOffsets, scopes, varTypes, varScope>>
blkVars   == <<blks, vcState, txnState>>
auxVars   == <<keyEntries, auxOrdinals, derived>>
vars == <<fileVars, metaVars, hierVars, blkVars, vcEntries, txnEntries, auxVars>>

-----------------------------------------------------------------------------
(* Strings *)

\* StringTable.intern: an unknown string gets the next id.
Intern(tab, s) ==
  IF \E i \in 1..Len(tab) : tab[i] = s THEN tab ELSE Append(tab, s)

\* The id of an interned string.
IdOf(tab, s) == CHOOSE i \in 1..Len(tab) : tab[i] = s

-----------------------------------------------------------------------------
(* Blocks under construction *)

\* Mutant of SigTypes: the variables of the hierarchies are left out.
SigTypesNoVars(ofVar) == [v \in 1..Len(typereg.sigs) |-> typereg.sigs[v]]

\* dict(_sig_types) overlaid with _var_types: one map for signal type ids and
\* variable ids.
SigTypes(ofVar) ==
  [v \in 1..Len(typereg.sigs) \cup DOMAIN ofVar |->
     IF v \in DOMAIN ofVar THEN ofVar[v] ELSE typereg.sigs[v]]

\* codec.new_block: the types a value-change block encodes with are those
\* known when it was begun.
NewVc(codec, start) ==
  [kind |-> "vc", codec |-> codec, sid |-> Mixed, start |-> start, end |-> start,
   recs |-> {}, init |-> {}, types |-> SigTypes(varTypes), open |-> TRUE]

NewTxn(sid, start) ==
  [kind |-> "txn", codec |-> "record", sid |-> sid, start |-> start, end |-> start,
   recs |-> {}, init |-> {}, types |-> << >>, open |-> TRUE]

\* Mutant of Later: the end time follows the last call.
LatestCall(t, u) == u

Later(t, u) == IF t < u THEN u ELSE t

\* The latest time of a block rebuilt from its start and its changes.
EndTime(start, recs) ==
  CHOOSE t \in {start} \cup {r.time : r \in recs} :
    \A u \in {start} \cup {r.time : r \in recs} : u <= t

\* self._sig_types.get(var_id, (SE_2STATE, 1))
EncodedType(b, v) == IF v \in DOMAIN b.types THEN b.types[v] ELSE DefaultEnc

\* encode_uvarint rejects a negative delta: the core encoder raises on a change
\* before the block's start and on two changes of a variable at one time, the
\* bytesplit encoder on changes of a variable that are not in time order.  It
\* also raises on a variable whose type it does not know.  The record encoder
\* raises on a transaction that ends before it starts: the duration is negative.
EncodeFails(b) ==
  \/ /\ b.codec = "core"
     /\ \E r \in b.recs : r.time < b.start
  \/ /\ b.codec = "core"
     /\ \E r, s \in b.recs : r # s /\ r.var = s.var /\ r.time = s.time
  \/ /\ b.codec = "split"
     /\ \E r, s \in b.recs : r.var = s.var /\ r.n < s.n /\ r.time > s.time
  \/ /\ b.codec = "split"
     /\ \E r \in b.recs : r.var \notin DOMAIN b.types
  \/ /\ b.codec = "record"
     /\ \E r \in b.recs : r.tag = "FULL" /\ r.until < r.time

\* What a value-change block holds once written: id is 0 for the core codec,
\* otherwise the interned codec id the block starts with.  A variable whose
\* changes follow keeps no trace of its initial value for a reader.
VcBlock(b, id) ==
  LET kept == {r \in b.init : \A s \in b.recs : s.var # r.var}
  IN  [type |-> "VC", codec |-> id, recs |-> b.recs \cup kept,
       enc |-> [v \in {r.var : r \in b.recs \cup kept} |-> EncodedType(b, v)]]

VcBlocks(parts, id) == [i \in 1..Len(parts) |-> VcBlock(parts[i], id)]

\* Mutant of VcIndex: the file position is taken after the write.
VcIndexAfter(parts, off) ==
  [i \in 1..Len(parts) |->
     [start |-> parts[i].start, end |-> parts[i].end, off |-> off + i + 1]]

\* The index entries of blocks written from offset off + 1 on.
VcIndex(parts, off) ==
  [i \in 1..Len(parts) |->
     [start |-> parts[i].start, end |-> parts[i].end, off |-> off + i]]

\* self._var_scope.get(var_id, 0)
ScopeOf(v) == IF v \in DOMAIN varScope THEN varScope[v] ELSE 0

\* Mutant of ScopePart: every part repeats all the initial values.
ScopePartAllInit(b, s) ==
  LET recs == {r \in b.recs : ScopeOf(r.var) = s}
  IN  [b EXCEPT !.recs = recs, !.end  = EndTime(b.start, recs)]

\* The part of a block that belongs to one scope, rebuilt by add_change.
ScopePart(b, s) ==
  LET recs == {r \in b.recs : ScopeOf(r.var) = s}
  IN  [b EXCEPT !.recs = recs,
                !.init = {r \in b.init : ScopeOf(r.var) = s},
                !.end  = EndTime(b.start, recs)]

\* The scopes of a block in ascending order, one part for each.
ScopeOrders(b) ==
  LET used == {ScopeOf(r.var) : r \in b.recs \cup b.init}
  IN  {order \in [1..Cardinality(used) -> used] :
         \A i, j \in 1..Cardinality(used) : i < j => order[i] < order[j]}

\* The blocks a flush of block b encodes.  Without scope grouping the default
\* codec encodes the block its shared state holds, whichever b is.
VcParts(b) ==
  IF blks[b].codec = "core" /\ ScopeGrouped
  THEN {[i \in 1..Len(order) |-> ScopePart(blks[b], order[i])] : order \in ScopeOrders(blks[b])}
  ELSE {<<IF blks[b].codec = "core" THEN blks[vcState] ELSE blks[b]>>}

\* Blocks are encoded and written one after the other, up to the first that
\* cannot be encoded.
Encoded(parts, n) ==
  /\ n \in 0..Len(parts)
  /\ \A i \in 1..n : ~EncodeFails(parts[i])
  /\ n < Len(parts) => EncodeFails(parts[n + 1])

\* The bound on the records of all blocks together.
Room == Cardinality(UNION {{<<b, r>> : r \in blks[b].recs} : b \in 1..Len(blks)}) < MaxRecs

OpenOn(codec) == {b \in 1..Len(blks) : blks[b].open /\ blks[b].codec = codec}

\* The blocks of the given types on file.
Written(types) == {i \in 1..Len(file) : file[i].type \in types}

\* After a flush the with-statement leaves the context, for good; or the flush was
\* the client's own inside it, and the context goes on and will be flushed again.
AfterFlush(b) ==
  \/ blks' = [blks EXCEPT ![b].open = FALSE]
  \/ Cardinality(Written({"VC", "TXN"})) < MaxEarly /\ UNCHANGED blks

\* What the client declares, and when.
MayDeclare == SetupFirst => blks = << >>
MayRecord  == SetupFirst => \A h \in 1..Len(hiers) : ~hiers[h].open

AllAuxKeys ==
  AuxKeys \cup {<<DerivedOwner, DerivedBase + i>> : i \in 0..MaxDerived}

-----------------------------------------------------------------------------
Init ==
  /\ phase = "open" /\ file = << >> /\ hdr = 0
  /\ strtab = << >> /\ meta = << >>
  /\ typereg = [sigs |-> << >>, schemas |-> << >>, streams |-> << >>]
  /\ hiers = << >> /\ hierOffsets = << >> /\ scopes = 0
  /\ varTypes = << >> /\ varScope = << >>
  /\ blks = << >> /\ vcState = 0 /\ txnState = 0
  /\ vcEntries = << >> /\ txnEntries = << >> /\ keyEntries = << >>
  /\ auxOrdinals = [k \in AllAuxKeys |-> 0] /\ derived = 0

-----------------------------------------------------------------------------
(* Metadata *)

InternString(s) ==
  /\ strtab' = Intern(strtab, s)
  /\ UNCHANGED <<fileVars, typereg, meta, hierVars, blkVars, vcEntries, txnEntries, auxVars>>

AddSignalType(e) ==
  /\ MayDeclare
  /\ Len(typereg.sigs) < MaxTypes
  /\ typereg' = [typereg EXCEPT !.sigs = Append(@, e)]
  /\ UNCHANGED <<fileVars, strtab, meta, hierVars, blkVars, vcEntries, txnEntries, auxVars>>

AddTxnSchema(name) ==
  /\ MayDeclare
  /\ Len(typereg.schemas) < MaxSchemas
  /\ strtab' = Intern(strtab, name)
  /\ typereg' = [typereg EXCEPT !.schemas = Append(@, IdOf(strtab', name))]
  /\ UNCHANGED <<fileVars, meta, hierVars, blkVars, vcEntries, txnEntries, auxVars>>

\* Mutant of AddStreamType: the name is given an id without being interned.
AddStreamTypeUninterned(name) ==
  /\ MayDeclare
  /\ Len(typereg.streams) < MaxSchemas
  /\ typereg' = [typereg EXCEPT !.streams = Append(@, IdOf(Intern(strtab, name), name))]
  /\ UNCHANGED <<fileVars, strtab, meta, hierVars, blkVars, vcEntries, txnEntries, auxVars>>

AddStreamType(name) ==
  /\ MayDeclare
  /\ Len(typereg.streams) < MaxSchemas
  /\ strtab' = Intern(strtab, name)
  /\ typereg' = [typereg EXCEPT !.streams = Append(@, IdOf(strtab', name))]
  /\ UNCHANGED <<fileVars, meta, hierVars, blkVars, vcEntries, txnEntries, auxVars>>

\* A string-valued trace attribute: key and value are interned in that order.
AddTraceMetadata(key, value) ==
  /\ Len(meta) < MaxMeta
  /\ strtab' = Intern(Intern(strtab, key), value)
  /\ meta' = Append(meta, [key |-> IdOf(strtab', key), value |-> IdOf(strtab', value)])
  /\ UNCHANGED <<fileVars, typereg, hierVars, blkVars, vcEntries, txnEntries, auxVars>>



\* flush_string_table encodes every string interned so far, not the new ones.
FlushStringTable ==
  /\ Cardinality(Written({"STR", "TYPE"})) < MaxFlushes
  /\ file' = Append(file, [type |-> "STR", strings |-> strtab])
  /\ UNCHANGED <<phase, hdr, metaVars, hierVars, blkVars, vcEntries, txnEntries, auxVars>>

FlushTypeRegistry ==
  /\ Cardinality(Written({"STR", "TYPE"})) < MaxFlushes
  /\ file' = Append(file, [type |-> "TYPE", reg |-> typereg])
  /\ UNCHANGED <<phase, hdr, metaVars, hierVars, blkVars, vcEntries, txnEntries, auxVars>>

-----------------------------------------------------------------------------
(* Hierarchies *)

BeginHierarchy(id, name) ==
  /\ MayDeclare
  /\ Len(hiers) < MaxHiers
  /\ strtab' = Intern(strtab, name)
  /\ hiers' = Append(hiers, [id |-> id, strs |-> {IdOf(strtab', name)}, vars |-> << >>,
                             stack |-> << >>, open |-> TRUE])
  /\ UNCHANGED <<fileVars, typereg, meta, hierOffsets, scopes, varTypes, varScope,
                 blkVars, vcEntries, txnEntries, auxVars>>

\* Scope ids are drawn from one counter of the writer.
BeginScope(h, name, component) ==
  /\ hiers[h].open /\ scopes < MaxScopes
  /\ strtab' = Intern(Intern(strtab, name), component)
  /\ scopes' = scopes + 1
  /\ hiers' = [hiers EXCEPT ![h].stack = Append(@, scopes + 1),
                            ![h].strs = @ \cup {IdOf(strtab', name), IdOf(strtab', component)}]
  /\ UNCHANGED <<fileVars, typereg, meta, hierOffsets, varTypes, varScope,
                 blkVars, vcEntries, txnEntries, auxVars>>

EndScope(h) ==
  /\ hiers[h].open /\ hiers[h].stack # << >>
  /\ hiers' = [hiers EXCEPT ![h].stack = SubSeq(@, 1, Len(@) - 1)]
  /\ UNCHANGED <<fileVars, metaVars, hierOffsets, scopes, varTypes, varScope,
                 blkVars, vcEntries, txnEntries, auxVars>>

\* The id is the variable's number within its own hierarchy block; the writer's
\* maps, keyed by that id, are overwritten when two hierarchies hand it out.
AddVar(h, name, ty) ==
  LET v  == Len(hiers[h].vars) + 1
      st == hiers[h].stack
  IN  /\ hiers[h].open /\ v <= MaxVars
      /\ ty \in 1..Len(typereg.sigs)
      /\ strtab' = Intern(strtab, name)
      /\ hiers' = [hiers EXCEPT ![h].vars = Append(@, ty),
                                ![h].strs = @ \cup {IdOf(strtab', name)}]
      /\ varTypes' = [u \in DOMAIN varTypes \cup {v} |->
                         IF u = v THEN typereg.sigs[ty] ELSE varTypes[u]]
      /\ varScope' = IF st = << >> THEN varScope
                     ELSE [u \in DOMAIN varScope \cup {v} |->
                             IF u = v THEN st[Len(st)] ELSE varScope[u]]
      /\ UNCHANGED <<fileVars, typereg, meta, hierOffsets, scopes,
                     blkVars, vcEntries, txnEntries, auxVars>>

\* Mutant of FlushHierarchy: the newest hierarchy is listed first.
FlushHierarchyFirst(h) ==
  /\ hiers[h].open
  /\ hiers' = [hiers EXCEPT ![h].open = FALSE]
  /\ hierOffsets' = <<Len(file) + 1>> \o hierOffsets
  /\ file' = Append(file, [type |-> "HIER", id |-> hiers[h].id, strs |-> hiers[h].strs,
                           vars |-> hiers[h].vars])
  /\ UNCHANGED <<phase, hdr, metaVars, scopes, varTypes, varScope,
                 blkVars, vcEntries, txnEntries, auxVars>>

FlushHierarchy(h) ==
  /\ hiers[h].open
  /\ hiers' = [hiers EXCEPT ![h].open = FALSE]
  /\ hierOffsets' = Append(hierOffsets, Len(file) + 1)
  /\ file' = Append(file, [type |-> "HIER", id |-> hiers[h].id, strs |-> hiers[h].strs,
                           vars |-> hiers[h].vars])
  /\ UNCHANGED <<phase, hdr, metaVars, scopes, varTypes, varScope,
                 blkVars, vcEntries, txnEntries, auxVars>>

-----------------------------------------------------------------------------
(* Value changes *)

\* Mutant of BeginVc: the shared state keeps the first block it was given.
BeginVcOnce(codec, start) ==
  /\ MayRecord /\ Len(blks) < MaxBlocks
  /\ codec = "core" => Cardinality(OpenOn("core")) < MaxOpen
  /\ blks' = Append(blks, NewVc(codec, start))
  /\ vcState' = IF codec = "core" /\ vcState = 0 THEN Len(blks') ELSE vcState
  /\ UNCHANGED <<fileVars, metaVars, hierVars, txnState, vcEntries, txnEntries, auxVars>>

\* Mutant of BeginVc: the shared state is not told of the block.
BeginVcUnset(codec, start) ==
  /\ MayRecord /\ Len(blks) < MaxBlocks
  /\ codec = "core" => Cardinality(OpenOn("core")) < MaxOpen
  /\ blks' = Append(blks, NewVc(codec, start))
  /\ UNCHANGED <<fileVars, metaVars, hierVars, vcState, txnState, vcEntries, txnEntries, auxVars>>

BeginVc(codec, start) ==
  /\ MayRecord /\ Len(blks) < MaxBlocks
  /\ codec = "core" => Cardinality(OpenOn("core")) < MaxOpen
  /\ blks' = Append(blks, NewVc(codec, start))
  /\ vcState' = IF codec = "core" THEN Len(blks') ELSE vcState
  /\ UNCHANGED <<fileVars, metaVars, hierVars, txnState, vcEntries, txnEntries, auxVars>>

\* A change of the k-th variable of hierarchy h; the value has that variable's type.
\* "time must be >= start_time": the default codec raises at the flush otherwise,
\* bytesplit would write the block, so with it the client keeps to the contract.
AddChange(b, h, k, t) ==
  /\ blks[b].open /\ blks[b].kind = "vc" /\ Room
  /\ blks[b].codec = "split" => blks[b].start <= t
  /\ k \in 1..Len(hiers[h].vars)
  /\ blks' = [blks EXCEPT
       ![b].recs = @ \cup {[var |-> k, time |-> t, ty |-> typereg.sigs[hiers[h].vars[k]],
                            n |-> Cardinality(blks[b].recs)]},
       ![b].end  = Later(@, t)]
  /\ UNCHANGED <<fileVars, metaVars, hierVars, vcState, txnState, vcEntries, txnEntries, auxVars>>

\* The default codec keeps the last initial value of a variable; bytesplit puts
\* each one in front of the variable's changes.
SetInitial(b, h, k) ==
  LET rec(n) == [var |-> k, time |-> blks[b].start,
                 ty |-> typereg.sigs[hiers[h].vars[k]], n |-> n]
  IN  /\ blks[b].open /\ blks[b].kind = "vc" /\ Room
      /\ k \in 1..Len(hiers[h].vars)
      /\ blks' = [blks EXCEPT
           ![b].init = IF blks[b].codec = "split" THEN @
                       ELSE {r \in @ : r.var # k} \cup {rec(0)},
           ![b].recs = IF blks[b].codec = "split"
                       THEN @ \cup {rec(-1 - Cardinality(@))} ELSE @]
      /\ UNCHANGED <<fileVars, metaVars, hierVars, vcState, txnState, vcEntries, txnEntries, auxVars>>

FlushVc(b) ==
  /\ blks[b].open /\ blks[b].kind = "vc"
  /\ strtab' = IF blks[b].codec = "split" THEN Intern(strtab, SplitName) ELSE strtab
  /\ \E parts \in VcParts(b) : \E n \in 0..Len(parts) :
       LET written == SubSeq(parts, 1, n)
           id == IF blks[b].codec = "split" THEN IdOf(strtab', SplitName) ELSE 0
       IN  /\ Encoded(parts, n)
           /\ file' = file \o VcBlocks(written, id)
           /\ vcEntries' = vcEntries \o VcIndex(written, Len(file))
  /\ AfterFlush(b)
  /\ UNCHANGED <<phase, hdr, typereg, meta, hierVars, vcState, txnState, txnEntries, auxVars>>

-----------------------------------------------------------------------------
(* Transactions *)

\* Mutant of BeginTxn: the shared state keeps the first block it was given.
BeginTxnOnce(sid, start) ==
  /\ MayRecord /\ Len(blks) < MaxBlocks /\ Cardinality(OpenOn("record")) < MaxOpen
  /\ blks' = Append(blks, NewTxn(sid, start))
  /\ txnState' = IF txnState = 0 THEN Len(blks') ELSE txnState
  /\ UNCHANGED <<fileVars, metaVars, hierVars, vcState, vcEntries, txnEntries, auxVars>>

BeginTxn(sid, start) ==
  /\ MayRecord /\ Len(blks) < MaxBlocks /\ Cardinality(OpenOn("record")) < MaxOpen
  /\ blks' = Append(blks, NewTxn(sid, start))
  /\ txnState' = Len(blks')
  /\ UNCHANGED <<fileVars, metaVars, hierVars, vcState, vcEntries, txnEntries, auxVars>>

\* One more record of block b, which moves the block's end to `until`.
AddRecord(b, rec, until) ==
  /\ blks[b].open /\ blks[b].kind = "txn" /\ Room
  /\ blks' = [blks EXCEPT ![b].recs = @ \cup {rec}, ![b].end = Later(@, until)]
  /\ UNCHANGED <<fileVars, typereg, meta, hierVars, vcState, txnState,
                 vcEntries, txnEntries, auxVars>>

\* A record that spans the times from `time` to `until`.
TxnRec(b, tag, sid, id, time, until, strs) ==
  [tag |-> tag, sid |-> sid, id |-> id, time |-> time, until |-> until, strs |-> strs,
   n |-> Cardinality(blks[b].recs)]

\* The client keeps the records of other streams out of a block of one stream.
OfStream(b, sid) == blks[b].sid \in {sid, Mixed}

\* write_full takes any two times; the flush raises on an end before the start.
WriteFull(b, sid, id, start, end) ==
  /\ OfStream(b, sid)
  /\ AddRecord(b, TxnRec(b, "FULL", sid, id, start, end, << >>), end)
  /\ UNCHANGED strtab

\* write_begin leaves end_time alone.
WriteBegin(b, sid, id, start) ==
  /\ OfStream(b, sid)
  /\ AddRecord(b, TxnRec(b, "BEGIN", sid, id, start, start, << >>), blks[b].end)
  /\ UNCHANGED strtab

\* Mutant of WriteEnd: the block's end time is left alone.
WriteEndInPlace(b, id, time) ==
  /\ AddRecord(b, TxnRec(b, "END", Mixed, id, time, time, << >>), blks[b].end)
  /\ UNCHANGED strtab

WriteEnd(b, id, time) ==
  /\ AddRecord(b, TxnRec(b, "END", Mixed, id, time, time, << >>), time)
  /\ UNCHANGED strtab

\* write_attr and write_link: a transaction id and no time.
WriteNote(b, id) ==
  /\ AddRecord(b, TxnRec(b, "NOTE", Mixed, id, 0, 0, << >>), blks[b].end)
  /\ UNCHANGED strtab

WriteMeta(b, id, key, value) ==
  /\ strtab' = Intern(Intern(strtab, key), value)
  /\ AddRecord(b, TxnRec(b, "META", Mixed, id, 0, 0,
                         <<IdOf(strtab', key), IdOf(strtab', value)>>), blks[b].end)

\* The block encoded and its times are those of the shared codec state, the
\* stream of the index entry is the context's own.
PutTxn(b) ==
  /\ file' = Append(file, [type |-> "TXN", recs |-> blks[txnState].recs])
  /\ txnEntries' = Append(txnEntries,
       [start |-> blks[txnState].start, end |-> blks[txnState].end,
        off |-> Len(file) + 1, sid |-> blks[b].sid])

\* Encoding comes first: when it raises, neither block nor entry is written.
FlushTxn(b) ==
  /\ blks[b].open /\ blks[b].kind = "txn"
  /\ IF EncodeFails(blks[txnState]) THEN UNCHANGED <<file, txnEntries>> ELSE PutTxn(b)
  /\ AfterFlush(b)
  /\ UNCHANGED <<phase, hdr, metaVars, hierVars, vcState, txnState, vcEntries, auxVars>>

-----------------------------------------------------------------------------
(* Opaque keyed blocks, extension blocks and derived signals *)

\* A keyed block: its payload is known by the call that wrote it.
AuxBlock(key, strs) == [type |-> "AUX", key |-> key, ordinal |-> auxOrdinals[key], strs |-> strs]

\* Mutant of PutAux: the ordinal is not counted up.
PutAuxSameOrdinal(key) ==
  /\ keyEntries' = Append(keyEntries,
       [key |-> key, ordinal |-> auxOrdinals[key], off |-> Len(file) + 1])
  /\ UNCHANGED auxOrdinals

\* write_aux, with its block at the end of the file.
PutAux(key) ==
  /\ auxOrdinals' = [auxOrdinals EXCEPT ![key] = @ + 1]
  /\ keyEntries' = Append(keyEntries,
       [key |-> key, ordinal |-> auxOrdinals[key], off |-> Len(file) + 1])

WriteAux(key) ==
  /\ Len(keyEntries) < MaxAux
  /\ PutAux(key)
  /\ file' = Append(file, AuxBlock(key, << >>))
  /\ UNCHANGED <<phase, hdr, metaVars, hierVars, blkVars, vcEntries, txnEntries, derived>>

WriteExt ==
  /\ Cardinality(Written({"EXT"})) < MaxExt
  /\ file' = Append(file, [type |-> "EXT"])
  /\ UNCHANGED <<phase, hdr, metaVars, hierVars, blkVars, vcEntries, txnEntries, auxVars>>

\* Mutant of DeclareDerived: the name is not interned.
DeclareDerivedUninterned(e, name) ==
  LET id == DerivedBase + derived
  IN  /\ MayRecord /\ derived < MaxDerived
      /\ derived' = derived + 1
      /\ varTypes' = [v \in DOMAIN varTypes \cup {id} |-> IF v = id THEN e ELSE varTypes[v]]
      /\ PutAux(<<DerivedOwner, id>>)
      /\ UNCHANGED <<phase, hdr, strtab, typereg, meta, hiers, hierOffsets, scopes, varScope,
                     txnState, txnEntries>>

\* The first half of add_derived_signal: a fresh variable id, its type, its name
\* and its definition as a keyed block.
DeclareDerived(e, name) ==
  LET id == DerivedBase + derived
  IN  /\ MayRecord /\ derived < MaxDerived
      /\ derived' = derived + 1
      /\ varTypes' = [v \in DOMAIN varTypes \cup {id} |-> IF v = id THEN e ELSE varTypes[v]]
      /\ strtab' = Intern(strtab, name)
      /\ PutAux(<<DerivedOwner, id>>)
      /\ UNCHANGED <<phase, hdr, typereg, meta, hiers, hierOffsets, scopes, varScope,
                     txnState, txnEntries>>

\* A derived signal whose inputs would close a cycle: the call raises, with the
\* variable id used up and nothing else done.
RefuseDerived ==
  /\ MayRecord /\ derived < MaxDerived
  /\ derived' = derived + 1
  /\ UNCHANGED <<fileVars, metaVars, hierVars, blkVars, vcEntries, txnEntries,
                 keyEntries, auxOrdinals>>

DefinitionBlock(name) ==
  AuxBlock(<<DerivedOwner, DerivedBase + derived>>, <<IdOf(Intern(strtab, name), name)>>)

\* A virtual signal, or a materialized one refused for want of input changes
\* after its definition has been written.
AddDerived(e, name) ==
  /\ DeclareDerived(e, name)
  /\ file' = Append(file, DefinitionBlock(name))
  /\ UNCHANGED <<blks, vcState, vcEntries>>

\* A materialized signal that changes at `times`: the values go through the shared
\* default codec in a block of their own, begun and flushed on the spot.
AddMaterialized(e, name, times) ==
  LET id    == DerivedBase + derived
      start == IF times = {} THEN 0 ELSE CHOOSE t \in times : \A u \in times : t <= u
      recs  == {[var |-> id, time |-> t, ty |-> e, n |-> t] : t \in times}
      blk   == [NewVc("core", start) EXCEPT !.recs = recs, !.end = EndTime(start, recs),
                                            !.types = SigTypes(varTypes'), !.open = FALSE]
      parts == IF ScopeGrouped /\ times = {} THEN << >> ELSE <<blk>>
  IN  /\ DeclareDerived(e, name)
      /\ Len(blks) < MaxBlocks /\ Cardinality(OpenOn("core")) < MaxOpen
      /\ blks' = Append(blks, blk)
      /\ vcState' = Len(blks')
      /\ file' = Append(file, DefinitionBlock(name)) \o VcBlocks(parts, 0)
      /\ vcEntries' = vcEntries \o VcIndex(parts, Len(file) + 1)

-----------------------------------------------------------------------------
(* Closing the trace *)

MetaBlocks == IF meta = << >> THEN << >> ELSE <<[type |-> "META", attrs |-> meta]>>

\* The metadata block if there is any, the string table, the type registry and
\* the index.  Blocks still open are not flushed.
Close ==
  LET off == Len(file) + Len(MetaBlocks)
  IN  /\ phase = "open" /\ phase' = "closing"
      /\ file' = file \o MetaBlocks \o
           << [type |-> "STR", strings |-> strtab],
              [type |-> "TYPE", reg |-> typereg],
              [type |-> "INDEX", vc |-> vcEntries, txn |-> txnEntries, key |-> keyEntries,
               strtab |-> off + 1, typereg |-> off + 2, hier |-> hierOffsets,
               meta |-> IF meta = << >> THEN 0 ELSE Len(file) + 1] >>
      /\ UNCHANGED <<hdr, metaVars, hierVars, blkVars, vcEntries, txnEntries, auxVars>>

\* Mutant of PatchHeader: the offset is that of the block before the index.
PatchHeaderEarly ==
  /\ phase = "closing"
  /\ phase' = IF CanSeek THEN "patched" ELSE "done"
  /\ hdr' = IF CanSeek THEN Len(file) - 1 ELSE hdr
  /\ UNCHANGED <<file, metaVars, hierVars, blkVars, vcEntries, txnEntries, auxVars>>

\* seek and write over the header's index_offset; a stream that cannot seek
\* keeps the offset 0.
PatchHeader ==
  /\ phase = "closing"
  /\ phase' = IF CanSeek THEN "patched" ELSE "done"
  /\ hdr' = IF CanSeek THEN Len(file) ELSE hdr
  /\ UNCHANGED <<file, metaVars, hierVars, blkVars, vcEntries, txnEntries, auxVars>>

\* The file object is closed: what it buffered is in the file.
Release ==
  /\ phase = "patched" /\ phase' = "done"
  /\ UNCHANGED <<file, hdr, metaVars, hierVars, blkVars, vcEntries, txnEntries, auxVars>>

-----------------------------------------------------------------------------
Declare ==
  \/ \E s \in Names : InternString(s) \/ AddTxnSchema(s) \/ AddStreamType(s)
  \/ \E e \in Enc : AddSignalType(e)
  \/ \E s, v \in Names : AddTraceMetadata(s, v)
  \/ \E i \in 1..MaxHiers, s \in Names : BeginHierarchy(i, s)
  \/ \E h \in 1..Len(hiers) :
       \/ \E s, c \in Names : BeginScope(h, s, c)
       \/ EndScope(h)
       \/ \E s \in Names, ty \in 1..MaxTypes : AddVar(h, s, ty)
       \/ FlushHierarchy(h)
  \/ FlushStringTable
  \/ FlushTypeRegistry

RecordChanges ==
  \/ \E c \in Codecs, t \in Times : BeginVc(c, t)
  \/ \E b \in 1..Len(blks) :
       \/ \E h \in 1..Len(hiers), k \in 1..MaxVars :
            (\E t \in Times : AddChange(b, h, k, t)) \/ SetInitial(b, h, k)
       \/ FlushVc(b)

RecordTxns ==
  \/ \E sid \in BlockStreams, t \in Times : BeginTxn(sid, t)
  \/ \E b \in 1..Len(blks) :
       \/ \E sid \in Streams, id \in TxnIds, t, u \in Times : WriteFull(b, sid, id, t, u)
       \/ \E sid \in Streams, id \in TxnIds, t \in Times : WriteBegin(b, sid, id, t)
       \/ \E id \in TxnIds, t \in Times : WriteEnd(b, id, t)
       \/ \E id \in TxnIds : WriteNote(b, id)
       \/ \E id \in TxnIds, s, v \in Names : WriteMeta(b, id, s, v)
       \/ FlushTxn(b)

RecordOther ==
  \/ \E k \in AuxKeys : WriteAux(k)
  \/ WriteExt
  \/ RefuseDerived
  \/ \E e \in DerivedEncs, s \in Names :
       AddDerived(e, s) \/ \E times \in SUBSET Times : AddMaterialized(e, s, times)

\* A closed writer takes no calls.
Client == phase = "open" /\ (Declare \/ RecordChanges \/ RecordTxns \/ RecordOther)

Next == Client \/ Close \/ PatchHeader \/ Release

Spec == Init /\ [][Next]_vars

-----------------------------------------------------------------------------
(* Types *)

VarIds == 1..MaxVars \cup DerivedBase..DerivedBase + MaxDerived

PartialFcn(D, R) == UNION {[E -> R] : E \in SUBSET D}

Changes == [var : VarIds, time : Times, ty : Enc, n : Int]

TxnRecs == [tag : {"FULL", "BEGIN", "END", "NOTE", "META"}, sid : Streams \cup {Mixed},
            id : TxnIds, time : Times, until : Times, strs : Seq(Nat), n : Int]

Ranges == [start : Times, end : Times, off : Nat]

TxnRanges == [start : Times, end : Times, off : Nat, sid : BlockStreams]

KeyEntries == [key : AllAuxKeys, ordinal : Nat, off : Nat]

Registry == [sigs : Seq(Enc), schemas : Seq(Nat), streams : Seq(Nat)]

Attrs == [key : Nat, value : Nat]

Blocks == [type : {"STR"}, strings : Seq(Strings)]
     \cup [type : {"TYPE"}, reg : Registry]
     \cup [type : {"HIER"}, id : Nat, strs : SUBSET Nat, vars : Seq(Nat)]
     \cup [type : {"VC"}, codec : Nat, recs : SUBSET Changes, enc : PartialFcn(VarIds, Enc)]
     \cup [type : {"TXN"}, recs : SUBSET TxnRecs]
     \cup [type : {"AUX"}, key : AllAuxKeys, ordinal : Nat, strs : Seq(Nat)]
     \cup [type : {"EXT"}]
     \cup [type : {"META"}, attrs : Seq(Attrs)]
     \cup [type : {"INDEX"}, vc : Seq(Ranges), txn : Seq(TxnRanges), key : Seq(KeyEntries),
           strtab : Nat, typereg : Nat, hier : Seq(Nat), meta : Nat]

VcContexts ==
  [kind : {"vc"}, codec : {"core", "split"}, sid : {Mixed}, start : Times, end : Times,
   recs : SUBSET Changes, init : SUBSET Changes,
   types : PartialFcn(1..MaxTypes \cup VarIds, Enc), open : BOOLEAN]

TxnContexts ==
  [kind : {"txn"}, codec : {"record"}, sid : BlockStreams, start : Times, end : Times,
   recs : SUBSET TxnRecs, init : {{}}, types : {<< >>}, open : BOOLEAN]

Hierarchies ==
  [id : Nat, strs : SUBSET Nat, vars : Seq(1..MaxTypes), stack : Seq(1..MaxScopes),
   open : BOOLEAN]

FileTypes ==
  phase \in {"open", "closing", "patched", "done"} /\ file \in Seq(Blocks) /\ hdr \in Nat

MetaTypes == strtab \in Seq(Strings) /\ meta \in Seq(Attrs)

HierTypes ==
  /\ typereg \in Registry /\ Len(typereg.sigs) <= MaxTypes
  /\ hiers \in Seq(Hierarchies) /\ hierOffsets \in Seq(Nat) /\ scopes \in 0..MaxScopes
  /\ \A h \in 1..Len(hiers) : \A k \in 1..Len(hiers[h].vars) :
       k \in 1..MaxVars /\ hiers[h].vars[k] \in 1..Len(typereg.sigs)
  /\ varTypes \in PartialFcn(VarIds, Enc) /\ varScope \in PartialFcn(VarIds, 1..MaxScopes)

\* The state of a shared codec holds a block of that codec as soon as there is one.
BlkTypes ==
  /\ blks \in Seq(VcContexts \cup TxnContexts)
  /\ \A b \in 1..Len(blks) : IsFiniteSet(blks[b].recs)
  /\ vcState \in 0..Len(blks) /\ txnState \in 0..Len(blks)
  /\ \A b \in 1..Len(blks) : blks[b].codec = "core" =>
       vcState # 0 /\ blks[vcState].codec = "core"
  /\ \A b \in 1..Len(blks) : blks[b].codec = "record" =>
       txnState # 0 /\ blks[txnState].codec = "record"

IndexTypes ==
  /\ vcEntries \in Seq(Ranges) /\ txnEntries \in Seq(TxnRanges)
  /\ keyEntries \in Seq(KeyEntries)
  /\ auxOrdinals \in [AllAuxKeys -> Nat] /\ derived \in 0..MaxDerived

\* The type invariant, with the blocks the shared codec states hold.
TypeOK == FileTypes /\ MetaTypes /\ HierTypes /\ BlkTypes /\ IndexTypes

-----------------------------------------------------------------------------
(* Properties of the index *)

\* The entry of a value-change block leads to a block on file, and no change that
\* the block yields lies outside the entry's time range.  (The range is the encoded
\* block's start and end time, kept by add_change, or rebuilt for each scope group;
\* a change before the start must have made the encoder raise.)
VcIndexCovers ==
  \A i \in 1..Len(vcEntries) :
    LET e == vcEntries[i]
    IN  /\ e.off \in 1..Len(file) /\ file[e.off].type = "VC"
        /\ \A r \in file[e.off].recs : e.start <= r.time /\ r.time <= e.end

\* The entry of a transaction block leads to a block on file, and the block's range
\* reaches to every completed transaction and every end in it.
TxnIndexCovers ==
  \A i \in 1..Len(txnEntries) :
    LET e == txnEntries[i]
    IN  /\ e.off \in 1..Len(file) /\ file[e.off].type = "TXN"
        /\ \A r \in file[e.off].recs : r.tag \in {"FULL", "END"} => r.until <= e.end

\* The header's offset, once patched, is that of the last block, an index that
\* lists what the writer indexed; until then it is 0.
HeaderPoints ==
  IF phase \in {"open", "closing"} \/ ~CanSeek THEN hdr = 0
  ELSE /\ hdr = Len(file) /\ hdr # 0 /\ file[hdr].type = "INDEX"
       /\ file[hdr].vc = vcEntries /\ file[hdr].txn = txnEntries
       /\ file[hdr].key = keyEntries /\ file[hdr].hier = hierOffsets

-----------------------------------------------------------------------------
(* What makes the index properties inductive *)

\* The times of a context enclose what its flush writes.
Spans(c) ==
  /\ c.start <= c.end
  /\ c.kind = "vc" =>
       /\ \A r \in c.recs : r.time <= c.end
       /\ \A r \in c.init : r.time = c.start
       /\ c.codec = "split" => \A r \in c.recs : c.start <= r.time
  /\ c.kind = "txn" => \A r \in c.recs : r.tag \in {"FULL", "END"} => r.until <= c.end

ContextsSpan == \A b \in 1..Len(blks) : Spans(blks[b])

\* From the close on, the last block is the index of all entries.
IndexLast ==
  phase # "open" =>
     /\ file # << >> /\ file[Len(file)].type = "INDEX"
     /\ file[Len(file)].vc = vcEntries /\ file[Len(file)].txn = txnEntries
     /\ file[Len(file)].key = keyEntries /\ file[Len(file)].hier = hierOffsets

\* The inductive invariant: an index entry is made from a context at its flush, so
\* the contexts must satisfy beforehand what the entries promise of the blocks.
WriterInv ==
  TypeOK /\ ContextsSpan /\ VcIndexCovers /\ TxnIndexCovers /\ IndexLast /\ HeaderPoints
=============================================================================
