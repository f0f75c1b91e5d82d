------------------------------ MODULE TrlTrace ------------------------------
(***************************************************************************)
(* A trace from the first call of its writer to the file a reader opens.    *)
(* The run of the program that writes it may end at any point: what is left *)
(* of the file then is what the reader works with.                          *)
(***************************************************************************)
EXTENDS TrlWriter, SequencesExt

INSTANCE TrlReader

CONSTANT Unread  \* the writing program still runs

VARIABLE disk  \* the image its end leaves

traceVars == <<vars, disk>>

TraceInit == Init /\ disk = Unread

Write == disk = Unread /\ Next /\ UNCHANGED disk

\* The program ends.  A file object writes its buffer out in order, so a prefix of
\* the blocks is on disk; the seek that precedes the patch of the header writes
\* out everything, and the patch itself is on disk or not until the file is closed.
End ==
  /\ disk = Unread
  /\ disk' \in IF phase = "done" THEN {[blocks |-> file, hdr |-> hdr]}
               ELSE IF phase = "patched" THEN {[blocks |-> file, hdr |-> h] : h \in {0, hdr}}
               ELSE {[blocks |-> SubSeq(file, 1, n), hdr |-> 0] : n \in 0..Len(file)}
  /\ UNCHANGED vars

TraceNext == Write \/ End

TraceSpec == TraceInit /\ [][TraceNext]_traceVars

-----------------------------------------------------------------------------
(* Contexts *)

\* What a context holds: its records, and the initial values of variables with none.
Holds(b) == b.recs \cup {r \in b.init : \A s \in b.recs : s.var # r.var}

Status(b) ==
  IF b.open THEN "open" ELSE IF EncodeFails(b) THEN "refused" ELSE "logged"

-----------------------------------------------------------------------------
(* Properties of what is read back *)

Ended == disk # Unread

Closed == Ended /\ phase = "done"

Vars == {v \in 1..MaxVars : \E h \in 1..Len(hiers) : v \in DOMAIN hiers[h].vars}
        \cup DerivedBase..DerivedBase + derived - 1

Places(type) == PlacesOf(disk, type)

\* The string ids a block holds.
StringIds(blk) ==
  CASE blk.type \in {"HIER", "AUX"} -> IF blk.type = "HIER" THEN blk.strs ELSE ToSet(blk.strs)
    [] blk.type = "TXN"  -> UNION {ToSet(r.strs) : r \in blk.recs}
    [] blk.type = "META" -> UNION {{a.key, a.value} : a \in ToSet(blk.attrs)}
    [] blk.type = "TYPE" -> ToSet(blk.reg.schemas) \cup ToSet(blk.reg.streams)
    [] blk.type = "VC"   -> {blk.codec} \ {0}
    [] OTHER -> {}

\* No block of the file is read with a string other than the one its writer
\* interned, however the run ended; after a close every id resolves.  (Ids are
\* interned up to the close, the table is written by it: _string_table.py,
\* close and the scan of _scan_file.)
StringsResolve ==
  Ended => \A i \in DOMAIN disk.blocks : \A id \in StringIds(disk.blocks[i]) :
             IF id \in DOMAIN ReadStrings(disk) THEN ReadStrings(disk)[id] = strtab[id]
             ELSE phase # "done"

\* Every value of a block of the default codec is encoded with the type of the
\* value the client passed, and, as soon as a type registry is on disk, decoded
\* with it: the writer's map of variable types, copied when the block was begun,
\* and the reader's, built from registry and hierarchies, agree.
TypesAgree ==
  Ended => \A i \in Places("VC") : disk.blocks[i].codec = 0 =>
             \A r \in disk.blocks[i].recs :
               /\ disk.blocks[i].enc[r.var] = r.ty
               /\ Places("TYPE") # {} => SigType(disk, r.var) = r.ty

\* read_signal over a window gives through the index what a scan of the whole file
\* gives, for every variable and window it can decode.
WindowComplete ==
  Ended => \A v \in Vars, lo, hi \in Times :
             WindowFails(disk, lo, hi) \/ ReadWindow(disk, v, lo, hi) = ScanSignal(disk, v, lo, hi)



\* iter_txn_blocks for one stream gives every record that names the stream.
StreamComplete ==
  Ended => \A sid \in Streams :
     LET named(recs) == {r \in recs : r.tag \in {"FULL", "BEGIN"} /\ r.sid = sid}
     IN  UNION {named(recs) : recs \in ReadTxns(disk, sid)}
           = UNION {named(disk.blocks[i].recs) : i \in Places("TXN")}

\* read_aux gives, after a close, the blocks written under a key in the order of
\* the calls, none missing and none of another key.
AuxReadsBack ==
  Closed /\ CanSeek => \A key \in AllAuxKeys :
     LET read == ReadAux(disk, key)
     IN  /\ Len(read) = auxOrdinals[key]
         /\ \A i \in 1..Len(read) :
              read[i].type = "AUX" /\ read[i].key = key /\ read[i].ordinal = i - 1

Offsets(entries) == [i \in 1..Len(entries) |-> entries[i].off]

\* offs are the places of the blocks of one type, from the first to the last.
Lists(offs, blocks, type) ==
  /\ \A i \in 1..Len(offs) : offs[i] \in 1..Len(blocks) /\ blocks[offs[i]].type = type
  /\ \A n \in 1..Len(blocks) : blocks[n].type = type => \E i \in 1..Len(offs) : offs[i] = n
  /\ \A i, j \in 1..Len(offs) : i < j => offs[i] < offs[j]

\* A header on disk that points to an index points to a complete one: each block of
\* data on disk has one entry, in file order, and each offset leads to its block.
HeaderSound ==
  Ended /\ disk.hdr # 0 =>
     /\ Indexed(disk)
     /\ Lists(Offsets(Index(disk).vc), disk.blocks, "VC")
     /\ Lists(Offsets(Index(disk).txn), disk.blocks, "TXN")
     /\ Lists(Offsets(Index(disk).key), disk.blocks, "AUX")
     /\ Lists(Index(disk).hier, disk.blocks, "HIER")
     /\ disk.blocks[Index(disk).strtab].type = "STR"
     /\ disk.blocks[Index(disk).typereg].type = "TYPE"
     /\ Index(disk).meta # 0 => disk.blocks[Index(disk).meta].type = "META"

\* A closed trace opens without an error, and to the same metadata, by its index and
\* by a scan: strings, metadata, hierarchies in their order, types of variables.
PathsAgree ==
  Closed => LET scanned == [disk EXCEPT !.hdr = 0]
            IN  /\ ~OpenFails(disk) /\ ~OpenFails(scanned)
                /\ ReadStrings(disk) = ReadStrings(scanned)
                /\ ReadMeta(disk) = ReadMeta(scanned)
                /\ ReadHiers(disk) = ReadHiers(scanned)
                /\ \A v \in Vars : SigType(disk, v) = SigType(scanned, v)

\* What a block context was given is in the file once the context is flushed
\* without an error, whatever other contexts were open at the time ("Per-block
\* VcDataBlock is built lazily in new_block()", codec.py).
NothingLost ==
  \A b \in 1..Len(blks) : blks[b].kind = "vc" /\ Status(blks[b]) = "logged" =>
     \A r \in Holds(blks[b]) : \E i \in 1..Len(file) : file[i].type = "VC" /\ r \in file[i].recs

-----------------------------------------------------------------------------
(* The writer implements the store *)

IsData(blk) == blk.type \in {"VC", "TXN"}

DataPlaces(blocks) == {i \in DOMAIN blocks : IsData(blocks[i])}

Logged(blocks) ==
  [k \in 1..Cardinality(DataPlaces(blocks)) |-> blocks[Ascending(DataPlaces(blocks))[k]].recs]

Store == INSTANCE TraceStore WITH
  ctxs     <- [b \in 1..Len(blks) |-> [holds |-> Holds(blks[b]), status |-> Status(blks[b])]],
  log      <- Logged(file),
  survived <- IF disk = Unread THEN Unread ELSE Logged(disk.blocks)

\* Each flush puts what its context was given into the file once, in the order of
\* the flushes, and what survives is a prefix of that; only a flush that raised
\* logs less.
ImplementsStore == Store!StoreSpec

-----------------------------------------------------------------------------
(* What makes the properties inductive *)

\* The end of the run leaves a prefix of the file, with a header only once patched.
DiskInv ==
  Ended =>
    /\ disk \in [blocks : Seq(Blocks), hdr : Nat]
    /\ Len(disk.blocks) <= Len(file) /\ \A i \in 1..Len(disk.blocks) : disk.blocks[i] = file[i]
    /\ disk.hdr # 0 => phase \in {"patched", "done"} /\ disk.blocks = file /\ disk.hdr = hdr
    /\ phase = "done" => disk.blocks = file /\ disk.hdr = hdr

\* The entries gathered for the index are those of the blocks written so far.
EntriesListed ==
  /\ Lists(Offsets(vcEntries), file, "VC") /\ Lists(Offsets(txnEntries), file, "TXN")
  /\ Lists(Offsets(keyEntries), file, "AUX") /\ Lists(hierOffsets, file, "HIER")

\* The blocks of a key are numbered from 0 in the order of the calls.
KeysNumbered ==
  /\ \A i \in 1..Len(keyEntries) :
       LET e == keyEntries[i]
       IN  /\ e.ordinal < auxOrdinals[e.key]
           /\ file[e.off].key = e.key /\ file[e.off].ordinal = e.ordinal
  /\ \A key \in AllAuxKeys : \A n \in 0..auxOrdinals[key] - 1 :
       \E i \in 1..Len(keyEntries) : keyEntries[i].key = key /\ keyEntries[i].ordinal = n
  /\ \A i, j \in 1..Len(keyEntries) : i < j /\ keyEntries[i].key = keyEntries[j].key =>
       keyEntries[i].ordinal < keyEntries[j].ordinal

\* The blocks that the close wrote before the index are where the index says.
TailWritten ==
  phase # "open" =>
    LET index == file[Len(file)]
    IN  /\ index.strtab \in 1..Len(file)
        /\ file[index.strtab] = [type |-> "STR", strings |-> strtab]
        /\ index.typereg \in 1..Len(file)
        /\ file[index.typereg] = [type |-> "TYPE", reg |-> typereg]
        /\ IF meta = << >> THEN index.meta = 0
           ELSE index.meta \in 1..Len(file) /\ file[index.meta] = [type |-> "META", attrs |-> meta]

TraceInv == WriterInv /\ DiskInv /\ EntriesListed /\ KeysNumbered /\ TailWritten

\* With one open block of a codec at a time, it is the one the codec's shared state
\* holds.
SoleOpen ==
  \A b \in 1..Len(blks) : blks[b].open =>
    /\ blks[b].codec = "core" => vcState = b
    /\ blks[b].codec = "record" => txnState = b

OfOneStream(recs, sid) ==
  sid # Mixed => \A r \in recs : r.tag \in {"FULL", "BEGIN"} => r.sid = sid

\* Then a block indexed under a stream holds the records of no other stream.
ContextsOfStreams ==
  \A b \in 1..Len(blks) : blks[b].kind = "txn" => OfOneStream(blks[b].recs, blks[b].sid)

EntriesOfStreams ==
  \A i \in 1..Len(txnEntries) : OfOneStream(file[txnEntries[i].off].recs, txnEntries[i].sid)

\* Without flushes in mid-trace, strings, types and metadata are on file once, where
\* the index says.
MetadataOnce ==
  \A n \in 1..Len(file) :
    /\ file[n].type = "STR"  => phase # "open" /\ n = file[Len(file)].strtab
    /\ file[n].type = "TYPE" => phase # "open" /\ n = file[Len(file)].typereg
    /\ file[n].type = "META" => phase # "open" /\ n = file[Len(file)].meta

\* Every string id that is held or was written is the id of an interned string.
Interned(ids) == ids \subseteq 1..Len(strtab)

IdsOnFile == \A n \in 1..Len(file) : Interned(StringIds(file[n]))

IdsOfHierarchies == \A h \in 1..Len(hiers) : Interned(hiers[h].strs)

IdsOfContexts ==
  \A b \in 1..Len(blks) : blks[b].kind = "txn" => \A r \in blks[b].recs : Interned(ToSet(r.strs))

IdsOfTypes == Interned(ToSet(typereg.schemas)) /\ Interned(ToSet(typereg.streams))

IdsOfMeta == \A i \in 1..Len(meta) : Interned({meta[i].key, meta[i].value})

IdsInterned == IdsOnFile /\ IdsOfHierarchies /\ IdsOfContexts /\ IdsOfTypes /\ IdsOfMeta

\* With one hierarchy, declared before the first block, a variable has one type: that
\* of its declaration, or as a derived signal the default type.
InHierarchy(v, e) ==
  \E h \in 1..Len(hiers) : v \in 1..Len(hiers[h].vars) /\ e = typereg.sigs[hiers[h].vars[v]]

Declared(v, e) ==
  \/ InHierarchy(v, e)
  \/ /\ v \in DerivedBase..DerivedBase + derived - 1
     /\ v \in DOMAIN varTypes /\ varTypes[v] = e /\ e = DefaultEnc

SetupOver ==
  Len(hiers) <= 1 /\ (blks # << >> => \A h \in 1..Len(hiers) : ~hiers[h].open)

TypesKnown ==
  \A v \in VarIds, e \in Enc : Declared(v, e) => v \in DOMAIN varTypes /\ varTypes[v] = e

\* A context encodes its values with the types they were declared with.
Fits(c) ==
  \A r \in c.recs \cup c.init :
    Declared(r.var, r.ty) /\ r.var \in DOMAIN c.types /\ c.types[r.var] = r.ty

ContextsFit ==
  \A b \in 1..Len(blks) : blks[b].kind = "vc" =>
    /\ Fits(blks[b])
    /\ \A v \in VarIds, e \in Enc : InHierarchy(v, e) =>
         v \in DOMAIN blks[b].types /\ blks[b].types[v] = e

BlocksFit ==
  \A n \in 1..Len(file) : file[n].type = "VC" =>
    /\ blks # << >>
    /\ \A r \in file[n].recs : Declared(r.var, r.ty) /\ file[n].enc[r.var] = r.ty

\* The hierarchy is on file once, before the registry, as soon as it is closed.
HierarchyOnFile ==
  /\ \A n \in 1..Len(file) : file[n].type = "HIER" =>
       /\ \E h \in 1..Len(hiers) : ~hiers[h].open /\ file[n].vars = hiers[h].vars
       /\ phase # "open" => n < file[Len(file)].typereg
       /\ \A m \in 1..Len(file) : file[m].type = "HIER" => m = n
  /\ \A h \in 1..Len(hiers) : ~hiers[h].open => \E n \in 1..Len(file) : file[n].type = "HIER"

TypesInv == SetupOver /\ TypesKnown /\ ContextsFit /\ BlocksFit /\ HierarchyOnFile
=============================================================================
