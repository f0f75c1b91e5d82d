------------------------------ MODULE TrlReader ------------------------------
(***************************************************************************)
(* What the Python reader (_reader.py, _index.py) finds in a trace file.    *)
(* An image is what a file system holds of a trace: the whole blocks from   *)
(* the start of the file and the index_offset field of the header.  A block *)
(* cut short ends every scan, so it is no part of an image.                 *)
(***************************************************************************)
EXTENDS Integers, Sequences, FiniteSets, SequencesExt

CONSTANTS DefaultEnc, Mixed, SplitName

\* The places of the blocks of one type.
PlacesOf(img, type) == {i \in DOMAIN img.blocks : img.blocks[i].type = type}

\* Places from the first to the last, as a scan comes upon them.
Ascending(places) ==
  CHOOSE order \in [1..Cardinality(places) -> places] :
    /\ \A i \in places : \E k \in 1..Cardinality(places) : order[k] = i
    /\ \A k, l \in 1..Cardinality(places) : k < l => order[k] < order[l]

\* The blocks of one type, as a scan yields them.
OfType(img, type) ==
  [k \in 1..Cardinality(PlacesOf(img, type)) |-> img.blocks[Ascending(PlacesOf(img, type))[k]]]

-----------------------------------------------------------------------------
(* Opening a file: _scan_file *)

Indexed(img) ==
  img.hdr \in 1..Len(img.blocks) /\ img.blocks[img.hdr].type = "INDEX"

Index(img) == img.blocks[img.hdr]

\* The index says where the metadata is; otherwise the file is scanned for it.
FastOpen(img) == Indexed(img) /\ Index(img).strtab # 0 /\ Index(img).typereg # 0

\* Entries of a string table block are appended to those read before.
ReadStrings(img) ==
  IF FastOpen(img) THEN img.blocks[Index(img).strtab].strings
  ELSE FlattenSeq([i \in 1..Len(OfType(img, "STR")) |-> OfType(img, "STR")[i].strings])

TypePlaces(img) == IF FastOpen(img) THEN {Index(img).typereg} ELSE PlacesOf(img, "TYPE")

\* A transaction schema id that two registry blocks define makes the open fail.
OpenFails(img) ==
  \E i, j \in TypePlaces(img) :
    i < j /\ img.blocks[i].reg.schemas # << >> /\ img.blocks[j].reg.schemas # << >>

\* Signal types by id, the last definition of an id standing.
ReadSigs(img) ==
  LET sigs(i)  == img.blocks[i].reg.sigs
      defs(id) == {i \in TypePlaces(img) : id \in DOMAIN sigs(i)}
  IN  [id \in UNION {DOMAIN sigs(i) : i \in TypePlaces(img)} |->
         sigs(CHOOSE i \in defs(id) : \A j \in defs(id) : j <= i)[id]]

HierBlocks(img) ==
  IF FastOpen(img)
  THEN [i \in 1..Len(Index(img).hier) |-> img.blocks[Index(img).hier[i]]]
  ELSE OfType(img, "HIER")

\* A dictionary keyed by hierarchy id: a key stays where it first came, with the
\* block that came last.
ById(blks) ==
  LET first    == {i \in 1..Len(blks) : \A j \in 1..i - 1 : blks[j].id # blks[i].id}
      last(id) == CHOOSE i \in 1..Len(blks) :
                    blks[i].id = id /\ \A j \in i + 1..Len(blks) : blks[j].id # id
  IN  [k \in 1..Cardinality(first) |-> blks[last(blks[Ascending(first)[k]].id)]]

ReadHiers(img) == ById(HierBlocks(img))

\* The last metadata block of a scan, or the one the index names.
ReadMeta(img) ==
  LET found == PlacesOf(img, "META")
  IN  IF FastOpen(img)
      THEN IF Index(img).meta = 0 THEN << >> ELSE img.blocks[Index(img).meta].attrs
      ELSE IF found = {} THEN << >>
           ELSE img.blocks[CHOOSE i \in found : \A j \in found : j <= i].attrs

\* _build_sig_types: signal types by id, overlaid with the variables of every
\* hierarchy in turn, each by its own id.
SigType(img, v) ==
  LET hiers == ReadHiers(img)
      sigs  == ReadSigs(img)
      decl  == {i \in 1..Len(hiers) : v \in DOMAIN hiers[i].vars /\ hiers[i].vars[v] \in DOMAIN sigs}
  IN  IF decl # {}
      THEN sigs[hiers[CHOOSE i \in decl : \A j \in decl : j <= i].vars[v]]
      ELSE IF v \in DOMAIN sigs THEN sigs[v] ELSE DefaultEnc

-----------------------------------------------------------------------------
(* Value changes *)

\* A block of another codec is read when its codec id resolves to that codec.
Readable(img, blk) ==
  \/ blk.codec = 0
  \/ blk.codec \in DOMAIN ReadStrings(img) /\ ReadStrings(img)[blk.codec] = SplitName

InWindow(r, v, lo, hi) == r.var = v /\ lo <= r.time /\ r.time <= hi

\* read_signal by a scan of the whole file: the changes with the places of
\* their blocks.
ScanSignal(img, v, lo, hi) ==
  UNION {{<<i, r>> : r \in {x \in img.blocks[i].recs : InWindow(x, v, lo, hi)}} :
           i \in {j \in PlacesOf(img, "VC") : Readable(img, img.blocks[j])}}

\* Mutant of FindVcBlocks: a block that ends where the window starts is missed.
FindVcBlocksStrict(img, lo, hi) ==
  {e \in ToSet(Index(img).vc) : e.end > lo /\ e.start <= hi}

\* IndexBlock.find_vc_blocks
FindVcBlocks(img, lo, hi) ==
  {e \in ToSet(Index(img).vc) : e.end >= lo /\ e.start <= hi}

\* read_signal with a start time and an index: every block found is taken for a
\* block of the default codec, so one of another codec fails to decode.
WindowFails(img, lo, hi) ==
  Indexed(img) /\ \E e \in FindVcBlocks(img, lo, hi) : img.blocks[e.off].codec # 0

ReadWindow(img, v, lo, hi) ==
  IF Indexed(img)
  THEN UNION {{<<e.off, r>> : r \in {x \in img.blocks[e.off].recs : InWindow(x, v, lo, hi)}} :
                e \in FindVcBlocks(img, lo, hi)}
  ELSE ScanSignal(img, v, lo, hi)

-----------------------------------------------------------------------------
(* Transactions *)

\* Mutant of OfStreamOrNone: only complete transactions are taken to name a stream.
OfStreamFull(recs, sid) ==
  {r \in recs : r.tag \notin {"FULL", "BEGIN"} \/ (r.tag = "FULL" /\ r.sid = sid)}

\* Records that name no stream belong to every stream asked for.
OfStreamOrNone(recs, sid) == {r \in recs : r.tag \notin {"FULL", "BEGIN"} \/ r.sid = sid}

\* An entry of the index names a stream.
StreamsIndexed(img) == Indexed(img) /\ \E e \in ToSet(Index(img).txn) : e.sid # Mixed

\* IndexBlock.find_txn_blocks_for_stream
FindTxnBlocks(img, sid) == {e.off : e \in {f \in ToSet(Index(img).txn) : f.sid = sid}}

\* iter_txn_blocks for one stream: through the index as soon as one entry names a
\* stream, by a scan otherwise.  Blocks left empty by the filter are dropped.
ReadTxns(img, sid) ==
  LET found == IF StreamsIndexed(img) THEN FindTxnBlocks(img, sid) ELSE PlacesOf(img, "TXN")
  IN  {OfStreamOrNone(img.blocks[i].recs, sid) : i \in found} \ {{}}

-----------------------------------------------------------------------------
(* Keyed blocks: they are found through the index only. *)

\* IndexBlock.find_aux: the entries of a key, sorted by ordinal and offset.
FindAux(img, key) == {e \in ToSet(Index(img).key) : e.key = key}

SortedAux(entries) ==
  CHOOSE order \in [1..Cardinality(entries) -> entries] :
    \A k, l \in 1..Cardinality(entries) : k < l =>
      \/ order[k].ordinal < order[l].ordinal
      \/ order[k].ordinal = order[l].ordinal /\ order[k].off < order[l].off

\* read_aux
ReadAux(img, key) ==
  LET entries == IF Indexed(img) THEN FindAux(img, key) ELSE {}
  IN  [k \in 1..Cardinality(entries) |-> img.blocks[SortedAux(entries)[k].off]]
=============================================================================
