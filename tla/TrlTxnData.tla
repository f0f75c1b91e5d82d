------------------------------ MODULE TrlTxnData -----------------------------
(***************************************************************************)
(* A block of transaction records, written and read back (_txn_data.py, with *)
(* the core.record codec of codec.py).                                      *)
(*                                                                          *)
(* The client adds records; the flush encodes them one after the other in   *)
(* the row or the column layout, ids and times as words or as differences   *)
(* to a running state, the id and time of the records before; the reader    *)
(* decodes them with a running state of its own, and with the schemas of    *)
(* the registry, some of which may have come after the block was begun.     *)
(*                                                                          *)
(* A column is a list of numbers (TrlCodecs); the row layout has one column *)
(* for all.  Compression loses nothing and is left out; its size, on which  *)
(* the adaptive layout depends, may be any.                                 *)
(***************************************************************************)
EXTENDS TrlCodecs, FiniteSets

CONSTANTS
  Layouts,      \* the writer's column_layout
  AutoMin,      \* records from which the automatic layout is by column: 32
  FieldLists,   \* lists of field types a client declares
  TxnTypes,     \* types a client names, declared or not
  RecIds, Spans, AttrLists,  \* ids, (start, end) pairs and attributes of records
  MaxTxnRecs, MaxTxnTypes

ASSUME TxnDataAssumption ==
  /\ Layouts \subseteq {"row", "column", "auto", "adaptive"}
  /\ AutoMin \in Nat
  /\ FieldLists \subseteq Seq({"U8", "U64", "VAR"})
  /\ TxnTypes \subseteq Nat
  /\ RecIds \subseteq 0..(2 * Half - 1)
  /\ Spans \subseteq (0..(2 * Half - 1)) \X (0..(2 * Half - 1))
  /\ AttrLists \subseteq Seq([idx : Nat, val : Int])
  /\ MaxTxnRecs \in Nat
  /\ MaxTxnTypes \in Nat

VARIABLES
  txnReg,     \* the schemas of the type registry: lists of field types
  txnBlk,     \* the block: its layout, flags (by differences, by column), known schemas
  txnRecs,    \* _records
  txnCols,    \* the columns of the payload
  txnMarks,   \* running states of the encoder, the current one last
  txnCur,     \* the reader's cursor in each column
  txnRead,    \* the records read
  txnPhase    \* "closed", "open", "encoding", "decoding", "raised" or "astray"

txnVars == <<txnReg, txnBlk, txnRecs, txnCols, txnMarks, txnCur, txnRead, txnPhase>>

\* TxnColumnId; the one column of the row layout has a number of its own.
Col == [row |-> 256, tag |-> 0, stream |-> 1, type |-> 2, id |-> 3, time |-> 4,
        duration |-> 5, parent |-> 6, link |-> 7, target |-> 8, label |-> 9,
        key |-> 10, value |-> 11, inline |-> 12, attr |-> 128]

\* _advance_state: a record without a time leaves the time as it was.
Advance(r, time) ==
  [id |-> r.id,
   time |-> CASE r.tag \in {"FULL", "END"} -> r.end
              [] r.tag = "BEGIN" -> r.start
              [] OTHER -> time]

\* The running state of the encoder.
Mark == txnMarks[Len(txnMarks)]

\* Mutant of Reached: only complete transactions move the reader's time.
ReachedByFull(recs) ==
  LET timed == {k \in 1..Len(recs) : recs[k].tag = "FULL"}
      last == CHOOSE k \in timed : \A j \in timed : j <= k
  IN  IF recs = << >> THEN [id |-> 0, time |-> 0]
      ELSE Advance(recs[Len(recs)], IF timed = {} THEN 0 ELSE recs[last].end)

\* The reader's running state after some records (_advance_decoded_state).
Reached(recs) ==
  LET timed == {k \in 1..Len(recs) : recs[k].tag \in {"FULL", "BEGIN", "END"}}
      last == CHOOSE k \in timed : \A j \in timed : j <= k
  IN  IF recs = << >> THEN [id |-> 0, time |-> 0]
      ELSE Advance(recs[Len(recs)], IF timed = {} THEN 0 ELSE Advance(recs[last], 0).time)

\* The type a field is written or read as; one no schema knows is a word.
FieldType(schemas, type, idx) ==
  IF type \in DOMAIN schemas /\ idx < Len(schemas[type]) THEN schemas[type][idx + 1]
  ELSE "U64"

-----------------------------------------------------------------------------
(* Recording *)

TxnInit ==
  /\ txnReg = << >>
  /\ txnBlk \in [layout : Layouts, delta : BOOLEAN, column : {FALSE}, known : {<< >>}]
  /\ txnRecs = << >>
  /\ txnCols = << >>
  /\ txnMarks = <<[id |-> 0, time |-> 0]>>
  /\ txnCur = << >>
  /\ txnRead = << >>
  /\ txnPhase = "closed"

\* TrlWriter.add_txn_schema
DeclareSchema(fields) ==
  /\ txnPhase \in {"closed", "open"}
  /\ Len(txnReg) < MaxTxnTypes
  /\ txnReg' = Append(txnReg, fields)
  /\ UNCHANGED <<txnBlk, txnRecs, txnCols, txnMarks, txnCur, txnRead, txnPhase>>

\* new_block: the block encodes with the schemas known now.  Its start time is
\* the time 0 of the model.
BeginTxnBlock ==
  /\ txnPhase = "closed"
  /\ txnPhase' = "open"
  /\ txnBlk' = [txnBlk EXCEPT !.known = txnReg]
  /\ UNCHANGED <<txnReg, txnRecs, txnCols, txnMarks, txnCur, txnRead>>

Record(r) ==
  /\ txnPhase = "open"
  /\ Len(txnRecs) < MaxTxnRecs
  /\ txnRecs' = Append(txnRecs, r)
  /\ UNCHANGED <<txnReg, txnBlk, txnCols, txnMarks, txnCur, txnRead, txnPhase>>

RecordFull(type, id, span, attrs) ==
  Record([tag |-> "FULL", stream |-> 1, type |-> type, id |-> id,
          start |-> span[1], end |-> span[2], parent |-> 2, attrs |-> attrs])

RecordBegin(type, id, span) ==
  Record([tag |-> "BEGIN", stream |-> 1, type |-> type, id |-> id,
          start |-> span[1], parent |-> 3])

RecordAttrs(id, attrs) == Record([tag |-> "ATTR", id |-> id, attrs |-> attrs])

RecordEnd(id, span) == Record([tag |-> "END", id |-> id, end |-> span[2]])

RecordLink(id) ==
  Record([tag |-> "LINK", link |-> 4, id |-> id, target |-> 5, label |-> 6])

RecordMeta(id) == Record([tag |-> "META", id |-> id, key |-> 7, value |-> 8])

-----------------------------------------------------------------------------
(* Encoding *)

\* _should_use_column: enough records, and no field of variable width in a type
\* they name.
AutoColumn ==
  /\ Len(txnRecs) >= AutoMin
  /\ \A k \in 1..Len(txnRecs) :
       LET r == txnRecs[k]
       IN  r.tag \in {"FULL", "BEGIN"} /\ r.type \in DOMAIN txnBlk.known =>
             \A i \in 1..Len(txnBlk.known[r.type]) : txnBlk.known[r.type][i] # "VAR"

\* The layouts a block is encoded in; of several the smaller one is written.
Tried ==
  CASE txnBlk.layout = "adaptive" -> {"row", "column"}
    [] txnBlk.layout = "auto" -> {IF AutoColumn THEN "column" ELSE "row"}
    [] OTHER -> {txnBlk.layout}

\* FLAG_TXN_COLUMN, set once the block is encoded.
ByColumn == txnBlk.column

\* encode_block, up to the records.
FlushTxnBlock ==
  /\ txnPhase = "open"
  /\ txnPhase' = "encoding"
  /\ \E layout \in Tried :
       /\ txnBlk' = [txnBlk EXCEPT !.column = (layout = "column")]
       /\ txnCols' = [c \in {IF layout = "row" THEN Col.row ELSE Col.tag} |-> << >>]
  /\ UNCHANGED <<txnReg, txnRecs, txnMarks, txnCur, txnRead>>

\* A record an encoder raises on: an end before the start, where the duration
\* is written, or an attribute that does not fit its field.
Refused(layout, r) ==
  \/ r.tag = "FULL" /\ r.end < r.start /\ (txnBlk.delta \/ layout = "column")
  \/ r.tag = "FULL" /\ \E k \in 1..Len(r.attrs) :
       ~FieldFits(FieldType(txnBlk.known, r.type, r.attrs[k].idx), r.attrs[k].val)
  \/ r.tag = "ATTR" /\ \E k \in 1..Len(r.attrs) : ~FieldFits("U64", r.attrs[k].val)

\* Ids and times, by difference to the running state or as words.
IdCell(mark, r) == IF txnBlk.delta THEN S(r.id - mark.id) ELSE Q(r.id)
TimeCell(mark, t) == IF txnBlk.delta THEN S(t - mark.time) ELSE Q(t)

\* Attributes with their index; the value as a field of its type, or, with the
\* type before it, of any.
RowAttrs(r) ==
  LET Type(idx) == IF r.tag = "ATTR" THEN "INLINE" ELSE FieldType(txnBlk.known, r.type, idx)
  IN  <<U(Len(r.attrs))>> \o
      [k \in 1..2 * Len(r.attrs) |->
         LET a == r.attrs[(k + 1) \div 2]
         IN  IF k % 2 = 1 THEN U(a.idx) ELSE F(Type(a.idx), a.val)]

\* _encode_record: the numbers of a record, in order.
RowCells(mark, r) ==
  LET Plain(n) == IF txnBlk.delta THEN U(n) ELSE Q(n)
      end == IF txnBlk.delta THEN U(r.end - r.start) ELSE Q(r.end)
  IN  <<F("TAG", r.tag)>> \o
      CASE r.tag = "FULL" ->
             <<U(r.stream), U(r.type), IdCell(mark, r), TimeCell(mark, r.start), end, Plain(r.parent)>>
             \o RowAttrs(r)
        [] r.tag = "BEGIN" ->
             <<U(r.stream), U(r.type), IdCell(mark, r), TimeCell(mark, r.start), Plain(r.parent)>>
        [] r.tag = "ATTR" -> <<IdCell(mark, r)>> \o RowAttrs(r)
        [] r.tag = "END" -> <<IdCell(mark, r), TimeCell(mark, r.end)>>
        [] r.tag = "LINK" -> <<U(r.link), IdCell(mark, r), Plain(r.target), U(r.label)>>
        [] r.tag = "META" -> <<IdCell(mark, r), U(r.key), U(r.value)>>

\* _encode_attrs_column: the value alone, in the column of its field.
AttrCells(r) ==
  [k \in 1..Len(r.attrs) |->
     LET a == r.attrs[k]
     IN  <<Col.attr + a.idx, F(FieldType(txnBlk.known, r.type, a.idx), a.val)>>]

\* _encode_payload_column: what a record adds, and to which columns.
ColumnCells(mark, r) ==
  LET duration == IF txnBlk.delta THEN U(r.end - r.start) ELSE Q(r.end - r.start)
  IN  <<<<Col.tag, F("TAG", r.tag)>>, <<Col.id, IdCell(mark, r)>>>> \o
      CASE r.tag = "FULL" ->
             <<<<Col.stream, U(r.stream)>>, <<Col.type, U(r.type)>>,
               <<Col.time, TimeCell(mark, r.start)>>, <<Col.duration, duration>>,
               <<Col.parent, U(r.parent)>>>> \o AttrCells(r)
        [] r.tag = "BEGIN" ->
             <<<<Col.stream, U(r.stream)>>, <<Col.type, U(r.type)>>,
               <<Col.time, TimeCell(mark, r.start)>>, <<Col.parent, U(r.parent)>>>>
        [] r.tag = "ATTR" -> <<<<Col.inline, F("INLINE", r.attrs)>>>>
        [] r.tag = "END" -> <<<<Col.time, TimeCell(mark, r.end)>>>>
        [] r.tag = "LINK" ->
             <<<<Col.link, U(r.link)>>, <<Col.target, U(r.target)>>, <<Col.label, U(r.label)>>>>
        [] r.tag = "META" -> <<<<Col.key, U(r.key)>>, <<Col.value, U(r.value)>>>>

\* Columns with the cells of a record put at their ends; a column is there once
\* it has a cell.
Scatter(puts) ==
  LET at == {puts[k][1] : k \in 1..Len(puts)}
      Of(c) == SelectSeq(puts, LAMBDA p : p[1] = c)
      Old(c) == IF c \in DOMAIN txnCols THEN txnCols[c] ELSE << >>
  IN  [c \in DOMAIN txnCols \cup at |-> Old(c) \o [k \in 1..Len(Of(c)) |-> Of(c)[k][2]]]

\* One turn of the encoder's loop.  The running state is there without
\* differences too, but not used.
EncodeRecord ==
  /\ txnPhase = "encoding"
  /\ Len(txnMarks) <= Len(txnRecs)
  /\ LET r == txnRecs[Len(txnMarks)]
     IN  IF \E layout \in Tried : Refused(layout, r)
         THEN /\ txnPhase' = "raised"
              /\ UNCHANGED <<txnCols, txnMarks>>
         ELSE /\ txnCols' = IF ByColumn THEN Scatter(ColumnCells(Mark, r))
                            ELSE [txnCols EXCEPT ![Col.row] = @ \o RowCells(Mark, r)]
              /\ txnMarks' = Append(txnMarks, Advance(r, Mark.time))
              /\ UNCHANGED txnPhase
  /\ UNCHANGED <<txnReg, txnBlk, txnRecs, txnCur, txnRead>>

\* read_block, up to the records.
OpenTxnBlock ==
  /\ txnPhase = "encoding"
  /\ Len(txnMarks) > Len(txnRecs)
  /\ txnPhase' = "decoding"
  /\ txnCur' = [c \in DOMAIN txnCols |-> 0]
  /\ UNCHANGED <<txnReg, txnBlk, txnRecs, txnCols, txnMarks, txnRead>>

-----------------------------------------------------------------------------
(* Decoding *)

\* An id or a time from its cell.
ReadId(n) == IF txnBlk.delta THEN Reached(txnRead).id + Unzigzag(n) ELSE n
ReadTime(n) == IF txnBlk.delta THEN Reached(txnRead).time + Unzigzag(n) ELSE n
ReadEnd(start, n) == IF txnBlk.delta THEN start + n ELSE n

\* _decode_record: the formats of what follows a tag, up to attributes.
RowFormats(tag) ==
  LET signed == IF txnBlk.delta THEN "s" ELSE "q"
      plain == IF txnBlk.delta THEN "u" ELSE "q"
  IN  CASE tag = "FULL" -> <<"TAG", "u", "u", signed, signed, plain, plain>>
        [] tag = "BEGIN" -> <<"TAG", "u", "u", signed, signed, plain>>
        [] tag = "ATTR" -> <<"TAG", signed>>
        [] tag = "END" -> <<"TAG", signed, signed>>
        [] tag = "LINK" -> <<"TAG", "u", signed, plain, "u">>
        [] tag = "META" -> <<"TAG", signed, "u", "u">>

\* _decode_record: the record whose numbers follow cell c.
RowRecord(tag, cells, c, attrs) ==
  LET v(k) == cells[c + k].val
      start == ReadTime(v(5))
  IN  CASE tag = "FULL" ->
             [tag |-> tag, stream |-> v(2), type |-> v(3), id |-> ReadId(v(4)), start |-> start,
              end |-> ReadEnd(start, v(6)), parent |-> v(7), attrs |-> attrs]
        [] tag = "BEGIN" ->
             [tag |-> tag, stream |-> v(2), type |-> v(3), id |-> ReadId(v(4)), start |-> start,
              parent |-> v(6)]
        [] tag = "ATTR" -> [tag |-> tag, id |-> ReadId(v(2)), attrs |-> attrs]
        [] tag = "END" -> [tag |-> tag, id |-> ReadId(v(2)), end |-> ReadTime(v(3))]
        [] tag = "LINK" ->
             [tag |-> tag, link |-> v(2), id |-> ReadId(v(3)), target |-> v(4), label |-> v(5)]
        [] tag = "META" -> [tag |-> tag, id |-> ReadId(v(2)), key |-> v(3), value |-> v(4)]

\* _decode_attrs: after cell c a count, then indices and values, each value of
\* the type of its field or, with the type before it, of any.
HoldsAttrs(cells, c, tag, type) ==
  LET Type(idx) == IF tag = "ATTR" THEN "INLINE" ELSE FieldType(txnReg, type, idx) IN
  /\ Holds(cells, c, <<"u">>)
  /\ \A k \in 1..cells[c + 1].val :
       /\ Holds(cells, c + 2 * k - 1, <<"u">>)
       /\ Holds(cells, c + 2 * k, <<Type(cells[c + 2 * k].val)>>)

AttrsAt(cells, c) ==
  [k \in 1..cells[c + 1].val |->
     [idx |-> cells[c + 2 * k].val, val |-> cells[c + 2 * k + 1].val]]

\* One turn of the row decoder: it reads on as the formats it expects tell.
DecodeRow ==
  LET cells == txnCols[Col.row]
      c == txnCur[Col.row]
      tag == cells[c + 1].val
      fmts == RowFormats(tag)
      p == c + Len(fmts)
      with == tag \in {"FULL", "ATTR"}
  IN  IF Holds(cells, c, <<"TAG">>) /\ Holds(cells, c, fmts)
         /\ (with => HoldsAttrs(cells, p, tag, cells[c + 3].val))
      THEN /\ txnRead' = Append(txnRead,
                RowRecord(tag, cells, c, IF with THEN AttrsAt(cells, p) ELSE << >>))
           /\ txnCur' = [txnCur EXCEPT ![Col.row] =
                           IF with THEN p + 1 + 2 * cells[p + 1].val ELSE p]
           /\ UNCHANGED txnPhase
      ELSE txnPhase' = "astray" /\ UNCHANGED <<txnRead, txnCur>>

\* _decode_payload_column: the columns a record is read from, and the formats.
ColumnFormats(tag) ==
  LET signed == IF txnBlk.delta THEN "s" ELSE "q"
      plain == IF txnBlk.delta THEN "u" ELSE "q"
  IN  {<<Col.tag, "TAG">>, <<Col.id, signed>>} \cup
      CASE tag = "FULL" -> {<<Col.stream, "u">>, <<Col.type, "u">>, <<Col.time, signed>>,
                            <<Col.duration, plain>>, <<Col.parent, "u">>}
        [] tag = "BEGIN" -> {<<Col.stream, "u">>, <<Col.type, "u">>, <<Col.time, signed>>,
                             <<Col.parent, "u">>}
        [] tag = "ATTR" -> {<<Col.inline, "INLINE">>}
        [] tag = "END" -> {<<Col.time, signed>>}
        [] tag = "LINK" -> {<<Col.link, "u">>, <<Col.target, "u">>, <<Col.label, "u">>}
        [] tag = "META" -> {<<Col.key, "u">>, <<Col.value, "u">>}

\* _decode_payload_column: the record at the cursors.
ColumnRecord(tag, attrs) ==
  LET v(c) == txnCols[c][txnCur[c] + 1].val
      start == ReadTime(v(Col.time))
  IN  CASE tag = "FULL" ->
             [tag |-> tag, stream |-> v(Col.stream), type |-> v(Col.type),
              id |-> ReadId(v(Col.id)), start |-> start, end |-> start + v(Col.duration),
              parent |-> v(Col.parent), attrs |-> attrs]
        [] tag = "BEGIN" ->
             [tag |-> tag, stream |-> v(Col.stream), type |-> v(Col.type),
              id |-> ReadId(v(Col.id)), start |-> start, parent |-> v(Col.parent)]
        [] tag = "ATTR" -> [tag |-> tag, id |-> ReadId(v(Col.id)), attrs |-> v(Col.inline)]
        [] tag = "END" -> [tag |-> tag, id |-> ReadId(v(Col.id)), end |-> start]
        [] tag = "LINK" -> [tag |-> tag, link |-> v(Col.link), id |-> ReadId(v(Col.id)),
                            target |-> v(Col.target), label |-> v(Col.label)]
        [] tag = "META" -> [tag |-> tag, id |-> ReadId(v(Col.id)), key |-> v(Col.key),
                            value |-> v(Col.value)]

\* _decode_attrs_column: a value is read for every field of the schema that has
\* a column, in the order of the schema.
FieldsRead(type) ==
  LET fields == IF type \in DOMAIN txnReg THEN 1..Len(txnReg[type]) ELSE {}
  IN  SelectSeq([i \in fields |-> i - 1], LAMBDA idx : Col.attr + idx \in DOMAIN txnCols)

\* One turn of the column decoder: each column it reads from gives one cell.
DecodeColumns ==
  LET v(c) == txnCols[c][txnCur[c] + 1].val
      There(c, fmt) == c \in DOMAIN txnCols /\ Holds(txnCols[c], txnCur[c], <<fmt>>)
      tag == v(Col.tag)
      fields == IF tag = "FULL" THEN FieldsRead(v(Col.type)) ELSE << >>
      taken == {f[1] : f \in ColumnFormats(tag)}
                 \cup {Col.attr + fields[k] : k \in 1..Len(fields)}
      attrs == [k \in 1..Len(fields) |-> [idx |-> fields[k], val |-> v(Col.attr + fields[k])]]
  IN  IF /\ There(Col.tag, "TAG")
         /\ \A f \in ColumnFormats(tag) : There(f[1], f[2])
         /\ \A k \in 1..Len(fields) :
              There(Col.attr + fields[k], FieldType(txnReg, v(Col.type), fields[k]))
      THEN /\ txnRead' = Append(txnRead, ColumnRecord(tag, attrs))
           /\ txnCur' = [c \in DOMAIN txnCur |-> IF c \in taken THEN txnCur[c] + 1 ELSE txnCur[c]]
           /\ UNCHANGED txnPhase
      ELSE txnPhase' = "astray" /\ UNCHANGED <<txnRead, txnCur>>

\* The reader's loop runs as often as records were written.
DecodeRecord ==
  /\ txnPhase = "decoding"
  /\ Len(txnRead) < Len(txnRecs)
  /\ IF ByColumn THEN DecodeColumns ELSE DecodeRow
  /\ UNCHANGED <<txnReg, txnBlk, txnRecs, txnCols, txnMarks>>

-----------------------------------------------------------------------------
TxnNext ==
  \/ \E fields \in FieldLists : DeclareSchema(fields)
  \/ BeginTxnBlock
  \/ \E type \in TxnTypes, id \in RecIds, span \in Spans :
       RecordBegin(type, id, span) \/ \E attrs \in AttrLists : RecordFull(type, id, span, attrs)
  \/ \E id \in RecIds : RecordLink(id) \/ RecordMeta(id)
  \/ \E id \in RecIds, attrs \in AttrLists : RecordAttrs(id, attrs)
  \/ \E id \in RecIds, span \in Spans : RecordEnd(id, span)
  \/ FlushTxnBlock \/ EncodeRecord \/ OpenTxnBlock \/ DecodeRecord

TxnSpec == TxnInit /\ [][TxnNext]_txnVars

-----------------------------------------------------------------------------
(* Properties *)

\* What was encoded could be: every difference fits a signed word, and a type
\* had the schema the reader knows when the block was begun.
Representable ==
  /\ txnBlk.delta => \A k \in 1..(Len(txnMarks) - 1) :
       LET r == txnRecs[k] IN
       /\ Signed(r.id - txnMarks[k].id)
       /\ r.tag \in {"FULL", "BEGIN"} => Signed(r.start - txnMarks[k].time)
       /\ r.tag = "END" => Signed(r.end - txnMarks[k].time)
  /\ \A k \in 1..Len(txnRecs) :
       txnRecs[k].tag = "FULL" /\ txnRecs[k].type \in DOMAIN txnReg =>
         txnRecs[k].type \in DOMAIN txnBlk.known

\* The records read so far are the first of those written, and none was in vain.
ReadsOn ==
  /\ txnPhase # "astray"
  /\ txnRead = SubSeq(txnRecs, 1, Len(txnRead))

\* In the row layout the reader finds every record as it was written: its
\* running state is the writer's at the same record, and it finds the end of
\* every list of attributes.
RowReadsBack == ~ByColumn /\ Representable => ReadsOn

\* The attributes of every transaction are, in order, the fields of its schema
\* that any transaction of the block has.
Dense ==
  LET full == {k \in 1..Len(txnRecs) : txnRecs[k].tag = "FULL"}
      Indices(r) == [i \in 1..Len(r.attrs) |-> r.attrs[i].idx]
      used == UNION {{a.idx : a \in {txnRecs[k].attrs[i] : i \in 1..Len(txnRecs[k].attrs)}} :
                     k \in full}
      Fields(r) == IF r.type \in DOMAIN txnReg THEN 1..Len(txnReg[r.type]) ELSE {}
  IN  \A k \in full :
        Indices(txnRecs[k]) = SelectSeq([i \in Fields(txnRecs[k]) |-> i - 1],
                                        LAMBDA idx : idx \in used)

\* In the column layout the same holds of a block whose transactions leave no
\* gap in a column.
ColumnReadsBack == ByColumn /\ Representable /\ Dense => ReadsOn

\* The codec is announced as lossless: so the same would hold of every block of
\* declared types.  Violated: a value is read for every field that has a column,
\* also of a transaction that has none.
AttrsReadBack ==
  /\ ByColumn /\ Representable
  /\ \A k \in 1..Len(txnRecs) : txnRecs[k].tag = "FULL" => txnRecs[k].type \in DOMAIN txnReg
  => ReadsOn

-----------------------------------------------------------------------------
(* The inductive invariant *)

RecordOK(r) ==
  \/ /\ r.tag = "FULL"
     /\ r = [tag |-> r.tag, stream |-> r.stream, type |-> r.type, id |-> r.id,
             start |-> r.start, end |-> r.end, parent |-> r.parent, attrs |-> r.attrs]
     /\ r.id \in Int /\ r.start \in Int /\ r.end \in Int
     /\ r.attrs \in Seq([idx : Nat, val : Int])
  \/ /\ r.tag = "BEGIN"
     /\ r = [tag |-> r.tag, stream |-> r.stream, type |-> r.type, id |-> r.id,
             start |-> r.start, parent |-> r.parent]
     /\ r.id \in Int /\ r.start \in Int
  \/ /\ r.tag = "ATTR"
     /\ r = [tag |-> r.tag, id |-> r.id, attrs |-> r.attrs]
     /\ r.id \in Int /\ r.attrs \in Seq([idx : Nat, val : Int])
  \/ /\ r.tag = "END"
     /\ r = [tag |-> r.tag, id |-> r.id, end |-> r.end]
     /\ r.id \in Int /\ r.end \in Int
  \/ /\ r.tag = "LINK"
     /\ r = [tag |-> r.tag, link |-> r.link, id |-> r.id, target |-> r.target,
             label |-> r.label]
     /\ r.id \in Int
  \/ /\ r.tag = "META"
     /\ r = [tag |-> r.tag, id |-> r.id, key |-> r.key, value |-> r.value]
     /\ r.id \in Int

MarkOK(mark) ==
  mark = [id |-> mark.id, time |-> mark.time] /\ mark.id \in Int /\ mark.time \in Int

TxnTypeOK ==
  /\ Len(txnReg) \in Nat /\ txnReg = [i \in 1..Len(txnReg) |-> txnReg[i]]
  /\ txnBlk = [layout |-> txnBlk.layout, delta |-> txnBlk.delta,
               column |-> txnBlk.column, known |-> txnBlk.known]
  /\ txnBlk.layout \in Layouts /\ txnBlk.delta \in BOOLEAN /\ txnBlk.column \in BOOLEAN
  /\ txnRecs \in Seq({txnRecs[k] : k \in DOMAIN txnRecs})
  /\ \A k \in DOMAIN txnRecs : RecordOK(txnRecs[k])
  /\ txnMarks \in Seq({txnMarks[k] : k \in DOMAIN txnMarks})
  /\ \A k \in DOMAIN txnMarks : MarkOK(txnMarks[k])
  /\ txnRead \in Seq({txnRead[k] : k \in DOMAIN txnRead})
  /\ txnPhase \in {"closed", "open", "encoding", "decoding", "raised", "astray"}

\* A block's schemas are the registry's, up to those declared since.
KnownOfRegistry ==
  /\ Len(txnBlk.known) \in Nat /\ Len(txnBlk.known) <= Len(txnReg)
  /\ txnBlk.known = [i \in 1..Len(txnBlk.known) |-> txnReg[i]]

\* How far each phase has come.
TxnProgress ==
  /\ Len(txnMarks) \in 1..(Len(txnRecs) + 1)
  /\ txnPhase \in {"closed", "open"} => Len(txnMarks) = 1
  /\ txnPhase \in {"closed", "open", "encoding", "raised"} => txnRead = << >>
  /\ txnPhase \in {"decoding", "astray"} => Len(txnMarks) = Len(txnRecs) + 1

\* The encoder's running states: the first is the block's, and each record moves it.
MarksFollow ==
  /\ txnMarks[1] = [id |-> 0, time |-> 0]
  /\ \A k \in 1..(Len(txnMarks) - 1) :
       txnMarks[k + 1] = Advance(txnRecs[k], txnMarks[k].time)

\* The numbers of record k begin after cell at[k] of the row.
RowAt(at, k) ==
  LET s == RowCells(txnMarks[k], txnRecs[k])
  IN  /\ at[k + 1] = at[k] + Len(s)
      /\ \A i \in 1..Len(s) : txnCols[Col.row][at[k] + i] = s[i]

\* The row is the numbers of the records in order, and the reader is between two records.
RowInOrder ==
  /\ DOMAIN txnCols = {Col.row}
  /\ Len(txnCols[Col.row]) \in Nat
  /\ txnCols[Col.row] = [i \in 1..Len(txnCols[Col.row]) |-> txnCols[Col.row][i]]
  /\ \E at \in [1..Len(txnMarks) -> 0..Len(txnCols[Col.row])] :
       /\ at[1] = 0 /\ at[Len(txnMarks)] = Len(txnCols[Col.row])
       /\ \A k \in 1..(Len(txnMarks) - 1) : RowAt(at, k)
       /\ txnPhase = "decoding" => DOMAIN txnCur = {Col.row}
       /\ Representable /\ txnPhase = "decoding" => txnCur[Col.row] = at[Len(txnRead) + 1]

\* What the reader has of a block in rows: the first records, and the running state the
\* writer had after them.
RowRead ==
  Representable =>
    /\ ReadsOn /\ Len(txnRead) <= Len(txnRecs)
    /\ txnPhase = "decoding" => Reached(txnRead) = txnMarks[Len(txnRead) + 1]

TxnInv ==
  /\ TxnTypeOK /\ KnownOfRegistry /\ TxnProgress /\ MarksFollow
  /\ ~ByColumn /\ txnPhase \notin {"closed", "open"} => RowInOrder
  /\ ~ByColumn => RowRead
=============================================================================
