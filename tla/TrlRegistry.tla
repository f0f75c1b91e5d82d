----------------------------- MODULE TrlRegistry -----------------------------
(***************************************************************************)
(* The type registry's block and typed metadata, written and read back      *)
(* (_type_registry.py, _metadata.py), and what a reader answers about the   *)
(* metadata and the profiles of a stream type (_reader.py).                 *)
(*                                                                          *)
(* Ids count from 1 in each kind of entry, so a kind is a list.  Strings    *)
(* have numbers here, and names that are only copied are left out.  That a  *)
(* second registry in a file repeats schemas is TrlReader's.  A newer       *)
(* writer may put fields at the end of an entry with a length, and entries  *)
(* of a kind unknown to the reader.                                         *)
(***************************************************************************)
EXTENDS TrlCodecs, SequencesExt

CONSTANTS
  MetaKeys,      \* keys of metadata; the well-known one of profiles is ProfileKey
  ProfileKey,
  MetaValues,    \* values a client gives: single ones and lists
  Profiles,      \* profile names
  StreamCodecs,  \* codec, version and parameters a stream may be given
  EnumValues,    \* lists of an enumeration's numbers
  MaxRegCalls

ASSUME RegistryAssumption ==
  /\ MetaKeys \cup {ProfileKey} \cup Profiles \subseteq Nat
  /\ \A value \in MetaValues :
       /\ value.list \in BOOLEAN
       /\ value.kind \in {"BOOL", "INT", "REAL", "STR"}
       /\ value.vals \in Seq(Int)
       /\ ~value.list => Len(value.vals) = 1
  /\ \A codec \in StreamCodecs :
       /\ codec = [id |-> codec.id, version |-> codec.version, params |-> codec.params]
       /\ codec.id \in Nat
  /\ EnumValues \subseteq Seq(Int)
  /\ MaxRegCalls \in Nat

VARIABLES
  reg,        \* the registry: signal types, schemas, enumerations, streams
  regMeta,    \* attributes of the trace (MetaBlock)
  regGiven,   \* history: of each stream, the profiles added and whether its
              \* metadata under their key was given in another way
  regNewer,   \* whether the file comes from a newer writer
  regCells,   \* the payloads of the registry's block and of the metadata block
  regCur,     \* cells of the registry's block that were read
  regRead,    \* what was read
  regPhase    \* "open", "raised", "written", "read" or "astray"

regVars == <<reg, regMeta, regGiven, regNewer, regCells, regCur, regRead, regPhase>>

NoEntries == [sigs |-> << >>, schemas |-> << >>, enums |-> << >>, streams |-> << >>]

RegInit ==
  /\ reg = NoEntries
  /\ regMeta = << >>
  /\ regGiven = << >>
  /\ regNewer \in BOOLEAN
  /\ regCells = [registry |-> << >>, meta |-> << >>]
  /\ regCur = 0
  /\ regRead = [reg |-> NoEntries, meta |-> << >>]
  /\ regPhase = "open"

-----------------------------------------------------------------------------
(* Declarations *)

Calls ==
  Len(reg.sigs) + Len(reg.schemas) + Len(reg.enums) + Len(reg.streams) + Len(regMeta)
  + FoldLeft(LAMBDA n, s : n + Len(s.inputs)
                             + FoldLeft(LAMBDA k, a : k + Len(a.vals), 0, s.metadata),
             0, reg.streams)

Open == regPhase = "open" /\ Calls < MaxRegCalls

Declared(kind, entry) ==
  /\ Open
  /\ reg' = [reg EXCEPT ![kind] = Append(@, entry)]
  /\ UNCHANGED <<regMeta, regNewer, regCells, regCur, regRead, regPhase>>

\* TypeRegistry.add_signal_type, add_txn_schema, add_enum_type
AddSignal == Declared("sigs", [width |-> 2]) /\ UNCHANGED regGiven
AddSchema(fields) == Declared("schemas", fields) /\ UNCHANGED regGiven
AddEnum(values) == Declared("enums", values) /\ UNCHANGED regGiven

\* TypeRegistry.add_stream_decl
AddStreamDecl(codec) ==
  /\ Declared("streams", [kind |-> 1, codec |-> codec, metadata |-> << >>, inputs |-> << >>])
  /\ regGiven' = Append(regGiven, [profiles |-> << >>, otherwise |-> FALSE])

Restream(stream, entry) ==
  /\ Open
  /\ reg' = [reg EXCEPT !.streams[stream] = entry]
  /\ UNCHANGED <<regMeta, regNewer, regCells, regCur, regRead, regPhase>>

\* set_stream_codec, set_stream_dependencies
SetCodec(stream, codec) ==
  Restream(stream, [reg.streams[stream] EXCEPT !.codec = codec]) /\ UNCHANGED regGiven
SetInputs(stream, inputs) ==
  Restream(stream, [reg.streams[stream] EXCEPT !.inputs = inputs]) /\ UNCHANGED regGiven

\* infer_attr_type: of a list, its first element tells; the sign of a number
\* tells signed from unsigned.
Inferred(value) ==
  CASE value.vals = << >> -> "STR"
    [] value.kind = "INT" -> IF value.vals[1] < 0 THEN "I64" ELSE "U64"
    [] OTHER -> value.kind

\* _build_typed_attr: the type is inferred unless it is given.
Attr(key, value, base) ==
  [key |-> key, base |-> base, array |-> value.list, vals |-> value.vals]

Bases(value) == {Inferred(value)} \cup IF value.kind = "INT" THEN {"I64"} ELSE {}

\* TrlWriter.add_stream_metadata
AddStreamMetadata(stream, key, value, base) ==
  /\ Restream(stream,
       [reg.streams[stream] EXCEPT !.metadata = Append(@, Attr(key, value, base))])
  /\ regGiven' = [regGiven EXCEPT ![stream].otherwise = @ \/ key = ProfileKey]

\* TrlWriter.add_trace_metadata
AddMetadata(key, value, base) ==
  /\ Open
  /\ regMeta' = Append(regMeta, Attr(key, value, base))
  /\ UNCHANGED <<reg, regGiven, regNewer, regCells, regCur, regRead, regPhase>>

\* Mutant of WithProfile: every profile is an attribute of its own.
WithProfileApart(metadata, profile) ==
  Append(metadata, [key |-> ProfileKey, base |-> "STR", array |-> TRUE, vals |-> <<profile>>])

\* add_stream_profile: into the first list under the key, or a list of its own.
WithProfile(metadata, profile) ==
  LET lists == {k \in 1..Len(metadata) : metadata[k].key = ProfileKey /\ metadata[k].array}
  IN  IF lists = {}
      THEN Append(metadata,
             [key |-> ProfileKey, base |-> "STR", array |-> TRUE, vals |-> <<profile>>])
      ELSE [metadata EXCEPT ![Min(lists)].vals = Append(@, profile)]

AddProfile(stream, profile) ==
  /\ Restream(stream, [reg.streams[stream] EXCEPT !.metadata = WithProfile(@, profile)])
  /\ regGiven' = [regGiven EXCEPT ![stream].profiles = Append(@, profile)]

-----------------------------------------------------------------------------
(* Encoding *)

\* encode_typed_value, of one value; strings are written as their numbers.
ValueCell(base, val) ==
  CASE base = "BOOL" -> F("BOOL", val)
    [] base = "I64" -> S(val)
    [] base = "REAL" -> F("REAL", val)
    [] OTHER -> U(val)

\* encode_typed_attr, encode_typed_attr_list
TypedAttrCells(a) ==
  <<U(a.key), F("TYPE", <<a.base, a.array>>)>>
  \o (IF a.array THEN <<U(Len(a.vals))>> ELSE << >>)
  \o [k \in 1..Len(a.vals) |-> ValueCell(a.base, a.vals[k])]

AttrListCells(attrs) ==
  <<U(Len(attrs))>> \o FlattenSeq([k \in 1..Len(attrs) |-> TypedAttrCells(attrs[k])])

\* encode_uvarint refuses a negative number.
AttrRaises(a) == a.base = "U64" /\ \E k \in 1..Len(a.vals) : a.vals[k] < 0

\* needs_v2: a codec, metadata or inputs.
NeedsV2(s) == s.codec.id # 0 \/ s.metadata # << >> \/ s.inputs # << >>

\* _encode_stream_decl, _encode_stream_decl_v2
StreamCells(id, s) ==
  LET body == <<U(id), U(s.kind), U(s.codec.id), U(s.codec.version), F("PARAMS", s.codec.params)>>
              \o AttrListCells(s.metadata)
              \o <<U(Len(s.inputs))>> \o [k \in 1..Len(s.inputs) |-> U(s.inputs[k])]
              \o IF regNewer THEN <<F("NEW", 0)>> ELSE << >>
  IN  IF NeedsV2(s) THEN <<F("TAG", "STREAM2"), U(Len(body))>> \o body
      ELSE <<F("TAG", "STREAM"), U(id), U(s.kind)>>

\* _encode_signal_type, _encode_txn_schema, _encode_enum_type
SignalCells(id, e) == <<F("TAG", "SIGNAL"), U(id), U(e.width)>>
SchemaCells(id, e) ==
  <<F("TAG", "SCHEMA"), U(id), U(Len(e))>> \o [k \in 1..Len(e) |-> F("BYTE", e[k])]
EnumCells(id, e) == <<F("TAG", "ENUM"), U(id), U(Len(e))>> \o [k \in 1..Len(e) |-> S(e[k])]

\* An entry of a kind that only a newer writer knows.
ForeignCells == <<F("TAG", "UNKNOWN"), U(2), F("NEW", 0), F("NEW", 0)>>

\* The entries kind after kind.
Entries ==
  (IF regNewer THEN <<ForeignCells>> ELSE << >>)
  \o [k \in 1..Len(reg.sigs) |-> SignalCells(k, reg.sigs[k])]
  \o [k \in 1..Len(reg.schemas) |-> SchemaCells(k, reg.schemas[k])]
  \o [k \in 1..Len(reg.enums) |-> EnumCells(k, reg.enums[k])]
  \o [k \in 1..Len(reg.streams) |-> StreamCells(k, reg.streams[k])]

\* _encode_payload: how many entries, and the entries.
RegistryCells == <<U(Len(Entries))>> \o FlattenSeq(Entries)

\* TypeRegistry.encode_block, MetaBlock.encode_block
WriteRegistry ==
  /\ regPhase = "open"
  /\ IF \/ \E k \in 1..Len(regMeta) : AttrRaises(regMeta[k])
        \/ \E s \in 1..Len(reg.streams) : \E k \in 1..Len(reg.streams[s].metadata) :
             AttrRaises(reg.streams[s].metadata[k])
     THEN regPhase' = "raised" /\ UNCHANGED <<regCells, regCur>>
     ELSE /\ regPhase' = "written"
          /\ regCells' = [registry |-> RegistryCells,
                          meta |-> IF regMeta = << >> THEN << >> ELSE AttrListCells(regMeta)]
          /\ regCur' = 1
  /\ UNCHANGED <<reg, regMeta, regGiven, regNewer, regRead>>

-----------------------------------------------------------------------------
(* Decoding *)

\* Parsing goes on from a cell with what it has got so far.
Parsed(at, got, ok) == [at |-> at, got |-> got, ok |-> ok]

ValueFormat(base) == CASE base \in {"BOOL", "REAL"} -> base [] base = "I64" -> "s" [] OTHER -> "u"

\* decode_typed_attr
ParseAttr(cells, st) ==
  LET head == st.at + 2
      type == cells[head].val
      count == IF type[2] THEN cells[head + 1].val ELSE 1
      vals == IF type[2] THEN head + 1 ELSE head
      Val(k) == IF type[1] = "I64" THEN Unzigzag(cells[vals + k].val) ELSE cells[vals + k].val
  IN  IF /\ st.ok
         /\ Holds(cells, st.at, <<"u", "TYPE">>)
         /\ type[2] => Holds(cells, head, <<"u">>)
         /\ Holds(cells, vals, [k \in 1..count |-> ValueFormat(type[1])])
      THEN Parsed(vals + count,
                  Append(st.got, [key |-> cells[st.at + 1].val, base |-> type[1], array |-> type[2],
                                  vals |-> [k \in 1..count |-> Val(k)]]), TRUE)
      ELSE [st EXCEPT !.ok = FALSE]

\* decode_typed_attr_list, at cell c.
ParseAttrs(cells, c) ==
  IF Holds(cells, c, <<"u">>)
  THEN FoldLeft(LAMBDA st, k : ParseAttr(cells, st), Parsed(c + 1, << >>, TRUE),
                [k \in 1..cells[c + 1].val |-> k])
  ELSE Parsed(c, << >>, FALSE)

\* A counted list of cells of one format, at cell c.
ParseList(cells, c, fmt) ==
  LET count == cells[c + 1].val
      Val(n) == IF fmt = "s" THEN Unzigzag(n) ELSE n
  IN  IF Holds(cells, c, <<"u">>) /\ Holds(cells, c + 1, [k \in 1..count |-> fmt])
      THEN Parsed(c + 1 + count, [k \in 1..count |-> Val(cells[c + 1 + k].val)], TRUE)
      ELSE Parsed(c, << >>, FALSE)

NoCodec == [id |-> 0, version |-> 0, params |-> << >>]

Put(list, id, entry) == [k \in DOMAIN list \cup {id} |-> IF k = id THEN entry ELSE list[k]]

\* An entry of a kind was read; the next is at a cell.
Entered(kind, id, st) ==
  IF st.ok
  THEN /\ regRead' = [regRead EXCEPT !.reg[kind] = Put(@, id, st.got)]
       /\ regCur' = st.at
       /\ UNCHANGED regPhase
  ELSE regPhase' = "astray" /\ UNCHANGED <<regRead, regCur>>

\* Mutant of ParseStream: the entry ends where what is known of it ends.
ParseStreamKnown(cells, c) ==
  LET attrs == ParseAttrs(cells, c + 6)
      inputs == ParseList(cells, attrs.at, "u")
      v(k) == cells[c + 1 + k].val
  IN  Parsed(inputs.at, [kind |-> v(2), codec |-> [id |-> v(3), version |-> v(4), params |-> v(5)],
                         metadata |-> attrs.got, inputs |-> inputs.got], inputs.ok)

\* _decode_stream_decl_v2: the length tells where the entry ends.
ParseStream(cells, c) ==
  LET attrs == ParseAttrs(cells, c + 6)
      inputs == ParseList(cells, attrs.at, "u")
      v(k) == cells[c + 1 + k].val
  IN  IF Holds(cells, c, <<"u", "u", "u", "u", "u", "PARAMS">>) /\ attrs.ok /\ inputs.ok
      THEN Parsed(c + 1 + cells[c + 1].val,
                  [kind |-> v(2), codec |-> [id |-> v(3), version |-> v(4), params |-> v(5)],
                   metadata |-> attrs.got, inputs |-> inputs.got], TRUE)
      ELSE Parsed(c, << >>, FALSE)

\* One turn of _decode_payload.
ReadEntry ==
  /\ regPhase = "written"
  /\ regCur < Len(regCells.registry)
  /\ LET cells == regCells.registry
         c == regCur + 1
         tag == cells[c].val
         id == cells[c + 1].val
     IN  \/ cells[c].fmt # "TAG" /\ Entered("streams", 0, Parsed(c, << >>, FALSE))
         \/ /\ cells[c].fmt = "TAG"
            /\ \/ tag = "SIGNAL" /\ Entered("sigs", id, Parsed(c + 2, [width |-> cells[c + 2].val], TRUE))
               \/ tag = "SCHEMA" /\ Entered("schemas", id, ParseList(cells, c + 1, "BYTE"))
               \/ tag = "ENUM" /\ Entered("enums", id, ParseList(cells, c + 1, "s"))
               \/ tag = "STREAM" /\ Entered("streams", id,
                    Parsed(c + 2, [kind |-> cells[c + 2].val, codec |-> NoCodec,
                                   metadata |-> << >>, inputs |-> << >>], TRUE))
               \/ tag = "STREAM2" /\ Entered("streams", cells[c + 2].val, ParseStream(cells, c))
               \/ /\ tag = "UNKNOWN"
                  /\ regCur' = c + 1 + id
                  /\ UNCHANGED <<regRead, regPhase>>
  /\ UNCHANGED <<reg, regMeta, regGiven, regNewer, regCells>>

\* MetaBlock.read_block
ReadMeta ==
  /\ regPhase = "written"
  /\ regCur = Len(regCells.registry)
  /\ LET st == ParseAttrs(regCells.meta, 0)
     IN  IF regCells.meta = << >> \/ st.ok
         THEN /\ regPhase' = "read"
              /\ regRead' = [regRead EXCEPT !.meta = IF regCells.meta = << >> THEN << >> ELSE st.got]
         ELSE regPhase' = "astray" /\ UNCHANGED regRead
  /\ UNCHANGED <<reg, regMeta, regGiven, regNewer, regCells, regCur>>

-----------------------------------------------------------------------------
(* Queries *)

\* stream_metadata, trace_metadata: of a key given twice, the last value.
ToDict(attrs) ==
  [key \in {attrs[k].key : k \in 1..Len(attrs)} |->
     attrs[Max({k \in 1..Len(attrs) : attrs[k].key = key})]]

\* profiles: a single value counts as a list of one.
ProfilesOf(stream) ==
  LET dict == ToDict(regRead.reg.streams[stream].metadata)
  IN  IF ProfileKey \in DOMAIN dict THEN dict[ProfileKey].vals ELSE << >>

-----------------------------------------------------------------------------
RegNext ==
  \/ AddSignal
  \/ AddSchema(<<"U8", "U64">>)
  \/ \E values \in EnumValues : AddEnum(values)
  \/ \E codec \in StreamCodecs : AddStreamDecl(codec)
  \/ \E stream \in 1..Len(reg.streams) :
       \/ \E codec \in StreamCodecs : SetCodec(stream, codec)
       \/ SetInputs(stream, <<1, 2>>)
       \/ \E profile \in Profiles : AddProfile(stream, profile)
       \/ \E key \in MetaKeys, value \in MetaValues : \E base \in Bases(value) :
            AddStreamMetadata(stream, key, value, base)
  \/ \E key \in MetaKeys, value \in MetaValues : \E base \in Bases(value) :
       AddMetadata(key, value, base)
  \/ WriteRegistry \/ ReadEntry \/ ReadMeta

RegSpec == RegInit /\ [][RegNext]_regVars

-----------------------------------------------------------------------------
(* Properties *)

\* A signed attribute and a number of an enumeration fit a word.
AttrFits(a) == a.base = "I64" => \A k \in 1..Len(a.vals) : Signed(a.vals[k])

RegistryFits ==
  /\ \A k \in 1..Len(reg.enums) : \A i \in 1..Len(reg.enums[k]) : Signed(reg.enums[k][i])
  /\ \A k \in 1..Len(regMeta) : AttrFits(regMeta[k])
  /\ \A s \in 1..Len(reg.streams) : \A k \in 1..Len(reg.streams[s].metadata) :
       AttrFits(reg.streams[s].metadata[k])

\* A stream as it is read: without codec, metadata and inputs, version and
\* parameters of the codec are not kept.
Kept(s) == IF NeedsV2(s) THEN s ELSE [s EXCEPT !.codec = NoCodec]

\* Every entry reads back, in either form of a stream's, with the entries after
\* it, and from a newer writer's file too.
RegistryReadsBack ==
  RegistryFits =>
    /\ regPhase # "astray"
    /\ regPhase = "read" =>
         regRead = [reg |-> [reg EXCEPT !.streams = [s \in 1..Len(@) |-> Kept(@[s])]],
                    meta |-> regMeta]

\* A reader lists the profiles added to a stream, in order, whatever other
\* metadata it was given; unless metadata was given under the profiles' key.
ProfilesListed ==
  regPhase = "read" /\ RegistryFits =>
    \A s \in 1..Len(reg.streams) :
      ~regGiven[s].otherwise => ProfilesOf(s) = regGiven[s].profiles

-----------------------------------------------------------------------------
(* The inductive invariant *)

Attribute ==
  {a \in [key : Nat, base : {"BOOL", "I64", "U64", "REAL", "STR"}, array : BOOLEAN, vals : Seq(Int)] :
     ~a.array => Len(a.vals) = 1}

Stream ==
  [kind : {1}, codec : StreamCodecs \cup {NoCodec}, metadata : Seq(Attribute), inputs : Seq(Nat)]

\* The types of a schema's fields.
FieldTypes == {"U8", "U64"}

RegTypeOK ==
  /\ reg \in [sigs : Seq([width : {2}]), schemas : Seq(Seq(FieldTypes)), enums : Seq(Seq(Int)),
              streams : Seq(Stream)]
  /\ regMeta \in Seq(Attribute)
  /\ regGiven \in Seq([profiles : Seq(Nat), otherwise : BOOLEAN])
  /\ Len(regGiven) = Len(reg.streams)
  /\ regNewer \in BOOLEAN
  /\ regPhase \in {"open", "raised", "written", "read", "astray"}

\* Until metadata is given under the profiles' key in another way, the profiles
\* added to a stream are in the one attribute of that key.
ProfilesTogether ==
  \A s \in 1..Len(reg.streams) :
    LET metadata == reg.streams[s].metadata
        profiles == regGiven[s].profiles
        lists == {k \in 1..Len(metadata) : metadata[k].key = ProfileKey}
    IN  ~regGiven[s].otherwise =>
          IF profiles = << >> THEN lists = {}
          ELSE \E k \in 1..Len(metadata) :
                 lists = {k} /\ metadata[k].array /\ metadata[k].vals = profiles

\* The first n of a list, from which some were left out before.
Begun(list, n) == SubSeq(list, 1, IF n <= 0 THEN 0 ELSE IF n <= Len(list) THEN n ELSE Len(list))

\* The number of entries before those of a kind.
SigsFrom == IF regNewer THEN 1 ELSE 0
SchemasFrom == SigsFrom + Len(reg.sigs)
EnumsFrom == SchemasFrom + Len(reg.schemas)
StreamsFrom == EnumsFrom + Len(reg.enums)

\* What was read when n entries were.
ReadUpTo(n) ==
  [sigs |-> Begun(reg.sigs, n - SigsFrom), schemas |-> Begun(reg.schemas, n - SchemasFrom),
   enums |-> Begun(reg.enums, n - EnumsFrom),
   streams |-> Begun([s \in 1..Len(reg.streams) |-> Kept(reg.streams[s])], n - StreamsFrom)]

\* The reader stands between two entries, and has read those before.
EntriesInStep ==
  regPhase = "written" =>
    \E n \in 0..Len(Entries) :
      /\ regCur \in 0..Len(regCells.registry)
      /\ SubSeq(regCells.registry, regCur + 1, Len(regCells.registry))
           = FlattenSeq(SubSeq(Entries, n + 1, Len(Entries)))
      /\ regRead = [reg |-> ReadUpTo(n), meta |-> << >>]

RegInv ==
  /\ RegTypeOK
  /\ ProfilesTogether
  /\ regPhase \in {"open", "raised"} => regRead = [reg |-> NoEntries, meta |-> << >>]
  /\ regPhase = "written" =>
       regCells = [registry |-> RegistryCells,
                   meta |-> IF regMeta = << >> THEN << >> ELSE AttrListCells(regMeta)]
  /\ RegistryFits => EntriesInStep /\ RegistryReadsBack
=============================================================================
