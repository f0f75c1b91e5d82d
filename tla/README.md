# TRLOG: a formal model

TRLOG is a binary trace format for simulators: value changes of signals and transactions of
streams, in one file with a string table, a type registry, hierarchies and an index. The
repository holds a Python writer and reader (`src/python/src/trlog`), a C library
(`src/c`), and a VPI plug-in that records a simulation (`src/vpi`). This directory holds
TLA+ models of them, TLC configurations and TLAPS proofs.

## The system

| Component | State | Operations | What makes it correct |
|---|---|---|---|
| Writer, `_writer.py` | file, string table, type registry, metadata, variable types and scopes, index, ordinals of keyed blocks, one shared state per codec | declare types, schemas, streams, hierarchies, metadata; begin, fill and flush blocks; keyed and extension blocks; derived signals; close | each context's data is in the file once; index ranges enclose what they index; ids resolve; the header leads to a complete index |
| Reader, `_reader.py` | what the index or a scan of the file yields | open, read windows of a signal, a stream's transactions, keyed blocks, metadata | the index gives what a scan gives; values decode with the type they were encoded with |
| String table, registry, index (`_string_table.py`, `_type_registry.py`, `_index.py`) | ids, definitions, entries | intern, add, encode, decode, find | ids are stable and injective |
| Block encoders (`_vc_data.py`, `_txn_data.py`, `_bytesplit.py`, `_codec.py`) | changes or records of one block | add, encode, decode | decoding gives what was added |
| Registry and metadata blocks (`_type_registry.py`, `_metadata.py`) | entries of each kind, attributes of the trace and of streams | add, encode, decode, query | every entry reads back, also past what a newer writer added |
| Hierarchy (`_hierarchy.py`) | tree under construction, scope stack | begin/end scope, add variable, stream, attribute, encode, decode | tree and attributes survive the tag sequence |
| Dependencies, derived signals (`_deps.py`, `_derived.py`) | graph, memo of computed signals, bytecode | find a cycle, order, materialize, compile, evaluate | a cycle is refused, inputs come first, each signal is computed once |
| Call/return codec (`ext/callreturn.py`) | windows of recent calls and predictors on both sides | enter, exit, close, decode, depths, tree | both sides move in lockstep; the tree nests like the calls |
| Codec registry, bridge, native binding (`codec.py`, `_codec_bridge.py`, `_native.py`, `codec_registry.c`) | registered codecs | look up, forward calls | calls reach the codec a block names |
| C library (`src/c/src`) | as the Python writer | as the Python writer | same bytes as the Python writer |
| VPI plug-in (`src/vpi/src`) | marked signals, pending changes, dump state | simulator callbacks, `$dump...` tasks | a signal's last value in a time step is written, in time order, while dumping is on |

The components run in one thread. What is hard is the order of calls that no test tries
(several block contexts open at once, declarations between blocks, flushes in the middle),
state copied at one call and used at another (types and schemas at the beginning of a block,
offsets taken before a write), a writer's and a reader's running state that must move
alike (differences of ids and times, windows, cursors, the node an attribute goes to), two ways to read the same file (index and scan), and the end
of the writing program at any point. In the plug-in the simulator's callbacks interleave with
the system tasks. `PROJECT.json` lists the hazards with their lines.

## Modules

| Module | Models | Is used by |
|---|---|---|
| `TrlWriter` | the Python writer with its string table, type registry, index, codec states and block contexts | `TrlTrace`, `TrlTraceProofs` |
| `TrlReader` | opening a file by its index or by a scan, and the reads; operators over a file image, no state | `TrlTrace` |
| `TraceStore` | abstract: contexts, a log of what they held, what survives the end of the program | `TrlTrace` |
| `TrlTrace` | writer, end of the writing program at any point, reader on what is left; refinement of `TraceStore` | `MCTrace` |
| `TrlLemmas` | lemmas about sequences, places in ascending order and updated records, for the proofs | `Trl...Proofs` |
| `TrlFolds` | a fold over a sequence, element by element | `TrlPayloadProofs`, `TrlHierarchyProofs` |
| `TrlTraceProofs` | proofs about `TrlWriter` and `TrlTrace`: the writer's invariant, index, windows, keyed blocks, streams, and that it implements `TraceStore` | `TrlMetadataProofs` |
| `TrlMetadataProofs` | proofs about `TrlTrace`: strings, both ways to open, types | |
| `DependencyCatalog` | abstract: a declaration is accepted exactly when the catalog stays without a cycle | `TrlDeps` |
| `TrlDeps` | `_deps.py`, with the writer's catalog and the reader's uses of it; refinement of `DependencyCatalog` | `MCDeps`, `TrlDepsProofs` |
| `TrlDepsProofs` | proofs about `TrlDeps` | |
| `TrlVpi` | callbacks and system tasks of the VPI plug-in | `MCVpi`, `TrlVpiProofs` |
| `TrlVpiProofs` | proofs about `TrlVpi` | |
| `TrlCodecs` | numbers of the byte codecs: formats, widths, zig-zag; operators, no state | `TrlTxnData`, `TrlCallReturn`, `TrlRegistry` |
| `TrlTxnData` | a block of transaction records in the row and the column layout, encoded and decoded record by record | `MCPayloads`, `TrlPayloadProofs` |
| `TrlVcData` | a block of value changes as waves (`_vc_data.py`) or as byte planes (`_bytesplit.py`) | `MCPayloads` |
| `TrlCallReturn` | calls and returns, writer's and reader's windows and predictors, depths and tree | `MCPayloads`, `TrlPayloadProofs` |
| `TrlPayloadProofs` | proofs about `TrlCallReturn` and `TrlTxnData` | |
| `TrlHierarchy` | building a hierarchy, its tag sequence, reading it | `MCPayloads`, `TrlHierarchyProofs` |
| `TrlHierarchyProofs` | proofs about `TrlHierarchy` and `TrlRegistry` | |
| `TrlDerived` | expressions, their bytecode, evaluation over changing inputs | `MCPayloads` |
| `TrlRegistry` | the blocks of the registry and of metadata, and what a reader answers about them | `MCPayloads`, `TrlHierarchyProofs` |
| `MCTrace`, `MCDeps`, `MCVpi`, `MCPayloads` | instances for TLC | the configurations |

Definitions under a comment "Mutant of ..." are wrong variants of a definition that follows
them. No specification uses them; putting one in place of the definition shows that a
property would notice the mistake (`PROJECT.json` pairs them with properties and runs).

### Writer: `TrlWriter`

The file is the sequence of blocks written, and a block's offset is its place in it, so offset 0
is "absent" as in the code. A record is known by variable or stream, time, the type of the value
and its place in the calls; values and bytes are left out. What the code keeps in `_strtab`,
`_typereg`, `_meta`, `_hier_offsets`, `_var_types`, `_var_scope`, `_index`, `_aux_ordinals`,
`_next_derived_id`, `_vc_state.blk` and `_txn_state.blk` are variables of nearly the same names;
the header's patched field is `hdr`; context objects of the client are `hiers` and `blks`.
Each public call of the writer and of its contexts is an action: it interns, appends, indexes and
fails where the code does. Three things follow the code rather than what one expects of it: a
context of the default codec records into its own block but its flush encodes the block that the
shared codec state holds, that of the context begun last; the
types a block encodes with are copied when it is begun; and the flush of a data context, which unlike that of a
hierarchy has no guard, may be called inside the with-statement, after which the context goes on and is
flushed again with what it held before (`AfterFlush`). `EncodeFails` is what an encoder
refuses: a flush then raises, of transactions with nothing written (`FlushTxn`), of a block divided by scope
after the scopes before (`FlushVc`). For transactions it is a span that goes backwards, and `TrlTxnData` has
the layouts in which such a span is no error. `RefuseDerived` is a derived signal whose inputs would close a cycle: its id is used up.

`Close` writes string table, registry, metadata and index, `PatchHeader` the header field,
`Release` ends the writer: three steps, as the program can end between them.

### File, crash and reader: `TrlTrace`, `TrlReader`

`End` is the end of the writing program at any point. A Python file object writes its buffer in
order, so a prefix of the blocks is on disk; the seek before the header patch flushes the buffer,
and the patch itself is on disk or not. The image left is what `TrlReader`'s operators read:
`FastOpen` (by the index) or the scan, `ReadStrings`, `ReadSigs`, `ReadHiers`, `ReadMeta`,
`SigType`, `ReadWindow`, `ReadTxns`, `ReadAux`, and `OpenFails` and `WindowFails` for reads that
raise. What a scan yields is given by the places of the blocks of one type (`PlacesOf`), taken from the
first to the last (`Ascending`). Properties compare what is read with what was given to the writer, or one way of reading
with the other.

`TraceStore` states the promise: a flush puts exactly what the context's own caller recorded so far
into the log, once per flush (a context flushed twice is logged twice); a flush that raises logs a part of it at most; the end leaves a prefix of the
log. `ImplementsStore` is the refinement, with `Holds` (records, and initial values of variables
with none) and `Logged` (the blocks of data on file) as the mapping.

The last section of `TrlTrace` names the parts of its inductive invariants: `TraceInv` for every
trace, and `SoleOpen`, `ContextsOfStreams`, `EntriesOfStreams`, `MetadataOnce`, `IdsInterned` and `TypesInv`
for traces under the restrictions that the findings below make necessary.

### Dependencies: `TrlDeps`

The code recurses; the model unfolds the recursion into `frames`, the stack of calls with the input
each comes to next. A call of `declare_dependencies`, `close`, `topo_order` or `materialize` is begun by the
client (`Client`), goes through `Search` (`find_cycle`), `Visit` (the decode order) or `Load`
(`materialize`), and ends in one of `End`. Roots are taken in the order of their ids, as the
code sorts them. A client's `compute` raises or not (`ComputeFails`). The reader works on the
catalog, or on graphs the client puts together itself (`HandBuilt`), which may have cycles.
The materializer persists over reads (`NewMaterializer` makes another).

### VPI plug-in: `TrlVpi`

The simulator changes signals (`Assign`, with `trlog_vc_callback`), comes to the synchronisation
point that was asked for (`Synch`, `trlog_delta_callback`), may change signals again in the same
time step, goes on in time (`Tick`) when nothing is asked for, and ends. `$trlog_...` tasks run
anywhere between. `grouped` is `+trlog_scope_grouped`: changes wait in `pending` and go to
one block per scope; otherwise they go to the writer's block at work. A change carries the number of the
callback that wrote it, 0 for a snapshot (`by`); this and `failed` only record history for the properties. A new `$trlog_dumpfile` replaces the writer, and the model
follows the new file. `Blocks` is everything recorded so far and `AtWork` the part of it not yet written.

### Payloads: what is in a block

`TrlWriter` knows a record by what it is about and leaves its bytes out; six modules model what
the bytes do. In each the client builds something (`Record...`, `Enter` and `Exit`, `Change` and
`Initial`, `BeginScope`, `AddVar`, `Attach`, `AddNode`, `Add...`), the writer encodes it, the
reader decodes it, and the properties compare. Where encoder and decoder keep a state that runs along,
each record, event or tag is a step of its own, so that the two states are there to be compared
at each of them. A payload is a sequence of numbers that carry the format they were written in
(`TrlCodecs`); to read one in another format ends in the phase "astray", which is what the
properties rule out. Widths keep their effect: `Half` stands for 2^63.

* `TrlTxnData`: `BeginTxnBlock` copies the schemas known then, `DeclareSchema` may add some
  later, and the reader uses all of them. `FlushTxnBlock` chooses the layout; `EncodeRecord` refuses
  what the code refuses and moves the running id and time (`txnMarks`); `DecodeRow` and `DecodeColumns` move
  theirs along the records read (`ReadId`, `ReadTime`). The adaptive layout tries both and the
  size decides, which the model leaves open.
* `TrlVcData`: `Change` and `Initial` are those of the block; `WriteWaves` builds the time table and the
  waves (`Steps`, `Runs`) or the planes, or raises; `ReadWaves` undoes it. A value is the set of
  its one bits, with X and Z as further members.
* `TrlCallReturn`: `Encode` gives an event's cells and the writer's next state, with `EncodeHit`, `EncodeCall` and
  `EncodeReturn` as its cases; `DecodeHit`,
  `DecodeCall` and `DecodeReturn` the reader's; `Depths` and `CallTree` are folds over
  what was read.
* `TrlHierarchy`: `hierLast` and `hierStack` are `_last_node` and `_scope_stack`. The tags do not name the node of an
  attribute; `LastNode` is how the reader finds it. The tree is the list of its nodes in the order they were declared, each
  with its scope; `Kids` are the children of one, and `NodeTags` is `_encode_node` as a recursive function of the node.
* `TrlDerived`: `Compile` emits in post-order, `Evaluate` is the stack machine, `EvaluateChanges`
  moves the cursors over the inputs. Numbers are sets of bits, in which a
  negative one holds all bits from `TopBit` on.
* `TrlRegistry`: adds and changes entries (`Restream` is what the setters of a stream share), writes both
  blocks, parses entry by entry (`ReadEntry`), with entries and fields of a newer writer in between,
  and answers `ProfilesOf`.

## What is checked

Runs that pass:

| Run | Bounds | States | Properties and what they show |
|---|---|---|---|
| `changes` | 1 variable, times 0..2, 2 blocks, 2 records, both codecs, an early flush of the first block | 0.80M | `WindowComplete`: a window read gives what a scan gives; `VcIndexCovers`: index ranges enclose the changes, flush by flush; `HeaderSound`: a header that survives leads to a complete index; `ImplementsStore` |
| `signals` | 2 types, 2 variables, 1 scope and scope-grouped flushes, 1 derived signal, a block of 2 records | 0.78M | `TypeOK`; `TypesAgree`: encoder and reader use the type of the value passed; `StringsResolve`; `ImplementsStore` with a flush that splits |
| `txns` | 2 streams, 2 blocks of 2 records, times 0..1, 1 transaction id, a flush of the string table | 2.25M | `StreamComplete`: a stream's read misses nothing; `TxnIndexCovers`; `ImplementsStore` |
| `catalog` | 2 hierarchies of 1 variable, 2 names, 1 type, schema and metadata entry, 2 keyed blocks, 1 derived definition, which may share a key with them, an unindexed block | 6.94M | `StringsResolve`; `PathsAgree`: a closed file opens to the same catalog by index and by scan; `AuxReadsBack`: a key's blocks come back in order, whoever wrote them; `HeaderPoints` |
| `deps` | 3 streams, all lists of at most two different inputs, three hand-built graphs with cycles | 29k | `KeepsPromise` (refinement), `CycleIsOne`, `CatalogAcyclic`, `OrderTopological`, `InputsFirst`, `NothingInProgress`, `NoFalseCycle`, `CallsEnd` |
| `vpi` | 2 signals in 2 scopes, 2 time steps, 3 synchronisation points, 2 tasks, flush after 3 changes | 1.52M | `TimesInOrder`: no entry before its block's start, per signal in time order; `RepeatedBySynch`: only two callbacks of one time step write a signal twice at one time into a block; `LastRecorded`: an unmarked signal's last record is its value; `MarkedIsScheduled`; `BufferBounded`; `Kept`; `NothingWhilePaused` |
| `payloads` | see below | 3.8M | `RowReadsBack`, `ColumnReadsBack`: records come back as given, record by record, as far as the format can hold them; `WavesReadBack`, `PlanesReadBack`; `CallsInStep`: the reader's time, predictors and window are those the writer had at that event; `TreeNests`: depths and tree nest like the calls; `TreeReadsBack`: names, scopes and attributes of a hierarchy; `DerivedAgrees`: the stored code gives at each change of an input what the expression means there; `RegistryReadsBack`; `ProfilesListed`: a reader lists a stream's profiles in the order they were added |

All crash points are in the four trace runs, since `End` is always enabled. The runs split the
writer's operations by what interacts: two blocks are enough for index ranges to overlap or touch and for
one block to be taken for the other; two variables for a scope-grouped flush to fail on the second; two streams
for one to hide the other; two hierarchies for their order and their ids to matter; times 0..2
for a window strictly inside, touching and outside a block. A flush inside the with-statement (`MaxEarly`) is
in `changes` alone, where a block may then be on file twice; for transactions `StoreImplemented` covers it, with any `MaxEarly`. Cycles of one, two and
three streams and an input shared by two streams exist on three streams. The third synchronisation point of
`vpi` leaves one for a second time in a step and one after it; two tasks pause and resume, or flush and
open a file, at any place. `vpi` uses symmetry of the values, which are only compared, and has safety properties only.

`payloads` checks the six encodings in one run. They share no state, so each behaviour moves
one of them (`part`) and the states add up instead of multiplying. Its bounds:

| Encoding | Bounds | Why they are enough |
|---|---|---|
| transactions | 3 records of any kind, ids 1 and 3, a span forwards and one backwards, rows, and columns as the automatic (from 2 records) or the adaptive layout chooses them, `Half` = 4, schemas declared before or during the block | differences of both signs, one that does not fit a word, a kind of record between two others; a schema the encoder does not know |
| value changes | 3 changes or initial values of 3 variables, 4 times around the block's start, bytes of 2 bits | runs of two and their end, two waves that are equal under different types, a second byte partly used, times before the start |
| calls | 4 calls and returns, 2 functions, a window of 2 | a reference to either place of a full window and to one pushed out, predictors of two functions, returns with no call |
| hierarchy | 4 nodes, 2 attributes | an attribute of the scope around after leaving one with children |
| derived | 3 nodes, 2 inputs with 3 changes at 2 times, width 2 or none | operands in both orders, several changes at one time, an input that starts late |
| registry | 4 calls over 2 keys, 2 profiles, 3 codecs, entries of a newer writer | an entry replaced, both forms of a stream's entry, other metadata between two profiles |

Runs in which TLC finds a violation of what the repository says:

| Run | Property | What happens |
|---|---|---|
| `interleaved` | `NothingLost` | With two default-codec contexts open, a flush encodes the block begun last: the first flush writes the second context's data and the first context's is lost. (`codec.py:289`) |
| `midflush` | `StringsResolve` | `flush_string_table` writes the whole table each time; a scan appends each table it meets, so later ids are shifted. (`_writer.py:554`) |
| `resynch` | `OncePerBlock` | A signal that changes again after the callback of its time step is written by the next one at the same time into the same block, which the encoder (`vc_data.c:309`) turns into a negative difference. (`trlog_vpi_value.c:8`) |
| `hierarchies` | `TypesAgree` | Variable ids restart in each hierarchy while the maps of types are keyed by the id alone. (`test_multi_hierarchy_roundtrip.py:30`) |
| `sparse` | `AttrsReadBack` | In the column layout an attribute's value is written alone, so the record without the attribute is read with the value of the one that has it. (`_txn_data.py:689`, against "lossless" at `codec.py:394`) |

What the passing runs assume on account of these: one context of a shared codec open at a time
(`MaxOpen = 1`), no string-table flush in mid-trace where
strings are compared, one hierarchy where types
are compared, and in `ColumnReadsBack` a column that every record of its type fills (`Dense`). Nothing is assumed in `vpi`:
`RepeatedBySynch` is what remains true of `OncePerBlock`, and says that a snapshot taken while a
callback is due, after a pause, does not do the same.
They keep clear of three more. Once one index entry
names a stream, blocks of no single stream are skipped by a stream's read (`_reader.py:133`), so `txns` has single-stream blocks only.
A windowed `read_signal` takes every block for one of the default codec and raises on a block of the other
(`_reader.py:212`), so `WindowComplete` excuses reads that raise. A begin does not move its block's end time
(`_txn_data.py:77`), so `TxnIndexCovers` speaks of completed transactions and ends.

Met while modelling, without a run of their own: `add_enum_type` raises for every enumeration
with values (`_writer.py:541`); a list of numbers that begins without a sign and goes on with one is accepted and
makes `close` raise, after the writer counts as closed (`_metadata.py:122`), and a list of mixed kinds takes
the first one's; `find_streams` promises the streams of all hierarchies and loses all but
one's where ids coincide (`_reader.py:262`); values of an expression are promised unsigned, but a
complement inside it is not (`_derived.py`); a codec's version and parameters are not stored for a
stream without codec, metadata and inputs; a materialized derived signal of more than one bit is decoded as one bit (`_writer.py:494`);
a four-state vector with one unknown bit is read as unknown in all, and an initial Z as X, by a codec that
`codec.py:282` registers as lossless (`WavesReadBack` expects the value as the encoder takes it, `_vc_data.py:717`); a signed number from 2^63 on wraps.
`TrlRegistry`, `TrlVcData`, `TrlDerived` and `TrlCodecs` do what the code does there, and the
properties are stated for the rest (`RegistryFits`, `Representable`, `CallsRepresentable`).

`CHECK_DEADLOCK FALSE` stands in the trace, VPI and payload configurations because a trace, a simulation and
an encoding really end. `deps` has no such line: the client can always call again.

`SetupFirst` makes the client declare before it records, which keeps the runs small;
`TypesAgree` depends on it, because a variable declared while a block is open is encoded with the
default type (a hazard listed at `codec.py:296`).

### Fairness

Only `TrlDeps` needs it. `FairSpec` is weak fairness of the steps inside a call (`Search`,
`Visit`, `Load`, `End`): the one thread that made the call carries it on. The client is under no
obligation. `CallsEnd` then says that each recursion ends, on graphs with cycles too.

## What is proved

TLAPS checks these for every value of the constants that satisfies the assumption of the module
(`WriterAssumption`, `DepsAssumption`, `VpiAssumption`, `CallAssumption`, `CodecsAssumption`, `RegistryAssumption`: types and
orders of the constants, nothing about how many there are of anything); TLC evaluates them in the runs. Where
a theorem needs more, its own ASSUME says so.

`TrlTraceProofs`, the writer. The inductive invariant is

    WriterInv == TypeOK /\ ContextsSpan /\ VcIndexCovers /\ TxnIndexCovers /\ IndexLast /\ HeaderPoints

`VcIndexCovers` is not inductive alone: the entry a flush makes takes its range from the times
kept by the block in the shared codec state, so every block under construction must already
enclose its records (`ContextsSpan`). `HeaderPoints` needs that the last block is the index
once the close has begun (`IndexLast`). The proof has a lemma for each operation, with one step per conjunct it
disturbs, and `Inductive` collects them. From it:
`TypeCorrect`, `VcIndexSound`, `TxnIndexSound`, `HeaderSoundly`, and the action properties
`AppendOnly` (no block on file is ever changed) and `IdsForEver` (a string id keeps its meaning).
The proofs hold with any number of interleaved contexts: the index is sound even where
data is lost to another context.

`TrlTraceProofs`, the file. The inductive invariant of writer, crash and disk is

    TraceInv == WriterInv /\ DiskInv /\ EntriesListed /\ KeysNumbered /\ TailWritten

What is on disk is a prefix of the blocks, and all of them once the header is patched (`DiskInv`); the
entries gathered so far are those of the blocks written so far, each once and in file order
(`EntriesListed`), which holds although an entry is added before its block is written, since the two are in
one call; a key's blocks are numbered in the order of its entries (`KeysNumbered`); what a close has written is
where its index says (`TailWritten`). From it, with no restriction: `IndexComplete` (`HeaderSound`),
`WindowsComplete` (`WindowComplete`: a block that overlaps the window has an entry that does, as `VcIndexCovers`
says) and `KeyedBlocksReadBack` (`AuxReadsBack`: the index lists a key's entries in the order of a scan,
because the enumeration of places in ascending order is unique, `AscendingUnique` of `TrlLemmas`).

`StreamsReadBack` proves `StreamComplete` from two hypotheses, both necessary. `MaxOpen <= 1`: a flush with two
contexts open writes the other's block under this one's stream (`interleaved`); then the codec's shared state
holds the one block open (`SoleOpen`), so a block indexed under a stream holds that stream's records
(`ContextsOfStreams`, `EntriesOfStreams`). And contexts are either all of one stream or all mixed, since the
reader drops mixed blocks once an entry names a stream (`_reader.py:133`).

Its last section proves `StoreImplemented` (`ImplementsStore`): every step of writer, crash and disk is a step of
`TraceStore` or leaves it alone. It assumes `MaxOpen <= 1`, as the counterexample of `interleaved` is one to the
refinement too; the invariant is that of `StreamsReadBack`, of which `SoleOpen` makes a flush encode the context
it was called on. The log is the file's data blocks in their order, so a file that grows has a log that grows, by the
data blocks added (`LogExtends`), and a prefix of the file has a prefix of the log (`LogPrefix`), which is the case
of the end of the run. The parts a flush encodes hold all that its context holds, are disjoint, and
can be encoded if the context can (`Divides`, for scope-grouped flushes `ScopesDivide`): hence a
flush that does not raise logs everything and one that raises a part. That a materialized signal can always be
encoded is `MaterializedEncodes`. The other calls add no data, because the entries of data blocks are complete before
and after them (`EntriesListed`).

`TrlMetadataProofs`. `IdsReadBack` (`StringsResolve`) and `OpensAlike` (`PathsAgree`) assume
`MaxFlushes = 0`, without which `midflush` refutes the first. `MetadataInv` adds to `TraceInv` that string
table, registry and metadata are on file once, where the index says (`MetadataOnce`), and that every id held by a
context, a hierarchy, the registry or a block was interned (`IdsInterned`). A reader that opens by index and one
that scans then read the same blocks.

`TypesReadBack` (`TypesAgree`) assumes `OneTypeEach`: one hierarchy, declarations before the first block, no
flush of the table, derived signals of the default type, and ids of derived signals above all declared ones.
The run `hierarchies` shows what happens with two hierarchies; a variable declared while a block is open is
encoded with the default type (`codec.py:296`). The invariant adds `TypesInv`: the
writer's map, the copies in the contexts, the types of the blocks on file, the hierarchy on file
before the registry and the registry's definitions all give a variable the type it was declared with.

`TrlDepsProofs`. `DepsInv` says that each call on the stack has descended along an input of
the one below it (`Descends`), that streams the search is done with have only such streams as inputs
(`Settled`), that the decode order and the cache hold every stream once and after its inputs
(`Ordered`), and which stage belongs to which call. The stack being a path makes what
`find_cycle` returns a cycle (`CycleReported`); settled streams being closed under inputs makes
the graph acyclic when the search finds nothing (`AllSettled`: a set of streams in which each has
an input would have to contain a stream not settled). Hence `CatalogKept`: `TrlDeps`
implements `DependencyCatalog`, for any number of streams; and `CatalogStaysAcyclic`, `OrderSound`,
`ComputedAfterInputs`, `MarksSound`, `MarksWithinACall`.

`TrlVpiProofs`. The changes recorded are the entries of `Blocks`, the blocks on file and the one at work, each at
a place (block and index in it). `VpiInv` holds `TimesInOrder`, `RepeatedBySynch` and `MarkedIsScheduled` with what they
need: nothing recorded is younger than the present or was written by a callback still to come (`NoneAhead`), so the next callback's
changes carry a number of their own; what is at work was written by callbacks, as a snapshot goes into
blocks of its own (`AtWorkBySynch`); the last place of an unmarked signal holds its value
(`LastAtPlace`, the form of `LastRecorded` that is about places and not times); `AtWorkCounted`, `RecordedOfSigs`. A
flush in scope-grouped mode splits what is pending by scope; that it loses nothing and keeps
each signal's order is `SplitByScope`. From the invariant, for any number of signals, scopes, times and
tasks: `TimesStayInOrder`, `RepeatedOnlyBySynch`, `LastIsRecorded`, `MarkedStaysScheduled`,
`BufferStaysBounded`, and the action properties `RecordedIsKept` and `PausedRecordsNothing`.

`TrlPayloadProofs`, calls and returns. `CallInv` says that the payload is the cells of the events one after
another, each event encoded in the writer's state before it, and that the reader stands at the first cell of its
next event with the writer's state of that event. One step of the reader on the cells of one event gives
the event and the writer's next state (a lemma per kind of event), which is the induction; `InStepThroughout` is
`CallsInStep` for all signatures, windows and numbers of events, where the numbers of a trace fit their
formats (`CallsRepresentable`), as in the run. The kinds of the events the reader has are those of the writer
whether the numbers fit or not (`KindsInStep`, a part of `CallInv`), since what tells the kinds apart is never a number
that may wrap.

`NestsThroughout` is `TreeNests`, for any trace of calls. Depths and tree are folds over the events, and
`FoldSteps` of `TrlFolds` gives a fold the value each element leads to. After each prefix of
the events the fold's stack holds the calls still open, in ascending order; the p-th of m open ones has a balance
of m - p + 1 now and one of at least 1 ever since it was entered; and a call that was closed came back
to the balance before it for the first time at the return noted as its end. After the last event that is
what `TreeNests` says of depths, ends and parents, calls never returned from included.

`TrlPayloadProofs`, transactions. `TxnInv` says that a block in rows is the cells of its records in their order, each
encoded with the id and time that the records before it lead to (`txnMarks`), and that the reader is at the first cell of a
record with the running id and time the writer had there. The reader's registry may be a
later one than the writer's copy; it knows every schema of the copy under the same id (`KnownOfRegistry`), so a
schema declared while the block is open does it no harm. `RowsReadBack` is `RowReadsBack`: after each record the reader has
the records given so far, for any number of records, kinds of records, ids and times that fit their formats.

`TrlHierarchyProofs`, the hierarchy. The tags are a nested list and the reader takes them one by one. `HierInv` says what it has left
to read: first the rest of the attributes of the node read last (`AttrsLeft`); then, for each open scope from the
innermost out, the tags of those of its nodes that come after that one, and the way up (`TagsLeft`). The next
tag is the first of what is left, and takes the reader to the same with that tag gone: a lemma each for a node, an
attribute and the way up. That the first node left in the innermost scope is the next node of all follows from the
order of declaration: what was declared between a scope and a node in it is inside that scope (`Preorder`), which the
builder keeps because while a scope is open every new node is in it or further in (`BuiltInside`). When nothing is left the
nodes read are the nodes declared and no scope is open. `TreeReadBack` is `TreeReadsBack`, for any number of nodes,
attributes and scopes left open. `LastNode`, the reader's guess of whose an attribute is, is right because the attributes of
a node come before the nodes in it (`LastNodeIs`); the mutant of `Tags` in `PROJECT.json` writes them after.

`TrlHierarchyProofs`, the registry. The block is its entries put together (`Entries`): of what a newer writer adds, then the
signals, schemas, enumerations and streams. `RegInv` says that the reader stands between two entries: what is left of the
block is the entries from some place on, and what was read is each kind's list up to that place (`EntriesInStep`,
`ReadUpTo`). A turn of the reader takes the first entry that is left: a lemma for each kind, in which the lists and
attributes of an entry read back cell by cell, and the length of a stream's longer form leads past the fields
unknown to the reader (`TookStream`). At the end of the block every list was read, and the metadata block reads back by the
same fold over attributes. `RegistryReadBack` is `RegistryReadsBack`, for any number of entries, attributes and values
that fit a word. `RegInv` keeps the profiles of a stream in one attribute too (`ProfilesTogether`), which is why the
dictionary a reader makes of the metadata, where a later value replaces an earlier one, holds them all:
`ProfilesThroughout` is `ProfilesListed`.

Induction over data is possible where it is over the natural numbers: `TrlFolds` proves its theorem by taking the least
element at which it would fail, and the other proofs use it for one `Step` and `Base` each, or make the reader's
steps the induction. Only model-checked are the properties below.

* `ColumnReadsBack`: the reader walks the records once per column, so an invariant would have to describe every
  column already read and the one at work at once.
* `WavesReadBack`, `PlanesReadBack`: encoder and decoder are compositions of folds over the signals, the times and
  the bytes of a block, undone in one step.
* `DerivedAgrees`: recursion over an expression on one side and a stack on the other.
* `CallsEnd`: liveness is out of the prover's reach.

## What is not modelled, and the plan

Left out of the modelled parts: the bytes of a number, compression and the footer of a seekable block, file
errors, failing allocations, nine-state, real, string and bit-vector values of variables, raw calls and the
block of signatures of call/return traces, `find_streams`, extension blocks on the reading side, the walk of a
design in the plug-in beyond the set of signals it registers. Single-bit four-state variables
are modelled, but not in the run's instance. Components not modelled are in `PROJECT.json` with the reason.

The order of work was the writer with crash and reader, the dependency catalog, the plug-in, then the
payloads. Next, in order:

1. The C library's writer, where it differs from the Python one, under the plug-in.
2. The other encodings of variables in `TrlVcData`, first the nine-state one, and seeking inside a block.
3. Raw calls in `TrlCallReturn`, composed with `TrlTxnData`.
4. The codec registry and its bridge: which codec a block's flags name, and what a foreign codec may do wrong.

Worth proving next is `DerivedAgrees`, with what is left of the code as the invariant, like `TreeReadBack`. None of the payload modules declares a RECURSIVE operator, so each can be proved about as it
stands.
