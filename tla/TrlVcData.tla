------------------------------ MODULE TrlVcData ------------------------------
(***************************************************************************)
(* A block of value changes, written and read back, in the layouts of the   *)
(* two codecs: core.valuechange (_vc_data.py: a table of times, and for     *)
(* each variable a wave of time indices and values, of vectors run-length   *)
(* coded differences, equal waves stored once) and core.bytesplit           *)
(* (_bytesplit.py: the bytes of a variable's values in planes).             *)
(*                                                                          *)
(* A value is the set of its one bits; X and Z in it are further members.   *)
(* Of the encodings 2-state and 4-state ones are modelled.                  *)
(* A wave stands for its bytes, its place in the list of waves for its      *)
(* offset.  Compression and the footer of a seekable block are left out.    *)
(***************************************************************************)
EXTENDS Integers, FiniteSets, SequencesExt

CONSTANTS
  WaveTypes,     \* variable -> [enc, width], as the registry has it
  WaveValues,    \* values the client records
  WaveTimes, WaveStart,  \* times it records them at, and the block's start
  WaveCodecs,    \* "core", "split"
  ByteBits,      \* bits of a byte: 8
  MaxWaveChanges

XBit == -1
ZBit == -2
AllX == {XBit}      \* every bit unknown

ASSUME WaveAssumption ==
  /\ \A v \in DOMAIN WaveTypes : WaveTypes[v] \in [enc : {"2STATE", "4STATE"}, width : Nat]
  /\ DOMAIN WaveTypes \subseteq Nat
  /\ \A value \in WaveValues : value \subseteq Nat \cup {XBit, ZBit}
  /\ WaveTimes \cup {WaveStart} \subseteq Nat
  /\ WaveCodecs \subseteq {"core", "split"}
  /\ ByteBits \in Nat \ {0}
  /\ MaxWaveChanges \in Nat

VARIABLES
  waveCodec,     \* the codec of the block
  waveInit,      \* _init_values: variable -> value
  waveChanges,   \* _changes: variable -> list of time and value
  wavePayload,   \* what was encoded
  waveRead,      \* what was decoded: a list of changes
  wavePhase      \* "open", "raised", "written" or "read"

waveVars == <<waveCodec, waveInit, waveChanges, wavePayload, waveRead, wavePhase>>

Binary(value) == XBit \notin value /\ ZBit \notin value
Xor(v, w) == (v \ w) \cup (w \ v)

\* int.to_bytes: the value must fit the bytes of the width.
BytesOf(width) == IF width = 0 THEN 1 ELSE (width + ByteBits - 1) \div ByteBits
FitsBytes(value, width) == value \subseteq 0..(BytesOf(width) * ByteBits - 1)

Ascending(set) == SetToSortSeq(set, LAMBDA a, b : a < b)

-----------------------------------------------------------------------------
(* Recording *)

WaveInit ==
  /\ waveCodec \in WaveCodecs
  /\ waveInit = << >>
  /\ waveChanges = << >>
  /\ wavePayload = << >>
  /\ waveRead = << >>
  /\ wavePhase = "open"

Room ==
  /\ wavePhase = "open"
  /\ FoldFunction(LAMBDA list, n : Len(list) + n, 0, waveChanges)
       + Cardinality(DOMAIN waveInit \ DOMAIN waveChanges) < MaxWaveChanges

ChangesOf(var) == IF var \in DOMAIN waveChanges THEN waveChanges[var] ELSE << >>

WithChanges(var, list) ==
  [v \in DOMAIN waveChanges \cup {var} |-> IF v = var THEN list ELSE waveChanges[v]]

WithInitial(var, value) ==
  [v \in DOMAIN waveInit \cup {var} |-> IF v = var THEN value ELSE waveInit[v]]

\* VcDataBlock.add_change, BytesplitBlock.add_change: to the core codec a first
\* change is the initial value too, if none was set.
Change(var, time, value) ==
  /\ Room
  /\ waveChanges' = WithChanges(var, Append(ChangesOf(var), [time |-> time, value |-> value]))
  /\ waveInit' = IF waveCodec = "split" \/ var \in DOMAIN waveInit THEN waveInit
                 ELSE WithInitial(var, value)
  /\ UNCHANGED <<waveCodec, wavePayload, waveRead, wavePhase>>

\* set_initial: in a bytesplit block a change at the start, before all others.
Initial(var, value) ==
  /\ Room
  /\ IF waveCodec = "core"
     THEN waveInit' = WithInitial(var, value) /\ UNCHANGED waveChanges
     ELSE /\ waveChanges' = WithChanges(var,
               <<[time |-> WaveStart, value |-> value]>> \o ChangesOf(var))
          /\ UNCHANGED waveInit
  /\ UNCHANGED <<waveCodec, wavePayload, waveRead, wavePhase>>

-----------------------------------------------------------------------------
(* core.valuechange *)

CoreVars == Ascending(DOMAIN waveInit)

\* _encode_payload: the sorted distinct times of all changes.
TimeTable ==
  Ascending(UNION {{waveChanges[v][k].time : k \in 1..Len(waveChanges[v])} :
                   v \in DOMAIN waveChanges})

\* A variable's changes in time order, as steps: how many entries of the time
\* table are passed over, and the value.
Steps(var) ==
  LET sorted == SortSeq(ChangesOf(var), LAMBDA a, b : a.time < b.time)
      Index(k) == IF k = 0 THEN 0
                  ELSE CHOOSE i \in 1..Len(TimeTable) : TimeTable[i] = sorted[k].time
  IN  [k \in 1..Len(sorted) |->
         [skip |-> Index(k) - (Index(k - 1) + 1), value |-> sorted[k].value]]

\* Mutant of Runs: a run goes on whatever the differences are.
RunsOfSkip(steps) ==
  LET Diff(k) == Xor(steps[k].value, IF k = 1 THEN {} ELSE steps[k - 1].value)
  IN  FoldLeft(LAMBDA runs, k :
                 LET n == Len(runs)
                 IN  IF n > 0 /\ runs[n].skip = steps[k].skip
                     THEN [runs EXCEPT ![n].count = @ + 1]
                     ELSE Append(runs, [skip |-> steps[k].skip, diff |-> Diff(k), count |-> 1]),
               << >>, [k \in 1..Len(steps) |-> k])

\* _encode_wave of vectors: differences by exclusive or, equal ones in runs.
Runs(steps) ==
  LET Diff(k) == Xor(steps[k].value, IF k = 1 THEN {} ELSE steps[k - 1].value)
  IN  FoldLeft(LAMBDA runs, k :
                 LET n == Len(runs)
                 IN  IF n > 0 /\ runs[n].skip = steps[k].skip /\ runs[n].diff = Diff(k)
                     THEN [runs EXCEPT ![n].count = @ + 1]
                     ELSE Append(runs, [skip |-> steps[k].skip, diff |-> Diff(k), count |-> 1]),
               << >>, [k \in 1..Len(steps) |-> k])

\* A value in a wave: one bit of a 2-state value; a 4-state bit as it is; a
\* 4-state vector as a number or, if it is none, with every bit unknown.
WaveValue(type, value) ==
  CASE type.enc = "2STATE" /\ type.width = 1 -> value \cap {0}
    [] type.enc = "4STATE" /\ type.width = 1 /\ Binary(value) -> value \cap {0}
    [] type.enc = "4STATE" /\ type.width > 1 /\ ~Binary(value) -> AllX
    [] OTHER -> value

\* _encode_wave
Wave(var) ==
  LET type == WaveTypes[var]
      steps == Steps(var)
  IN  IF type.enc = "2STATE" /\ type.width > 1 /\ steps # << >> THEN Runs(steps)
      ELSE [k \in 1..Len(steps) |-> [steps[k] EXCEPT !.value = WaveValue(type, @)]]

\* _encode_value: an initial value is not cut to one bit, but keeps no Z.
InitialValue(type, value) ==
  IF type.enc = "4STATE" THEN IF Binary(value) THEN value \cap (0..(type.width - 1)) ELSE AllX
  ELSE value

\* What makes the encoder raise: a change before the start or two of a variable
\* at one time, and values that are no numbers or do not fit their bytes.
CoreRaises ==
  \/ TimeTable # << >> /\ TimeTable[1] < WaveStart
  \/ \E v \in DOMAIN waveChanges : \E k \in 1..Len(waveChanges[v]) :
       \/ Steps(v)[k].skip < 0
       \/ WaveTypes[v].enc = "2STATE" /\ ~Binary(waveChanges[v][k].value)
       \/ /\ WaveTypes[v].enc = "4STATE" /\ WaveTypes[v].width > 1
          /\ Binary(waveChanges[v][k].value)
          /\ ~FitsBytes(waveChanges[v][k].value, WaveTypes[v].width)
  \/ \E v \in DOMAIN waveInit :
       WaveTypes[v].enc = "2STATE" /\ ~FitsBytes(waveInit[v], WaveTypes[v].width)

\* Equal waves are stored once.
Waves ==
  FoldLeft(LAMBDA waves, v : IF Contains(waves, Wave(v)) THEN waves ELSE Append(waves, Wave(v)),
           << >>, CoreVars)

CorePayload ==
  [start |-> WaveStart,
   gaps |-> [i \in 1..Len(TimeTable) |->
               TimeTable[i] - IF i = 1 THEN WaveStart ELSE TimeTable[i - 1]],
   vars |-> [i \in 1..Len(CoreVars) |->
               LET v == CoreVars[i]
               IN  [var |-> v, init |-> InitialValue(WaveTypes[v], waveInit[v]),
                    at |-> CHOOSE p \in 1..Len(Waves) : Waves[p] = Wave(v)]],
   waves |-> Waves]

\* _decode_payload: the times, by their gaps.
ReadTimes ==
  FoldLeft(LAMBDA times, gap :
             Append(times, gap + IF times = << >> THEN wavePayload.start ELSE times[Len(times)]),
           << >>, wavePayload.gaps)

\* _decode_wave of vectors: runs drawn out, each value from the one before.
ReadRuns(runs) ==
  LET single == FlattenSeq([i \in 1..Len(runs) |-> [j \in 1..runs[i].count |-> runs[i]]])
  IN  FoldLeft(LAMBDA steps, s :
                 Append(steps,
                   [skip |-> s.skip,
                    value |-> Xor(s.diff, IF steps = << >> THEN {} ELSE steps[Len(steps)].value)]),
               << >>, single)

\* _decode_wave: steps to indices into the table of times.
ReadWave(wave, type) ==
  LET steps == IF type.enc = "2STATE" /\ type.width > 1 THEN ReadRuns(wave) ELSE wave
  IN  FoldLeft(LAMBDA list, s :
                 Append(list, [index |-> (IF list = << >> THEN 0 ELSE list[Len(list)].index)
                                           + 1 + s.skip,
                               value |-> s.value]),
               << >>, steps)

\* _decode_payload: the changes, or, of a variable without any, its initial
\* value at the start; sorted by time and variable.
CoreChanges ==
  LET Of(entry) ==
        LET list == ReadWave(wavePayload.waves[entry.at], WaveTypes[entry.var])
        IN  IF list = << >>
            THEN <<[var |-> entry.var, time |-> wavePayload.start, value |-> entry.init]>>
            ELSE [k \in 1..Len(list) |->
                    [var |-> entry.var, time |-> ReadTimes[list[k].index], value |-> list[k].value]]
  IN  SortSeq(FlattenSeq([i \in 1..Len(wavePayload.vars) |-> Of(wavePayload.vars[i])]),
              LAMBDA a, b : a.time < b.time \/ (a.time = b.time /\ a.var < b.var))

-----------------------------------------------------------------------------
(* core.bytesplit *)

\* _value_width raises on a type without a fixed width, to_bytes on a value that
\* does not fit, encode_uvarint on a change before the one recorded before it.
SplitRaises ==
  \E v \in DOMAIN waveChanges :
    \/ WaveTypes[v].enc = "4STATE"
    \/ \E k \in 1..Len(waveChanges[v]) :
         \/ k > 1 /\ waveChanges[v][k].time < waveChanges[v][k - 1].time
         \/ ~FitsBytes(waveChanges[v][k].value, WaveTypes[v].width)

\* The bytes of a value, lowest first.
ByteAt(value, n) == {b \in 0..(ByteBits - 1) : (n - 1) * ByteBits + b \in value}

\* byte_split: plane p holds the p-th byte of every value.
Planes(values, width) ==
  [n \in 1..(Len(values) * width) |->
     LET plane == ((n - 1) \div Len(values)) + 1
         k == ((n - 1) % Len(values)) + 1
     IN  ByteAt(values[k], plane)]

\* Mutant of Unsplit: the planes are taken as the values' bytes one by one.
UnsplitRows(bytes, width) ==
  LET count == Len(bytes) \div width
  IN  [k \in 1..count |->
         UNION {{p * ByteBits + b : b \in bytes[(k - 1) * width + p + 1]} : p \in 0..(width - 1)}]

\* byte_unsplit and from_bytes.
Unsplit(bytes, width) ==
  LET count == Len(bytes) \div width
  IN  [k \in 1..count |->
         UNION {{p * ByteBits + b : b \in bytes[p * count + k]} : p \in 0..(width - 1)}]

\* BytesplitBlock.encode_block: times by their gaps from 0, values in planes.
SplitPayload ==
  LET order == Ascending(DOMAIN waveChanges)
  IN  [i \in 1..Len(order) |->
         LET list == waveChanges[order[i]]
             width == BytesOf(WaveTypes[order[i]].width)
         IN  [var |-> order[i], width |-> width,
              gaps |-> [k \in 1..Len(list) |-> list[k].time - IF k = 1 THEN 0 ELSE list[k - 1].time],
              bytes |-> Planes([k \in 1..Len(list) |-> list[k].value], width)]]

\* BytesplitBlock.decode_changes: variable after variable, in the order recorded.
SplitChanges ==
  LET Of(entry) ==
        LET values == Unsplit(entry.bytes, entry.width)
            times == FoldLeft(LAMBDA ts, gap :
                                Append(ts, gap + IF ts = << >> THEN 0 ELSE ts[Len(ts)]),
                              << >>, entry.gaps)
        IN  [k \in 1..Len(times) |-> [var |-> entry.var, time |-> times[k], value |-> values[k]]]
  IN  FlattenSeq([i \in 1..Len(wavePayload) |-> Of(wavePayload[i])])

-----------------------------------------------------------------------------
\* encode_block
WriteWaves ==
  /\ wavePhase = "open"
  /\ IF IF waveCodec = "core" THEN CoreRaises ELSE SplitRaises
     THEN wavePhase' = "raised" /\ UNCHANGED wavePayload
     ELSE /\ wavePhase' = "written"
          /\ wavePayload' = IF waveCodec = "core" THEN CorePayload ELSE SplitPayload
  /\ UNCHANGED <<waveCodec, waveInit, waveChanges, waveRead>>

\* read_block, decode_changes
ReadWaves ==
  /\ wavePhase = "written"
  /\ wavePhase' = "read"
  /\ waveRead' = IF waveCodec = "core" THEN CoreChanges ELSE SplitChanges
  /\ UNCHANGED <<waveCodec, waveInit, waveChanges, wavePayload>>

WaveNext ==
  \/ \E v \in DOMAIN WaveTypes, value \in WaveValues :
       Initial(v, value) \/ \E t \in WaveTimes : Change(v, t, value)
  \/ WriteWaves
  \/ ReadWaves

WaveSpec == WaveInit /\ [][WaveNext]_waveVars

-----------------------------------------------------------------------------
(* Properties *)

ReadOf(var) == SelectSeq(waveRead, LAMBDA c : c.var = var)

\* A core block reads back as the changes recorded, each variable's in time
\* order, whatever the runs its values make and whoever shares its wave; of a
\* variable without changes the initial value.  Unknown bits of a vector make
\* all its bits unknown.
WavesReadBack ==
  wavePhase = "read" /\ waveCodec = "core" =>
    /\ {waveRead[k].var : k \in 1..Len(waveRead)} = DOMAIN waveInit
    /\ \A v \in DOMAIN waveInit :
         IF v \notin DOMAIN waveChanges
         THEN ReadOf(v) = <<[var |-> v, time |-> WaveStart,
                         value |-> InitialValue(WaveTypes[v], waveInit[v])]>>
         ELSE /\ Len(ReadOf(v)) = Len(waveChanges[v])
              /\ \A k \in 1..Len(ReadOf(v)) : k > 1 => ReadOf(v)[k - 1].time < ReadOf(v)[k].time
              /\ {<<c.time, WaveValue(WaveTypes[v], c.value)>> :
                    c \in {waveChanges[v][k] : k \in 1..Len(waveChanges[v])}}
                 = {<<ReadOf(v)[k].time, ReadOf(v)[k].value>> : k \in 1..Len(ReadOf(v))}

\* A bytesplit block reads back as it was recorded, in the order of the calls
\* with initial values before them, at every width of the values.
PlanesReadBack ==
  wavePhase = "read" /\ waveCodec = "split" =>
    \A v \in DOMAIN WaveTypes :
      ReadOf(v) = [k \in 1..Len(ChangesOf(v)) |->
                 [var |-> v, time |-> ChangesOf(v)[k].time, value |-> ChangesOf(v)[k].value]]
=============================================================================
