------------------------------- MODULE TrlVpi -------------------------------
(***************************************************************************)
(* The VPI plug-in (src/vpi): callbacks of the simulator and system tasks    *)
(* that turn a simulation into value-change blocks.  A signal that changes   *)
(* is only marked; the callback at the read-write synchronisation point of   *)
(* the time step writes the values that have settled by then.  Tasks may run *)
(* at any point between, and the simulator may go back to changing signals   *)
(* after the synchronisation point.                                          *)
(***************************************************************************)
EXTENDS Integers, Sequences, FiniteSets

CONSTANTS
  Signals,        \* local indices of signals
  ScopeOf,        \* their scope ids
  Values,         \* values of signals
  Scopes,         \* what a $trlog_dumpvars walks: sets of signals the filter lets through
  FlushInterval,  \* changes between automatic flushes
  Limits,         \* arguments of $trlog_dumplimit
  MaxTime,        \* bound: last time step
  MaxSynchs,      \* bound: synchronisation points
  MaxTasks        \* bound: calls of system tasks

ASSUME VpiAssumption ==
  /\ Signals \subseteq Nat /\ IsFiniteSet(Signals) /\ ScopeOf \in [Signals -> Nat]
  /\ Scopes \subseteq SUBSET Signals /\ Limits \subseteq Nat
  /\ FlushInterval \in Nat \ {0} /\ MaxTime \in Nat /\ MaxSynchs \in Nat /\ MaxTasks \in Nat

VARIABLES
  now, value,          \* the simulator: time, signals
  synchs,              \* synchronisation points the plug-in was called at so far
  running,             \* "elaborated", "running" or "over"
  tasks,               \* calls of system tasks so far
  grouped,             \* +trlog_scope_grouped
  open,                \* writer is not NULL
  sigs,                \* signals registered
  paused, limit,       \* dump control
  marks,               \* sig_changed
  scheduled,           \* delta_cb_pending: the callback is registered
  vcActive, vcStart, count, pending,  \* the block at work, or the changes pending
  block,               \* the writer's own value-change block
  file,                \* the blocks of the writer's file
  failed               \* history: a $trlog_dumpfile failed

simVars == <<now, value, synchs, running>>
dumpVars == <<open, sigs, paused, limit>>
markVars == <<marks, scheduled>>
blockVars == <<vcActive, vcStart, count, pending, block, file>>
vars == <<simVars, tasks, grouped, dumpVars, markVars, blockVars, failed>>

EmptyBlock(start) == [start |-> start, entries |-> << >>]

\* memset(&g_trlog, 0, ...)
Zeroed ==
  /\ open' = FALSE /\ sigs' = {} /\ paused' = FALSE /\ limit' = 0 /\ marks' = {}
  /\ scheduled' = FALSE /\ vcActive' = FALSE /\ vcStart' = 0 /\ count' = 0 /\ pending' = << >>

Init ==
  /\ now = 0 /\ value \in [Signals -> Values] /\ synchs = 0
  /\ running = "elaborated" /\ tasks = 0
  /\ grouped \in BOOLEAN
  /\ open = FALSE /\ sigs = {} /\ paused = FALSE /\ limit = 0 /\ marks = {} /\ scheduled = FALSE
  /\ vcActive = FALSE /\ vcStart = 0 /\ count = 0 /\ pending = << >>
  /\ block = EmptyBlock(0) /\ file = << >> /\ failed = FALSE

-----------------------------------------------------------------------------
(* Writing and flushing *)

\* A loop over indices: the members of a set of numbers, from the least to the greatest.
Ascending(S) ==
  CHOOSE order \in [1..Cardinality(S) -> S] :
    /\ \A x \in S : \E i \in 1..Cardinality(S) : order[i] = x
    /\ \A i, j \in 1..Cardinality(S) : i < j => order[i] < order[j]

\* write_signal_value for each of a set of signals, by index.  As history for the
\* properties a change holds who wrote it: the number of the synchronisation point, or
\* 0 for a snapshot.
Samples(S, by) ==
  [i \in 1..Cardinality(S) |->
     [sig |-> Ascending(S)[i], time |-> now, value |-> value[Ascending(S)[i]], by |-> by]]

\* The scopes of the changes pending.
ScopesOf(entries) == {ScopeOf[entries[i].sig] : i \in DOMAIN entries}

\* The changes of one scope, at their places among those pending.
InScope(entries, scope) ==
  [i \in {j \in DOMAIN entries : ScopeOf[entries[j].sig] = scope} |-> entries[i]]

\* Mutant of ScopeBlocks: blocks begin at the time of the flush.
ScopeBlocksLate(start, entries) ==
  [k \in 1..Cardinality(ScopesOf(entries)) |->
     [start |-> now, entries |-> InScope(entries, Ascending(ScopesOf(entries))[k])]]

\* Mutant of ScopeBlocks: the flush after the last scope is missing.
ScopeBlocksButLast(start, entries) ==
  [k \in 1..Cardinality(ScopesOf(entries)) - 1 |->
     [start |-> start, entries |-> InScope(entries, Ascending(ScopesOf(entries))[k])]]

\* trlog_vpi_flush_pending: a block per scope, by scope id, all from one start time.
ScopeBlocks(start, entries) ==
  [k \in 1..Cardinality(ScopesOf(entries)) |->
     [start |-> start, entries |-> InScope(entries, Ascending(ScopesOf(entries))[k])]]

\* do_flush: what is at work goes to the file.
DoFlush ==
  IF grouped
  THEN /\ file' = file \o ScopeBlocks(vcStart, pending)
       /\ pending' = << >> /\ UNCHANGED <<vcActive, block>>
       /\ IF pending = << >> THEN UNCHANGED <<count, vcStart>> ELSE count' = 0 /\ vcStart' = now
  ELSE /\ UNCHANGED <<vcStart, pending, block>>
       /\ IF vcActive THEN file' = Append(file, block) /\ vcActive' = FALSE /\ count' = 0
          ELSE UNCHANGED <<file, vcActive, count>>

\* Mutant of Snapshot: the values join the block at work.
SnapshotInto ==
  IF ~open \/ sigs = {} THEN UNCHANGED blockVars
  ELSE /\ IF grouped
          THEN /\ file' = file \o ScopeBlocks(IF pending = << >> THEN now ELSE vcStart,
                                              pending \o Samples(sigs, 0))
               /\ UNCHANGED block
          ELSE /\ block' = IF vcActive THEN [block EXCEPT !.entries = @ \o Samples(sigs, 0)]
                           ELSE [start |-> now, entries |-> Samples(sigs, 0)]
               /\ file' = Append(file, block')
       /\ pending' = << >> /\ vcActive' = FALSE /\ vcStart' = now /\ count' = 0

\* trlog_snapshot_all: all values, in blocks of their own.
Snapshot ==
  IF ~open \/ sigs = {} THEN UNCHANGED blockVars
  ELSE /\ IF grouped
          THEN /\ file' = file \o ScopeBlocks(vcStart, pending) \o ScopeBlocks(now, Samples(sigs, 0))
               /\ UNCHANGED block
          ELSE /\ block' = [start |-> now, entries |-> Samples(sigs, 0)]
               /\ file' = (IF vcActive THEN Append(file, block) ELSE file) \o <<block'>>
       /\ pending' = << >> /\ vcActive' = FALSE /\ vcStart' = now /\ count' = 0

-----------------------------------------------------------------------------
(* The simulator *)

\* Mutant of Assign: once the callback is registered further signals are not marked.
AssignUnmarked(s, v) ==
  /\ running = "running" /\ synchs < MaxSynchs /\ v # value[s]
  /\ value' = [value EXCEPT ![s] = v]
  /\ IF s \in sigs /\ open /\ ~paused /\ ~scheduled
     THEN marks' = marks \cup {s} /\ scheduled' = TRUE
     ELSE UNCHANGED markVars
  /\ UNCHANGED <<now, synchs, running, tasks, grouped, dumpVars, blockVars, failed>>

\* A signal changes; trlog_vc_callback marks it and asks for the synchronisation point.
Assign(s, v) ==
  /\ running = "running" /\ synchs < MaxSynchs /\ v # value[s]
  /\ value' = [value EXCEPT ![s] = v]
  /\ IF s \in sigs /\ open /\ ~paused
     THEN marks' = marks \cup {s} /\ scheduled' = TRUE
     ELSE UNCHANGED markVars
  /\ UNCHANGED <<now, synchs, running, tasks, grouped, dumpVars, blockVars, failed>>

\* check_dump_limit: 16 bytes a change are estimated.
LimitReached(n) == limit # 0 /\ n * 16 >= limit

\* Mutant of Due: the interval has to be passed.
DueLate(n) == n > FlushInterval

Due(n) == n >= FlushInterval

\* Mutant of Drop: the marks stay.
DropFlag == marks' = marks /\ scheduled' = FALSE /\ UNCHANGED <<dumpVars, blockVars>>

\* No writer, or paused: the marks are dropped.
Drop == marks' = {} /\ scheduled' = FALSE /\ UNCHANGED <<dumpVars, blockVars>>

\* The settled values are written; then the automatic flush and the dump limit.
Drain ==
  LET fresh == Samples(marks, synchs + 1)
      n     == count + Len(fresh)
      stop  == ~Due(n) /\ LimitReached(n)
      flush == Due(n) \/ stop
      start == IF grouped THEN (IF pending = << >> THEN now ELSE vcStart)
               ELSE (IF vcActive THEN vcStart ELSE now)
      work  == IF grouped THEN EmptyBlock(0)
               ELSE IF vcActive THEN [block EXCEPT !.entries = @ \o fresh]
                    ELSE [start |-> now, entries |-> fresh]
  IN  /\ marks' = {} /\ scheduled' = FALSE
      /\ paused' = (paused \/ stop) /\ UNCHANGED <<open, sigs, limit>>
      /\ count' = IF flush THEN 0 ELSE n
      /\ IF grouped
         THEN /\ pending' = IF flush THEN << >> ELSE pending \o fresh
              /\ file' = IF flush THEN file \o ScopeBlocks(start, pending \o fresh) ELSE file
              /\ vcStart' = IF flush THEN now ELSE start
              /\ UNCHANGED <<vcActive, block>>
         ELSE /\ block' = work /\ vcStart' = start /\ vcActive' = ~flush
              /\ file' = IF flush THEN Append(file, work) ELSE file
              /\ UNCHANGED pending

\* Mutant of Synch: the callback does not look at paused.
SynchAlways ==
  /\ running = "running" /\ scheduled /\ synchs' = synchs + 1
  /\ IF open THEN Drain ELSE Drop
  /\ UNCHANGED <<now, value, running, tasks, grouped, failed>>

\* trlog_delta_callback, at the synchronisation point.
Synch ==
  /\ running = "running" /\ scheduled /\ synchs' = synchs + 1
  /\ IF open /\ ~paused THEN Drain ELSE Drop
  /\ UNCHANGED <<now, value, running, tasks, grouped, failed>>

\* Time goes on when the step is done.
Tick ==
  /\ running = "running" /\ ~scheduled /\ now < MaxTime
  /\ now' = now + 1
  /\ UNCHANGED <<value, synchs, running, tasks, grouped, dumpVars, markVars, blockVars, failed>>

\* trlog_sos_callback: with +trlog_file the plug-in opens a file and walks the design;
\* if the file cannot be opened it is as without.
StartOfSimulation(plusarg) ==
  /\ running = "elaborated" /\ running' = "running"
  /\ IF plusarg THEN open' = TRUE /\ sigs' = UNION Scopes ELSE UNCHANGED <<open, sigs>>
  /\ UNCHANGED <<now, value, synchs, tasks, grouped, paused, limit, markVars, blockVars, failed>>

\* trlog_eos_callback: the file gets what was written, marks are forgotten.
EndOfSimulation ==
  /\ running = "running" /\ running' = "over"
  /\ file' = IF ~open THEN file
             ELSE IF grouped THEN file \o ScopeBlocks(vcStart, pending)
             ELSE IF vcActive THEN Append(file, block) ELSE file
  /\ Zeroed
  /\ UNCHANGED <<now, value, synchs, tasks, grouped, block, failed>>

-----------------------------------------------------------------------------
(* System tasks *)

Task ==
  /\ running = "running" /\ tasks < MaxTasks /\ tasks' = tasks + 1
  /\ UNCHANGED <<simVars, grouped>>

\* A new writer takes the place of the old one, which is not closed; NULL if it fails.
DumpFile(ok) ==
  /\ Task /\ open' = ok /\ failed' = (failed \/ ~ok) /\ file' = << >> /\ block' = EmptyBlock(0)
  /\ UNCHANGED <<sigs, paused, limit, markVars, vcActive, vcStart, count, pending>>

\* The walk registers the signals it has not seen.
DumpVars(S) ==
  /\ Task /\ open /\ sigs' = sigs \cup S
  /\ UNCHANGED <<open, paused, limit, markVars, blockVars, failed>>

DumpOff ==
  /\ Task /\ open /\ DoFlush /\ paused' = TRUE
  /\ UNCHANGED <<open, sigs, limit, markVars, failed>>

DumpOn ==
  /\ Task /\ open /\ paused' = FALSE /\ Snapshot
  /\ UNCHANGED <<open, sigs, limit, markVars, failed>>

DumpFlush ==
  /\ Task /\ open /\ DoFlush
  /\ UNCHANGED <<dumpVars, markVars, failed>>

DumpLimit(l) ==
  /\ Task /\ limit' = l
  /\ UNCHANGED <<open, sigs, paused, markVars, blockVars, failed>>

DumpAll ==
  /\ Task /\ open /\ ~paused /\ Snapshot
  /\ UNCHANGED <<dumpVars, markVars, failed>>

-----------------------------------------------------------------------------
Simulator ==
  \/ \E s \in Signals, v \in Values : Assign(s, v)
  \/ \E plusarg \in BOOLEAN : StartOfSimulation(plusarg)
  \/ Synch \/ Tick \/ EndOfSimulation

Tasks ==
  \/ \E ok \in BOOLEAN : DumpFile(ok)
  \/ \E S \in Scopes : DumpVars(S)
  \/ \E l \in Limits : DumpLimit(l)
  \/ DumpOff \/ DumpOn \/ DumpFlush \/ DumpAll

Next == Simulator \/ Tasks

Spec == Init /\ [][Next]_vars

-----------------------------------------------------------------------------
(* Properties *)

\* The block at work: not on file yet.
AtWork ==
  IF grouped THEN <<[start |-> vcStart, entries |-> pending]>>
  ELSE IF vcActive THEN <<block>> ELSE << >>

\* All blocks, and the places of their changes.
Blocks == file \o AtWork
Places(bs) == UNION {{<<k, i>> : i \in DOMAIN bs[k].entries} : k \in DOMAIN bs}
Change(bs, p) == bs[p[1]].entries[p[2]]
Before(p, q) == p[1] < q[1] \/ (p[1] = q[1] /\ p[2] < q[2])

Recorded == {Change(Blocks, p) : p \in Places(Blocks)}

\* The encoder writes times as unsigned deltas from the start of a block: no block, on file or
\* at work, holds a change before its start.  The blocks of a file give a signal's changes in
\* the order of time.
TimesInOrder ==
  \A p \in Places(Blocks) :
    /\ Blocks[p[1]].start <= Change(Blocks, p).time
    /\ \A q \in Places(Blocks) :
         Before(p, q) /\ Change(Blocks, p).sig = Change(Blocks, q).sig =>
           Change(Blocks, p).time <= Change(Blocks, q).time

\* Two records of a signal at one time in one block.
Repeats(p, q) ==
  /\ p # q /\ p[1] = q[1]
  /\ Change(Blocks, p).sig = Change(Blocks, q).sig
  /\ Change(Blocks, p).time = Change(Blocks, q).time

\* Only the callback repeats a record, at another synchronisation point of the time step: neither
\* does one callback, however often a signal changed before it, nor a snapshot, which writes
\* signals whose callback is still due into a block of its own.
RepeatedBySynch ==
  \A p, q \in Places(Blocks) : Repeats(p, q) =>
    /\ Change(Blocks, p).by # Change(Blocks, q).by
    /\ Change(Blocks, p).by # 0 /\ Change(Blocks, q).by # 0

\* A block holds a signal at most once a time ("Recording after each callback produces
\* duplicate timestamps and corrupt delta values in the encoded blocks.  Instead we use a
\* two-stage approach", trlog_vpi_value.c).
OncePerBlock == \A p, q \in Places(Blocks) : ~Repeats(p, q)

\* While dumping is on, what is recorded last of a signal that is not marked is its value:
\* no change is missed, whatever was paused, flushed or snapshot before.  (Values of one time
\* may be several, and qsort leaves their order open.  While no file was open, changes passed
\* unseen.)
LastRecorded ==
  open /\ ~paused /\ ~failed =>
    \A e \in Recorded : e.sig \in sigs \ marks =>
      \E f \in Recorded : f.sig = e.sig /\ f.value = value[e.sig] /\ e.time <= f.time

\* A marked signal is written later only if the callback is registered.
MarkedIsScheduled == marks # {} => scheduled

\* Changes at work stay below the flush interval.
BufferBounded == \A k \in DOMAIN AtWork : Len(AtWork[k].entries) < FlushInterval

\* Nothing recorded is lost by a flush, a snapshot, a pause or the end, until another file is
\* opened.
Kept == [][open /\ ~(\E ok \in BOOLEAN : DumpFile(ok)) => Recorded \subseteq Recorded']_vars

\* From $trlog_dumpoff or the dump limit to $trlog_dumpon nothing is recorded, changes marked
\* before included.
NothingWhilePaused ==
  [][open /\ paused /\ paused' /\ ~(\E ok \in BOOLEAN : DumpFile(ok)) => Recorded' = Recorded]_vars

-----------------------------------------------------------------------------
(* The inductive invariant *)

\* What is written of a signal at a time.
Changes == [sig : Signals, time : Nat, value : Values, by : Nat]

VpiTypeOK ==
  /\ now \in Nat /\ value \in [Signals -> Values] /\ synchs \in Nat
  /\ running \in {"elaborated", "running", "over"}
  /\ grouped \in BOOLEAN /\ open \in BOOLEAN /\ paused \in BOOLEAN /\ scheduled \in BOOLEAN
  /\ vcActive \in BOOLEAN /\ failed \in BOOLEAN
  /\ sigs \subseteq Signals /\ marks \subseteq sigs /\ limit \in Nat
  /\ vcStart \in Nat /\ count \in Nat
  /\ pending \in Seq(Changes)
  /\ block \in [start : Nat, entries : Seq(Changes)]
  /\ file \in Seq({file[k] : k \in DOMAIN file})
  /\ \A k \in DOMAIN file :
       /\ file[k].start \in Nat /\ DOMAIN file[k].entries \subseteq Nat
       /\ \A i \in DOMAIN file[k].entries :
            file[k].entries[i] \in Changes

\* Nothing recorded is younger than the present or the latest synchronisation point, nor does
\* the block at work begin later.
NoneAhead ==
  /\ \A e \in Recorded : e.time <= now /\ e.by <= synchs
  /\ \A k \in DOMAIN AtWork : AtWork[k].start <= now

\* What is at work was written by the callback.
AtWorkBySynch ==
  \A k \in DOMAIN AtWork : \A i \in DOMAIN AtWork[k].entries : AtWork[k].entries[i].by # 0

\* The last place of a signal holds a value: unlike times, places differ.
LastPlace(bs, s, v) ==
  \E p \in Places(bs) :
    /\ Change(bs, p).sig = s /\ Change(bs, p).value = v
    /\ \A q \in Places(bs) : Change(bs, q).sig = s => q = p \/ Before(q, p)

LastAtPlace ==
  open /\ ~paused /\ ~failed =>
    \A e \in Recorded : e.sig \in sigs \ marks => LastPlace(Blocks, e.sig, value[e.sig])

\* One of the two ways to hold what is at work is used, and count limits it.
AtWorkCounted ==
  /\ IF grouped THEN ~vcActive ELSE pending = << >>
  /\ count < FlushInterval /\ \A k \in DOMAIN AtWork : Len(AtWork[k].entries) <= count

\* Only registered signals are recorded, and nothing without a file but what is left of one.
RecordedOfSigs ==
  /\ running = "running" => \A e \in Recorded : e.sig \in sigs
  /\ running # "over" /\ ~open /\ ~failed => Recorded = {}
  /\ running = "elaborated" => marks = {} /\ Recorded = {}

VpiInv ==
  /\ VpiTypeOK /\ TimesInOrder /\ RepeatedBySynch /\ MarkedIsScheduled
  /\ NoneAhead /\ AtWorkBySynch /\ LastAtPlace /\ AtWorkCounted /\ RecordedOfSigs
=============================================================================
