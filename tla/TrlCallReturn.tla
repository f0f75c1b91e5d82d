---------------------------- MODULE TrlCallReturn ----------------------------
(***************************************************************************)
(* Call/return traces (ext/callreturn.py): the writer keeps the calls and   *)
(* returns it is told, and on close encodes them into one block; a call     *)
(* equal to a recent one is a reference into a window of recent calls, its  *)
(* arguments are differences to those of the function's call before.  The   *)
(* reader keeps a window and predictors of its own.                         *)
(*                                                                          *)
(* Strings have numbers here (the string table is TrlWriter's).  Raw calls  *)
(* go into an ordinary transaction block and are left out.                  *)
(***************************************************************************)
EXTENDS TrlCodecs, SequencesExt

CONSTANTS
  Signatures,    \* function id -> types of its arguments: "INT", "REAL", "STR"
  ArgValues, CallTimes,
  Returns,       \* what a call returns: numbers, or none
  WindowSize,    \* calls the window holds
  MaxEvents,
  NoReturn       \* stands for a return without a value

ASSUME CallAssumption ==
  /\ \A f \in DOMAIN Signatures : Signatures[f] \in Seq({"INT", "REAL", "STR"})
  /\ ArgValues \subseteq Int
  /\ CallTimes \subseteq Int
  /\ WindowSize \in Nat
  /\ MaxEvents \in Nat
  /\ Returns \subseteq Int

VARIABLES
  callEvents,   \* _events of the writer
  callCells,    \* the payload
  callMarks,    \* the writer's time, predictors and window before each event and after the last
  callCur,      \* cells the reader has read
  callState,    \* the reader's time, predictors and window
  callRead,     \* events it has read
  callPhase     \* "open", "encoding", "decoding", "refused" or "astray"

callVars == <<callEvents, callCells, callMarks, callCur, callState, callRead, callPhase>>

NoCalls == [time |-> 0, prev |-> << >>, window |-> << >>]

CallInit ==
  /\ callEvents = << >>
  /\ callCells = << >>
  /\ callMarks = <<NoCalls>>
  /\ callCur = 0
  /\ callState = NoCalls
  /\ callRead = << >>
  /\ callPhase = "open"

\* The arguments a function's next call is predicted to have.
Prev(state, func) ==
  IF func \in DOMAIN state.prev THEN state.prev[func]
  ELSE [i \in 1..Len(Signatures[func]) |-> 0]

SetPrev(prev, func, args) ==
  [f \in DOMAIN prev \cup {func} |-> IF f = func THEN args ELSE prev[f]]

\* Only integers are predicted; _encode_args and _decode_args keep the others' places.
NextPrev(state, func, args) ==
  SetPrev(state.prev, func,
    [i \in 1..Len(args) |-> IF Signatures[func][i] = "INT" THEN args[i]
                            ELSE Prev(state, func)[i]])

\* _window_push
Push(window, frame) ==
  IF Len(window) < WindowSize THEN Append(window, frame) ELSE Tail(Append(window, frame))

-----------------------------------------------------------------------------
(* The writer *)

\* enter: a call that fits a signature; exit: a return, of an open call or not.
Enter(func, args, time) ==
  /\ callPhase = "open"
  /\ Len(callEvents) < MaxEvents
  /\ callEvents' = Append(callEvents,
       [kind |-> "enter", func |-> func, args |-> args, time |-> time])
  /\ UNCHANGED <<callCells, callMarks, callCur, callState, callRead, callPhase>>

Exit(ret, time) ==
  /\ callPhase = "open"
  /\ Len(callEvents) < MaxEvents
  /\ callEvents' = Append(callEvents, [kind |-> "exit", time |-> time, ret |-> ret])
  /\ UNCHANGED <<callCells, callMarks, callCur, callState, callRead, callPhase>>

\* close: the writer is closed for good before the dependency on the signature
\* stream is declared, and that declaration may be refused.
CloseCalls ==
  /\ callPhase = "open"
  /\ callEvents # << >>
  /\ callPhase' \in {"encoding", "refused"}
  /\ UNCHANGED <<callEvents, callCells, callMarks, callCur, callState, callRead>>

\* _window_find: the distance from the end of the first equal call.
Hits(state, frame) == {p \in 1..Len(state.window) : state.window[p] = frame}
Distance(state, frame) == Len(state.window) - Min(Hits(state, frame))

\* _encode_args
ArgCells(state, func, args) ==
  [i \in 1..Len(args) |->
     CASE Signatures[func][i] = "INT" -> S(args[i] - Prev(state, func)[i])
       [] Signatures[func][i] = "REAL" -> F("REAL", args[i])
       [] Signatures[func][i] = "STR" -> U(args[i])]

\* What the writer emits for an event, and its state afterwards.  A call found in
\* the window: what is predicted next is what was referred to.
EncodeHit(state, ev) ==
  [cells |-> <<F("TAG", "hit"), U(Distance(state, <<ev.func, ev.args>>)),
               S(ev.time - state.time)>>,
   next |-> [state EXCEPT !.time = ev.time, !.prev = SetPrev(@, ev.func, ev.args)]]

EncodeCall(state, ev) ==
  [cells |-> <<F("TAG", "enter"), U(ev.func)>> \o ArgCells(state, ev.func, ev.args)
               \o <<S(ev.time - state.time)>>,
   next |-> [time |-> ev.time, prev |-> NextPrev(state, ev.func, ev.args),
             window |-> Push(state.window, <<ev.func, ev.args>>)]]

EncodeReturn(state, ev) ==
  [cells |-> IF ev.ret = NoReturn THEN <<F("TAG", "exit"), S(ev.time - state.time)>>
             ELSE <<F("TAG", "return"), S(ev.time - state.time), S(ev.ret)>>,
   next |-> [state EXCEPT !.time = ev.time]]

Encode(state, ev) ==
  CASE ev.kind = "exit" -> EncodeReturn(state, ev)
    [] ev.kind = "enter" /\ Hits(state, <<ev.func, ev.args>>) # {} -> EncodeHit(state, ev)
    [] ev.kind = "enter" /\ Hits(state, <<ev.func, ev.args>>) = {} -> EncodeCall(state, ev)

\* One turn of _encode_events.
EncodeEvent ==
  /\ callPhase = "encoding"
  /\ Len(callMarks) <= Len(callEvents)
  /\ LET e == Encode(callMarks[Len(callMarks)], callEvents[Len(callMarks)])
     IN  /\ callCells' = callCells \o e.cells
         /\ callMarks' = Append(callMarks, e.next)
  /\ UNCHANGED <<callEvents, callCur, callState, callRead, callPhase>>

\* CallReturnReader: signatures come from the stream the call stream depends on.
OpenCalls ==
  /\ callPhase = "encoding"
  /\ Len(callMarks) > Len(callEvents)
  /\ callPhase' = "decoding"
  /\ UNCHANGED <<callEvents, callCells, callMarks, callCur, callState, callRead>>

-----------------------------------------------------------------------------
(* The reader *)

\* The k-th number after the cursor.
CallCell(k) == callCells[callCur + k].val

Taken(n, ev, state) ==
  /\ callCur' = callCur + n
  /\ callRead' = Append(callRead, ev)
  /\ callState' = state
  /\ UNCHANGED callPhase

Astray == callPhase' = "astray" /\ UNCHANGED <<callCur, callState, callRead>>

\* Mutant of DecodeHit: the predictors stay what they were.
DecodeHitOnly ==
  IF Holds(callCells, callCur, <<"TAG", "u", "s">>) /\ CallCell(2) < Len(callState.window)
  THEN LET frame == callState.window[Len(callState.window) - CallCell(2)]
           time == callState.time + Unzigzag(CallCell(3))
       IN  Taken(3, [kind |-> "enter", func |-> frame[1], args |-> frame[2], time |-> time],
                 [callState EXCEPT !.time = time])
  ELSE Astray

DecodeHit ==
  IF Holds(callCells, callCur, <<"TAG", "u", "s">>) /\ CallCell(2) < Len(callState.window)
  THEN LET frame == callState.window[Len(callState.window) - CallCell(2)]
           time == callState.time + Unzigzag(CallCell(3))
       IN  Taken(3, [kind |-> "enter", func |-> frame[1], args |-> frame[2], time |-> time],
                 [callState EXCEPT !.time = time, !.prev = SetPrev(@, frame[1], frame[2])])
  ELSE Astray

ArgFormats(func) ==
  [i \in 1..Len(Signatures[func]) |->
     CASE Signatures[func][i] = "INT" -> "s"
       [] Signatures[func][i] = "REAL" -> "REAL"
       [] Signatures[func][i] = "STR" -> "u"]

\* _decode_args: the arguments after cell c.
ReadArgs(func, c) ==
  [i \in 1..Len(Signatures[func]) |->
     IF Signatures[func][i] = "INT"
     THEN Prev(callState, func)[i] + Unzigzag(callCells[c + i].val)
     ELSE callCells[c + i].val]

DecodeCall ==
  LET func == CallCell(2)
      n == Len(Signatures[func]) + 3
      args == ReadArgs(func, callCur + 2)
      time == callState.time + Unzigzag(CallCell(n))
  IN  IF /\ Holds(callCells, callCur, <<"TAG", "u">>)
         /\ func \in DOMAIN Signatures
         /\ Holds(callCells, callCur + 2, ArgFormats(func) \o <<"s">>)
      THEN Taken(n, [kind |-> "enter", func |-> func, args |-> args, time |-> time],
                 [time |-> time, prev |-> NextPrev(callState, func, args),
                  window |-> Push(callState.window, <<func, args>>)])
      ELSE Astray

DecodeReturn(with) ==
  LET time == callState.time + Unzigzag(CallCell(2))
      fmts == IF with THEN <<"TAG", "s", "s">> ELSE <<"TAG", "s">>
  IN  IF Holds(callCells, callCur, fmts)
      THEN Taken(Len(fmts),
                 [kind |-> "exit", time |-> time,
                  ret |-> IF with THEN Unzigzag(CallCell(3)) ELSE NoReturn],
                 [callState EXCEPT !.time = time])
      ELSE Astray

\* One turn of _decode_block, which runs as often as events were written.
DecodeEvent ==
  /\ callPhase = "decoding"
  /\ Len(callRead) < Len(callEvents)
  /\ IF ~Holds(callCells, callCur, <<"TAG">>) THEN Astray
     ELSE \/ CallCell(1) = "hit" /\ DecodeHit
          \/ CallCell(1) = "enter" /\ DecodeCall
          \/ CallCell(1) = "exit" /\ DecodeReturn(FALSE)
          \/ CallCell(1) = "return" /\ DecodeReturn(TRUE)
  /\ UNCHANGED <<callEvents, callCells, callMarks>>

\* Mutant of DepthStep: a return that ends no call goes one up all the same.
DepthStepBelow(ds, ev) ==
  LET depth == IF ds = << >> THEN 0 ELSE ds[Len(ds)].next
  IN  Append(ds, IF ev.kind = "enter" THEN [depth |-> depth, next |-> depth + 1]
                 ELSE [depth |-> depth - 1, next |-> depth - 1])

\* events(): the depth of each event, in order.
DepthStep(ds, ev) ==
  LET depth == IF ds = << >> THEN 0 ELSE ds[Len(ds)].next
      up == IF depth > 0 THEN depth - 1 ELSE 0
  IN  Append(ds, IF ev.kind = "enter" THEN [depth |-> depth, next |-> depth + 1]
                 ELSE [depth |-> up, next |-> up])

Depths(events) == FoldLeft(DepthStep, << >>, events)

\* call_tree(): calls are pushed on a stack and popped by returns.  For an event
\* that is a call: the event of the call it is a child of, and of its return.
NoTree == [parent |-> << >>, end |-> << >>, stack |-> << >>]

CallStep(t, ev) ==
  LET i == Len(t.parent) + 1
      n == Len(t.stack)
      top == IF n = 0 THEN 0 ELSE t.stack[n]
  IN  IF ev.kind = "enter"
      THEN [parent |-> Append(t.parent, top), end |-> Append(t.end, 0),
            stack |-> Append(t.stack, i)]
      ELSE [parent |-> Append(t.parent, 0),
            end |-> Append(IF n = 0 THEN t.end ELSE [t.end EXCEPT ![top] = i], 0),
            stack |-> SubSeq(t.stack, 1, n - 1)]

CallTree(events) == FoldLeft(CallStep, NoTree, events)

-----------------------------------------------------------------------------
CallNext ==
  \/ \E func \in DOMAIN Signatures, time \in CallTimes :
       \E args \in [1..Len(Signatures[func]) -> ArgValues] : Enter(func, args, time)
  \/ \E ret \in Returns, time \in CallTimes : Exit(ret, time)
  \/ CloseCalls \/ EncodeEvent \/ OpenCalls \/ DecodeEvent

CallSpec == CallInit /\ [][CallNext]_callVars

-----------------------------------------------------------------------------
(* Properties *)

\* Every difference the writer made fits a signed word.
CallsRepresentable ==
  \A k \in 1..(Len(callMarks) - 1) :
    LET ev == callEvents[k] IN
    /\ Signed(ev.time - callMarks[k].time)
    /\ ev.kind = "enter" => \A i \in 1..Len(ev.args) :
         Signatures[ev.func][i] = "INT" => Signed(ev.args[i] - Prev(callMarks[k], ev.func)[i])
    /\ ev.kind = "exit" /\ ev.ret # NoReturn => Signed(ev.ret)

\* Writer and reader stay in step: after any number of events the reader has
\* read what was recorded, and its time, predictors and window are those the
\* writer had there, so that the next reference means the same call to both.
CallsInStep ==
  CallsRepresentable =>
    /\ callPhase # "astray"
    /\ callRead = SubSeq(callEvents, 1, Len(callRead))
    /\ callPhase = "decoding" => callState = callMarks[Len(callRead) + 1]

\* Calls less returns from event i to event k.
Kinds(evs, i, k, kind) == Cardinality({j \in i..k : evs[j].kind = kind})
Balance(evs, i, k) == Kinds(evs, i, k, "enter") - Kinds(evs, i, k, "exit")

\* The return of the call of event i, if any: at which as many have come as calls since.
Closing(evs, i) == {k \in i..Len(evs) : Balance(evs, i, k) = 0}
ReturnOf(evs, i) == IF Closing(evs, i) = {} THEN 0 ELSE Min(Closing(evs, i))

\* The calls that have not returned at event i.
Around(evs, i) == {j \in 1..(i - 1) : /\ evs[j].kind = "enter"
                                      /\ ReturnOf(evs, j) = 0 \/ ReturnOf(evs, j) > i}

\* The call tree the reader makes of all events nests as the calls did: a call's
\* return is the first event at which as many returns as calls have come since,
\* its parent the last call before it that has not returned by then, and its
\* depth the number of calls around it.  Returns that end no call change nothing.
TreeNests ==
  LET evs == callEvents
      tree == CallTree(callRead)
  IN  Len(callRead) = Len(evs) => \A i \in 1..Len(evs) : evs[i].kind = "enter" =>
        /\ tree.end[i] = ReturnOf(evs, i)
        /\ tree.parent[i] = IF Around(evs, i) = {} THEN 0 ELSE Max(Around(evs, i))
        /\ Depths(callRead)[i].depth = Cardinality(Around(evs, i))

-----------------------------------------------------------------------------
(* The inductive invariant *)

\* A call of func fits its signature.
ArgsOf(func) == [1..Len(Signatures[func]) -> Int]

EventOK(ev) ==
  \/ /\ ev.kind = "enter"
     /\ ev = [kind |-> "enter", func |-> ev.func, args |-> ev.args, time |-> ev.time]
     /\ ev.func \in DOMAIN Signatures /\ ev.args \in ArgsOf(ev.func) /\ ev.time \in Int
  \/ /\ ev.kind = "exit"
     /\ ev = [kind |-> "exit", time |-> ev.time, ret |-> ev.ret]
     /\ ev.time \in Int /\ ev.ret \in Int

StateOK(state) ==
  /\ state = [time |-> state.time, prev |-> state.prev, window |-> state.window]
  /\ state.time \in Int
  /\ DOMAIN state.prev \subseteq DOMAIN Signatures
  /\ \A f \in DOMAIN state.prev : state.prev[f] \in ArgsOf(f)
  /\ state.window \in Seq({state.window[p] : p \in DOMAIN state.window})
  /\ \A p \in DOMAIN state.window :
       /\ state.window[p] = <<state.window[p][1], state.window[p][2]>>
       /\ state.window[p][1] \in DOMAIN Signatures
       /\ state.window[p][2] \in ArgsOf(state.window[p][1])

CallTypeOK ==
  /\ callEvents \in Seq({callEvents[k] : k \in DOMAIN callEvents})
  /\ \A k \in DOMAIN callEvents : EventOK(callEvents[k])
  /\ callMarks \in Seq({callMarks[k] : k \in DOMAIN callMarks})
  /\ \A k \in DOMAIN callMarks : StateOK(callMarks[k])
  /\ Len(callCells) \in Nat /\ callCells = [k \in 1..Len(callCells) |-> callCells[k]]
  /\ callRead \in Seq({callRead[k] : k \in DOMAIN callRead})
  /\ callPhase \in {"open", "encoding", "decoding", "refused", "astray"}

\* How far each phase has come.
CallProgress ==
  /\ Len(callMarks) \in 1..(Len(callEvents) + 1)
  /\ callPhase = "open" => Len(callMarks) = 1
  /\ callPhase \in {"open", "encoding", "refused"} =>
       callCur = 0 /\ callRead = << >> /\ callState = NoCalls
  /\ callPhase \in {"decoding", "astray"} => Len(callMarks) = Len(callEvents) + 1

\* The payload is the cells of the events in order: those of event k begin after
\* cell at[k], encoded in the state before it, and the reader is where it should be.
CellsAt(at, k) ==
  LET e == Encode(callMarks[k], callEvents[k])
  IN  /\ callMarks[k + 1] = e.next
      /\ at[k + 1] = at[k] + Len(e.cells)
      /\ \A i \in 1..Len(e.cells) : callCells[at[k] + i] = e.cells[i]

CellsInOrder ==
  \E at \in [1..Len(callMarks) -> 0..Len(callCells)] :
    /\ at[1] = 0 /\ at[Len(callMarks)] = Len(callCells)
    /\ \A k \in 1..(Len(callMarks) - 1) : CellsAt(at, k)
    /\ callPhase = "decoding" => callCur = at[Len(callRead) + 1]

\* A state whose window has a length, whatever it holds.
Windowed(state) ==
  /\ state = [time |-> state.time, prev |-> state.prev, window |-> state.window]
  /\ Len(state.window) \in Nat
  /\ state.window = [p \in 1..Len(state.window) |-> state.window[p]]

\* Whatever the values, the reader finds the kinds of the events, and its window is as
\* long as the writer's: a reference always has a call to refer to.
KindsInStep ==
  /\ callPhase # "astray"
  /\ Len(callRead) <= Len(callEvents)
  /\ \A k \in 1..Len(callRead) : callRead[k].kind = callEvents[k].kind
  /\ Windowed(callState)
  /\ callPhase = "decoding" =>
       Len(callState.window) = Len(callMarks[Len(callRead) + 1].window)

CallInv ==
  /\ CallTypeOK /\ CallProgress /\ CellsInOrder /\ KindsInStep
  /\ CallsInStep /\ callMarks[1] = NoCalls
=============================================================================
