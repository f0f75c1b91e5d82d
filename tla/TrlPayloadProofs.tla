--------------------------- MODULE TrlPayloadProofs ---------------------------
(***************************************************************************)
(* Proofs about payloads, for every value of the constants: that the reader *)
(* of a call/return trace stays in step with its writer and that the tree   *)
(* it makes nests as the calls did (TrlCallReturn), and that the records of *)
(* a transaction block in rows are read back as they were added            *)
(* (TrlTxnData).                                                            *)
(***************************************************************************)
EXTENDS TrlCallReturn, TrlTxnData, TrlLemmas

\* The folds that make the tree and the depths.
TreeFold == INSTANCE TrlFolds WITH Step <- CallStep, Base <- NoTree
DepthFold == INSTANCE TrlFolds WITH Step <- DepthStep, Base <- << >>

-----------------------------------------------------------------------------
(* Numbers *)

\* Within a word the signed code loses nothing.
LEMMA UnzigzagZigzag == \A n \in Int : Signed(n) => Unzigzag(Zigzag(n)) = n
<1> SUFFICES ASSUME NEW n \in Int, Signed(n) PROVE Unzigzag(Zigzag(n)) = n
  OBVIOUS
<1> USE CodecsAssumption DEF Signed
<1>1. CASE n >= 0
  <2>1. n \div Half = 0
    BY <1>1
  <2>2. (2 * n) % (2 * Half) = 2 * n
    BY <1>1
  <2>3. Zigzag(n) = 2 * n
    BY <1>1, <2>1, <2>2 DEF Zigzag
  <2> QED
    BY <2>3 DEF Unzigzag
<1>2. CASE n < 0
  <2>1. n \div Half = -1
    BY <1>2
  <2>2. (-1 - 2 * n) % (2 * Half) = -1 - 2 * n
    BY <1>2
  <2>3. Zigzag(n) = -1 - 2 * n
    BY <1>2, <2>1, <2>2 DEF Zigzag
  <2> QED
    BY <2>3 DEF Unzigzag
<1> QED
  BY <1>1, <1>2

-----------------------------------------------------------------------------
(* What is emitted for an event *)

\* Cells s are the next the reader comes to.
Ahead(s) ==
  /\ callCur \in Nat /\ callCur + Len(s) <= Len(callCells)
  /\ \A i \in 1..Len(s) : callCells[callCur + i] = s[i]

\* The differences of an event to the state before it fit a word.
EventFits(state, ev) ==
  /\ Signed(ev.time - state.time)
  /\ ev.kind = "enter" => \A i \in 1..Len(ev.args) :
       Signatures[ev.func][i] = "INT" => Signed(ev.args[i] - Prev(state, ev.func)[i])
  /\ ev.kind = "exit" /\ ev.ret # NoReturn => Signed(ev.ret)

\* A signature has a number of arguments, each of one of three types.
LEMMA SignatureTyped ==
  \A f \in DOMAIN Signatures :
    /\ Len(Signatures[f]) \in Nat
    /\ \A i \in 1..Len(Signatures[f]) : Signatures[f][i] \in {"INT", "REAL", "STR"}
BY CallAssumption

\* A call found in the window is referred to by its distance from the end.
LEMMA HitFound ==
  ASSUME NEW state, StateOK(state), NEW frame, Hits(state, frame) # {}
  PROVE  /\ Len(state.window) \in Nat
         /\ Distance(state, frame) \in Nat /\ Distance(state, frame) < Len(state.window)
         /\ state.window[Len(state.window) - Distance(state, frame)] = frame
<1> DEFINE H == Hits(state, frame)
<1>1. Len(state.window) \in Nat
  BY DEF StateOK
<1>2. H \in SUBSET Nat /\ H # {}
  BY <1>1 DEF Hits
<1>3. \E n \in H : \A m \in H : n <= m
  <2> HIDE DEF H
  <2> QED
    BY <1>2, LeastNumber
<1>4. Min(H) \in H
  BY <1>3 DEF Min
<1>5. Min(H) \in 1..Len(state.window) /\ state.window[Min(H)] = frame
  BY <1>4 DEF Hits
<1>6. Distance(state, frame) = Len(state.window) - Min(H)
  BY DEF Distance
<1> HIDE DEF H
<1> QED
  BY <1>1, <1>5, <1>6

\* What is predicted for a call are numbers.
LEMMA PrevTyped ==
  ASSUME NEW state, StateOK(state), NEW f \in DOMAIN Signatures
  PROVE  Prev(state, f) \in ArgsOf(f)
BY SignatureTyped DEF Prev, StateOK, ArgsOf

\* To set what is predicted for one function keeps the others' predictions.
LEMMA SetPrevTyped ==
  ASSUME NEW state, StateOK(state), NEW f \in DOMAIN Signatures, NEW args \in ArgsOf(f)
  PROVE  /\ DOMAIN SetPrev(state.prev, f, args) \subseteq DOMAIN Signatures
         /\ \A g \in DOMAIN SetPrev(state.prev, f, args) :
              SetPrev(state.prev, f, args)[g] \in ArgsOf(g)
BY DEF SetPrev, StateOK

\* The window after a push holds calls.
LEMMA PushTyped ==
  ASSUME NEW state, StateOK(state), NEW f \in DOMAIN Signatures, NEW args \in ArgsOf(f),
         NEW w, w = Push(state.window, <<f, args>>)
  PROVE  /\ w \in Seq({w[p] : p \in DOMAIN w})
         /\ \A p \in DOMAIN w : /\ w[p] = <<w[p][1], w[p][2]>>
                                /\ w[p][1] \in DOMAIN Signatures
                                /\ w[p][2] \in ArgsOf(w[p][1])
<1> DEFINE v == state.window
           frame == <<f, args>>
           vs == {v[p] : p \in DOMAIN v}
<1>1. v \in Seq(vs) /\ Len(v) \in Nat
  BY DEF StateOK
<1>2. \A p \in DOMAIN v : /\ v[p] = <<v[p][1], v[p][2]>>
                          /\ v[p][1] \in DOMAIN Signatures
                          /\ v[p][2] \in ArgsOf(v[p][1])
  BY DEF StateOK
<1>3. /\ frame = <<frame[1], frame[2]>> /\ frame[1] \in DOMAIN Signatures
      /\ frame[2] \in ArgsOf(frame[1])
  OBVIOUS
<1> DEFINE a == Append(v, frame)
<1> HIDE DEF v, frame
<1>4. /\ a \in Seq(vs \cup {frame}) /\ Len(a) = Len(v) + 1
      /\ \A p \in 1..Len(v) + 1 : a[p] = IF p = Len(v) + 1 THEN frame ELSE v[p]
  <2> HIDE DEF vs
  <2> QED
    BY <1>1
<1>5. /\ Tail(a) \in Seq(vs \cup {frame}) /\ Len(Tail(a)) = Len(v)
      /\ \A p \in 1..Len(v) : Tail(a)[p] = a[p + 1]
  <2> HIDE DEF vs, a
  <2> QED
    BY <1>1, <1>4
<1>6. w = a \/ w = Tail(a)
  BY DEF Push, v, frame
<1> HIDE DEF vs, a
<1>7. w \in Seq(vs \cup {frame})
  BY <1>4, <1>5, <1>6
<1>8. \A p \in DOMAIN w : w[p] = frame \/ \E q \in DOMAIN v : w[p] = v[q]
  <2>1. DOMAIN v = 1..Len(v)
    BY <1>1
  <2>2. \A p \in 1..Len(v) + 1 : a[p] = frame \/ \E q \in DOMAIN v : a[p] = v[q]
    <3> TAKE p \in 1..Len(v) + 1
    <3>1. CASE p = Len(v) + 1
      BY <3>1, <1>4
    <3>2. CASE p # Len(v) + 1
      <4>1. p \in DOMAIN v /\ a[p] = v[p]
        BY <3>2, <2>1, <1>1, <1>4
      <4> QED
        BY <4>1
    <3> QED
      BY <3>1, <3>2
  <2>3. CASE w = a
    BY <2>2, <2>3, <1>4
  <2>4. CASE w = Tail(a)
    <3> TAKE p \in DOMAIN w
    <3>1. \A q \in 1..Len(v) : Tail(a)[q] = a[q + 1] /\ q + 1 \in 1..Len(v) + 1
      BY <1>1, <1>5
    <3>2. DOMAIN Tail(a) = 1..Len(v)
      BY <1>5
    <3>3. p \in 1..Len(v)
      BY <2>4, <3>2
    <3>4. w[p] = a[p + 1] /\ p + 1 \in 1..Len(v) + 1
      BY <3>1, <3>3, <2>4
    <3> QED
      BY <3>4, <2>2
  <2> QED
    BY <2>3, <2>4, <1>6
<1>9. w \in Seq({w[p] : p \in DOMAIN w})
  BY <1>7, SeqOfElements
<1> QED
  BY <1>2, <1>3, <1>8, <1>9

\* The cells of the arguments of a call.
LEMMA ArgCellsTyped ==
  ASSUME NEW state, NEW ev, EventOK(ev), ev.kind = "enter",
         NEW q, q = ArgCells(state, ev.func, ev.args)
  PROVE  IsSequence(q) /\ Len(q) = Len(Signatures[ev.func])
<1>1. ev.func \in DOMAIN Signatures /\ ev.args \in ArgsOf(ev.func)
  BY DEF EventOK
<1>2. Len(ev.args) = Len(Signatures[ev.func]) /\ Len(ev.args) \in Nat
  BY <1>1, SignatureTyped DEF ArgsOf
<1> DEFINE cell(i) == CASE Signatures[ev.func][i] = "INT" ->
                             S(ev.args[i] - Prev(state, ev.func)[i])
                        [] Signatures[ev.func][i] = "REAL" -> F("REAL", ev.args[i])
                        [] Signatures[ev.func][i] = "STR" -> U(ev.args[i])
<1>3. q = [i \in 1..Len(ev.args) |-> cell(i)]
  BY DEF ArgCells
<1> HIDE DEF cell
<1>4. q = [i \in 1..Len(ev.args) |-> q[i]]
  BY <1>3
<1>5. Len(q) = Len(ev.args)
  BY <1>2, <1>4
<1> QED
  BY <1>2, <1>4, <1>5 DEF IsSequence

\* The cells of a call, one by one.
LEMMA CallCells ==
  ASSUME NEW state, NEW ev, EventOK(ev), ev.kind = "enter",
         NEW q, q = ArgCells(state, ev.func, ev.args),
         NEW s, s = EncodeCall(state, ev).cells
  PROVE  /\ Len(q) = Len(Signatures[ev.func]) /\ Len(s) = Len(q) + 3
         /\ s[1] = F("TAG", "enter") /\ s[2] = U(ev.func)
         /\ \A i \in 1..Len(q) : s[2 + i] = q[i]
         /\ s[Len(q) + 3] = S(ev.time - state.time)
         /\ IsSequence(s)
<1>1. IsSequence(q) /\ Len(q) = Len(Signatures[ev.func])
  BY ArgCellsTyped
<1>2. s = <<F("TAG", "enter"), U(ev.func)>> \o q \o <<S(ev.time - state.time)>>
  BY DEF EncodeCall
<1> DEFINE R == {q[i] : i \in DOMAIN q}
           x == F("TAG", "enter")
           y == U(ev.func)
           z == S(ev.time - state.time)
<1>3. q \in Seq(R)
  BY <1>1 DEF IsSequence
<1> HIDE DEF R, x, y, z
<1>4. s = <<x, y>> \o q \o <<z>>
  BY <1>2 DEF x, y, z
<1>5. /\ Len(s) = Len(q) + 3 /\ s \in Seq(R \cup {x, y, z})
      /\ s[1] = x /\ s[2] = y /\ s[Len(q) + 3] = z
      /\ \A i \in 1..Len(q) : s[2 + i] = q[i]
  BY <1>3, <1>4, SetBetween
<1>6. IsSequence(s)
  BY <1>5 DEF IsSequence
<1> QED
  BY <1>1, <1>5, <1>6 DEF x, y, z

\* Whatever the event: its cells are some, and the state after it is one.
LEMMA EncodeTyped ==
  ASSUME NEW state, StateOK(state), NEW ev, EventOK(ev), NEW e, e = Encode(state, ev)
  PROVE  StateOK(e.next) /\ IsSequence(e.cells)
<1>1. CASE ev.kind = "exit"
  <2>1. ev.time \in Int
    BY <1>1 DEF EventOK
  <2>2. e = EncodeReturn(state, ev)
    BY <1>1 DEF Encode
  <2>3. /\ e.next.time = ev.time /\ e.next.prev = state.prev /\ e.next.window = state.window
        /\ e.next = [time |-> e.next.time, prev |-> e.next.prev, window |-> e.next.window]
    BY <2>2 DEF EncodeReturn, StateOK
  <2>4. StateOK(e.next)
    BY <2>1, <2>3 DEF StateOK
  <2> QED
    BY <2>2, <2>4 DEF EncodeReturn, IsSequence
<1>2. CASE ev.kind = "enter" /\ Hits(state, <<ev.func, ev.args>>) # {}
  <2>1. ev.time \in Int /\ ev.func \in DOMAIN Signatures /\ ev.args \in ArgsOf(ev.func)
    BY <1>2 DEF EventOK
  <2>2. e = EncodeHit(state, ev)
    BY <1>2 DEF Encode
  <2>3. /\ e.next.time = ev.time /\ e.next.prev = SetPrev(state.prev, ev.func, ev.args)
        /\ e.next.window = state.window
        /\ e.next = [time |-> e.next.time, prev |-> e.next.prev, window |-> e.next.window]
    <3> DEFINE new == SetPrev(state.prev, ev.func, ev.args)
    <3>1. state = [time |-> state.time, prev |-> state.prev, window |-> state.window]
      BY DEF StateOK
    <3>2. e.next = [state EXCEPT !.time = ev.time, !.prev = new]
      BY <2>2 DEF EncodeHit
    <3> HIDE DEF new
    <3>3. e.next = [time |-> ev.time, prev |-> new, window |-> state.window]
      BY <3>1, <3>2
    <3> QED
      BY <3>3 DEF new
  <2>4. /\ DOMAIN e.next.prev \subseteq DOMAIN Signatures
        /\ \A g \in DOMAIN e.next.prev : e.next.prev[g] \in ArgsOf(g)
    BY <2>1, <2>3, SetPrevTyped
  <2>5. StateOK(e.next)
    BY <2>1, <2>3, <2>4 DEF StateOK
  <2> QED
    BY <2>2, <2>5 DEF EncodeHit, IsSequence
<1>3. CASE ev.kind = "enter" /\ Hits(state, <<ev.func, ev.args>>) = {}
  <2>1. ev.time \in Int /\ ev.func \in DOMAIN Signatures /\ ev.args \in ArgsOf(ev.func)
    BY <1>3 DEF EventOK
  <2>2. e = EncodeCall(state, ev)
    BY <1>3 DEF Encode
  <2> DEFINE p == NextPrev(state, ev.func, ev.args)
             w == Push(state.window, <<ev.func, ev.args>>)
             new == [i \in 1..Len(ev.args) |->
                       IF Signatures[ev.func][i] = "INT" THEN ev.args[i]
                       ELSE Prev(state, ev.func)[i]]
  <2>3. e.next = [time |-> ev.time, prev |-> p, window |-> w]
    BY <2>2 DEF EncodeCall
  <2>4. new \in ArgsOf(ev.func)
    <3>1. Prev(state, ev.func) \in ArgsOf(ev.func)
      BY <2>1, PrevTyped
    <3> QED
      BY <2>1, <3>1, SignatureTyped DEF ArgsOf
  <2>5. DOMAIN p \subseteq DOMAIN Signatures /\ \A g \in DOMAIN p : p[g] \in ArgsOf(g)
    <3> HIDE DEF new
    <3>1. p = SetPrev(state.prev, ev.func, new)
      BY DEF NextPrev, new
    <3> HIDE DEF p
    <3> QED
      BY <2>1, <2>4, <3>1, SetPrevTyped
  <2>6. /\ w \in Seq({w[i] : i \in DOMAIN w})
        /\ \A i \in DOMAIN w : /\ w[i] = <<w[i][1], w[i][2]>>
                               /\ w[i][1] \in DOMAIN Signatures
                               /\ w[i][2] \in ArgsOf(w[i][1])
    <3> HIDE DEF w
    <3> QED
      BY <2>1, PushTyped DEF w
  <2>7. StateOK(e.next)
    <3> HIDE DEF p, w
    <3> QED
      BY <2>1, <2>3, <2>5, <2>6 DEF StateOK
  <2>8. IsSequence(e.cells)
    BY <1>3, <2>2, CallCells
  <2> QED
    BY <2>7, <2>8
<1> QED
  BY <1>1, <1>2, <1>3 DEF EventOK

-----------------------------------------------------------------------------
(* The reader at the cells of an event *)

\* A reader at a tag goes by it.
LEMMA ReadsTag ==
  ASSUME DecodeEvent, callCur \in Nat, callCur + 1 <= Len(callCells),
         callCells[callCur + 1].fmt = "TAG"
  PROVE  \/ CallCell(1) = "hit" /\ DecodeHit
         \/ CallCell(1) = "enter" /\ DecodeCall
         \/ CallCell(1) = "exit" /\ DecodeReturn(FALSE)
         \/ CallCell(1) = "return" /\ DecodeReturn(TRUE)
<1>1. Holds(callCells, callCur, <<"TAG">>)
  BY DEF Holds
<1> QED
  BY <1>1 DEF DecodeEvent

\* A reader at the cells of a reference, in the writer's state, reads the call.
LEMMA ReadsHit ==
  ASSUME NEW state, StateOK(state), NEW ev, EventOK(ev), EventFits(state, ev),
         ev.kind = "enter", Hits(state, <<ev.func, ev.args>>) # {},
         NEW e, e = EncodeHit(state, ev), Ahead(e.cells), callState = state, DecodeEvent
  PROVE  Taken(Len(e.cells), ev, e.next)
<1> DEFINE frame == <<ev.func, ev.args>>
           d == Distance(state, frame)
<1>1. /\ ev = [kind |-> "enter", func |-> ev.func, args |-> ev.args, time |-> ev.time]
      /\ ev.time \in Int /\ state.time \in Int
  BY DEF EventOK, StateOK
<1>2. /\ Len(state.window) \in Nat /\ d \in Nat /\ d < Len(state.window)
      /\ state.window[Len(state.window) - d] = frame
  <2> HIDE DEF d
  <2> QED
    BY HitFound DEF d
<1>3. Unzigzag(Zigzag(ev.time - state.time)) = ev.time - state.time
  BY <1>1, UnzigzagZigzag DEF EventFits
<1> HIDE DEF d
<1>4. e.cells = <<F("TAG", "hit"), U(d), S(ev.time - state.time)>>
  BY DEF EncodeHit, d
<1>5. /\ Len(e.cells) = 3 /\ callCur + 3 <= Len(callCells)
      /\ CallCell(1) = "hit" /\ callCells[callCur + 1].fmt = "TAG"
      /\ CallCell(2) = d /\ callCells[callCur + 2].fmt = "u"
      /\ CallCell(3) = Zigzag(ev.time - state.time) /\ callCells[callCur + 3].fmt = "s"
  BY <1>4 DEF Ahead, CallCell, F, U, S
<1>6. DecodeHit
  <2>1. callCur \in Nat /\ callCur + 1 <= Len(callCells)
    BY <1>5 DEF Ahead
  <2> QED
    BY <1>5, <2>1, ReadsTag
<1>7. Holds(callCells, callCur, <<"TAG", "u", "s">>)
  BY <1>5 DEF Holds
<1>8. callState.time + Unzigzag(CallCell(3)) = ev.time
  BY <1>1, <1>3, <1>5
<1>9. e.next = [callState EXCEPT !.time = ev.time, !.prev = SetPrev(@, ev.func, ev.args)]
  BY DEF EncodeHit
<1> DEFINE fr == callState.window[Len(callState.window) - CallCell(2)]
           t == callState.time + Unzigzag(CallCell(3))
<1>10. fr[1] = ev.func /\ fr[2] = ev.args
  BY <1>2, <1>5
<1>11. CallCell(2) < Len(callState.window)
  BY <1>2, <1>5
<1>12. Taken(3, [kind |-> "enter", func |-> fr[1], args |-> fr[2], time |-> t],
             [callState EXCEPT !.time = t, !.prev = SetPrev(@, fr[1], fr[2])])
  BY <1>6, <1>7, <1>11 DEF DecodeHit
<1>13. t = ev.time
  BY <1>8
<1> HIDE DEF fr, t
<1> QED
  BY <1>1, <1>5, <1>9, <1>10, <1>12, <1>13

\* A reader at the cells of a return reads it.
LEMMA ReadsReturn ==
  ASSUME NEW state, StateOK(state), NEW ev, EventOK(ev), EventFits(state, ev),
         ev.kind = "exit",
         NEW e, e = EncodeReturn(state, ev), Ahead(e.cells), callState = state, DecodeEvent
  PROVE  Taken(Len(e.cells), ev, e.next)
<1>1. /\ ev = [kind |-> "exit", time |-> ev.time, ret |-> ev.ret]
      /\ ev.time \in Int /\ state.time \in Int /\ ev.ret \in Int
  BY DEF EventOK, StateOK
<1>2. Unzigzag(Zigzag(ev.time - state.time)) = ev.time - state.time
  BY <1>1, UnzigzagZigzag DEF EventFits
<1>3. e.next = [callState EXCEPT !.time = ev.time]
  BY DEF EncodeReturn
<1>4. CASE ev.ret = NoReturn
  <2>1. e.cells = <<F("TAG", "exit"), S(ev.time - state.time)>>
    BY <1>4 DEF EncodeReturn
  <2>2. /\ Len(e.cells) = 2 /\ callCur + 2 <= Len(callCells)
        /\ CallCell(1) = "exit" /\ callCells[callCur + 1].fmt = "TAG"
        /\ CallCell(2) = Zigzag(ev.time - state.time) /\ callCells[callCur + 2].fmt = "s"
    BY <2>1 DEF Ahead, CallCell, F, U, S
  <2>3. DecodeReturn(FALSE)
    <3>1. callCur \in Nat /\ callCur + 1 <= Len(callCells)
      BY <2>2 DEF Ahead
    <3> QED
      BY <2>2, <3>1, ReadsTag
  <2>4. Holds(callCells, callCur, <<"TAG", "s">>)
    BY <2>2 DEF Holds
  <2>5. callState.time + Unzigzag(CallCell(2)) = ev.time
    BY <1>1, <1>2, <2>2
  <2> QED
    BY <1>1, <1>3, <1>4, <2>2, <2>3, <2>4, <2>5 DEF DecodeReturn
<1>5. CASE ev.ret # NoReturn
  <2>1. e.cells = <<F("TAG", "return"), S(ev.time - state.time), S(ev.ret)>>
    BY <1>5 DEF EncodeReturn
  <2>2. /\ Len(e.cells) = 3 /\ callCur + 3 <= Len(callCells)
        /\ CallCell(1) = "return" /\ callCells[callCur + 1].fmt = "TAG"
        /\ CallCell(2) = Zigzag(ev.time - state.time) /\ callCells[callCur + 2].fmt = "s"
        /\ CallCell(3) = Zigzag(ev.ret) /\ callCells[callCur + 3].fmt = "s"
    BY <2>1 DEF Ahead, CallCell, F, U, S
  <2>3. DecodeReturn(TRUE)
    <3>1. callCur \in Nat /\ callCur + 1 <= Len(callCells)
      BY <2>2 DEF Ahead
    <3> QED
      BY <2>2, <3>1, ReadsTag
  <2>4. Holds(callCells, callCur, <<"TAG", "s", "s">>)
    BY <2>2 DEF Holds
  <2>5. callState.time + Unzigzag(CallCell(2)) = ev.time
    BY <1>1, <1>2, <2>2
  <2>6. Unzigzag(CallCell(3)) = ev.ret
    BY <1>1, <1>5, <2>2, UnzigzagZigzag DEF EventFits
  <2> QED
    BY <1>1, <1>3, <2>2, <2>3, <2>4, <2>5, <2>6 DEF DecodeReturn
<1> QED
  BY <1>4, <1>5

\* A reader in the writer's state reads the arguments that were written.
LEMMA ReadsArgs ==
  ASSUME NEW ev, EventOK(ev), ev.kind = "enter", StateOK(callState), EventFits(callState, ev),
         NEW q, q = ArgCells(callState, ev.func, ev.args),
         \A i \in 1..Len(q) : callCells[callCur + 2 + i] = q[i]
  PROVE  /\ ReadArgs(ev.func, callCur + 2) = ev.args
         /\ \A i \in 1..Len(q) : callCells[callCur + 2 + i].fmt = ArgFormats(ev.func)[i]
<1> DEFINE sig == Signatures[ev.func]
           prev == Prev(callState, ev.func)
<1>1. /\ ev.func \in DOMAIN Signatures /\ Len(sig) \in Nat
      /\ ev.args \in [1..Len(sig) -> Int] /\ Len(ev.args) = Len(sig) /\ Len(q) = Len(sig)
  <2>1. ev.func \in DOMAIN Signatures /\ ev.args \in ArgsOf(ev.func)
    BY DEF EventOK
  <2>2. Len(sig) \in Nat
    BY <2>1, SignatureTyped
  <2>3. ev.args \in [1..Len(sig) -> Int] /\ Len(ev.args) = Len(sig)
    BY <2>1, <2>2 DEF ArgsOf
  <2>4. Len(q) = Len(sig)
    BY ArgCellsTyped
  <2> QED
    BY <2>1, <2>2, <2>3, <2>4
<1>2. prev \in [1..Len(sig) -> Int]
  BY <1>1, PrevTyped DEF ArgsOf
<1>3. ASSUME NEW i \in 1..Len(sig)
      PROVE  /\ callCells[callCur + 2 + i].fmt = ArgFormats(ev.func)[i]
             /\ ReadArgs(ev.func, callCur + 2)[i] = ev.args[i]
  <2>1. sig[i] \in {"INT", "REAL", "STR"}
    BY <1>1, SignatureTyped
  <2>2. callCells[callCur + 2 + i] = q[i]
    BY <1>1
  <2>3. ev.args[i] \in Int /\ prev[i] \in Int
    BY <1>1, <1>2
  <2>4. CASE sig[i] = "INT"
    <3>1. q[i] = S(ev.args[i] - prev[i])
      BY <2>4, <1>1 DEF ArgCells
    <3>2. Unzigzag(Zigzag(ev.args[i] - prev[i])) = ev.args[i] - prev[i]
      BY <2>3, <2>4, <1>1, UnzigzagZigzag DEF EventFits
    <3>3. ArgFormats(ev.func)[i] = "s"
      BY <2>4 DEF ArgFormats
    <3>4. ReadArgs(ev.func, callCur + 2)[i] = prev[i] + Unzigzag(callCells[callCur + 2 + i].val)
      BY <2>4 DEF ReadArgs
    <3> HIDE DEF prev
    <3> QED
      BY <2>2, <2>3, <3>1, <3>2, <3>3, <3>4 DEF S
  <2>5. CASE sig[i] = "REAL"
    <3>1. q[i] = F("REAL", ev.args[i])
      BY <2>5, <1>1 DEF ArgCells
    <3>2. ArgFormats(ev.func)[i] = "REAL"
      BY <2>5 DEF ArgFormats
    <3>3. ReadArgs(ev.func, callCur + 2)[i] = callCells[callCur + 2 + i].val
      BY <2>5 DEF ReadArgs
    <3> QED
      BY <2>2, <3>1, <3>2, <3>3 DEF F
  <2>6. CASE sig[i] = "STR"
    <3>1. q[i] = U(ev.args[i])
      BY <2>6, <1>1 DEF ArgCells
    <3>2. ArgFormats(ev.func)[i] = "u"
      BY <2>6 DEF ArgFormats
    <3>3. ReadArgs(ev.func, callCur + 2)[i] = callCells[callCur + 2 + i].val
      BY <2>6 DEF ReadArgs
    <3> QED
      BY <2>2, <3>1, <3>2, <3>3 DEF U
  <2> QED
    BY <2>1, <2>4, <2>5, <2>6
<1>4. ReadArgs(ev.func, callCur + 2) = [i \in 1..Len(sig) |-> ReadArgs(ev.func, callCur + 2)[i]]
  <2> DEFINE arg(i) == IF sig[i] = "INT" THEN prev[i] + Unzigzag(callCells[callCur + 2 + i].val)
                       ELSE callCells[callCur + 2 + i].val
  <2>1. ReadArgs(ev.func, callCur + 2) = [i \in 1..Len(sig) |-> arg(i)]
    BY DEF ReadArgs
  <2> HIDE DEF arg
  <2> QED
    BY <2>1
<1> QED
  BY <1>1, <1>3, <1>4

\* The formats of the arguments and of the time after them.
LEMMA HoldsArgs ==
  ASSUME NEW func, func \in DOMAIN Signatures, callCur \in Nat,
         callCur + (Len(Signatures[func]) + 3) <= Len(callCells),
         \A i \in 1..Len(Signatures[func]) :
           callCells[callCur + 2 + i].fmt = ArgFormats(func)[i],
         callCells[callCur + (Len(Signatures[func]) + 3)].fmt = "s"
  PROVE  Holds(callCells, callCur + 2, ArgFormats(func) \o <<"s">>)
<1> DEFINE sig == Signatures[func]
           fmts == ArgFormats(func)
<1>0. Len(sig) \in Nat
  BY SignatureTyped
<1>1. Len(fmts) = Len(sig) /\ fmts \in Seq({fmts[i] : i \in 1..Len(sig)})
  <2> DEFINE fmt(i) == CASE sig[i] = "INT" -> "s" [] sig[i] = "REAL" -> "REAL"
                         [] sig[i] = "STR" -> "u"
  <2>1. fmts = [i \in 1..Len(sig) |-> fmt(i)]
    BY DEF ArgFormats
  <2> HIDE DEF fmt, fmts
  <2> QED
    BY <1>0, <2>1
<1> DEFINE R == {fmts[i] : i \in 1..Len(sig)} \cup {"s"}
<1>2. fmts \in Seq(R) /\ <<"s">> \in Seq(R)
  BY <1>1
<1> HIDE DEF R, fmts
<1>3. /\ Len(fmts \o <<"s">>) = Len(sig) + 1 /\ (fmts \o <<"s">>)[Len(sig) + 1] = "s"
      /\ \A i \in 1..Len(sig) : (fmts \o <<"s">>)[i] = fmts[i]
  BY <1>1, <1>2
<1>4. ASSUME NEW k \in 1..Len(sig) + 1
      PROVE  callCells[callCur + 2 + k].fmt = (fmts \o <<"s">>)[k]
  <2>1. CASE k = Len(sig) + 1
    <3>1. callCur + 2 + k = callCur + (Len(sig) + 3)
      BY <2>1, <1>0
    <3> QED
      BY <2>1, <3>1, <1>3
  <2>2. CASE k # Len(sig) + 1
    <3>1. k \in 1..Len(sig)
      BY <2>2, <1>0
    <3> QED
      BY <3>1, <1>3 DEF fmts
  <2> QED
    BY <2>1, <2>2
<1>5. callCur + 2 + (Len(sig) + 1) <= Len(callCells)
  BY <1>0
<1> QED
  BY <1>3, <1>4, <1>5 DEF Holds, fmts

\* A reader at the cells of a call reads it.
LEMMA ReadsCall ==
  ASSUME NEW state, StateOK(state), NEW ev, EventOK(ev), EventFits(state, ev),
         ev.kind = "enter",
         NEW e, e = EncodeCall(state, ev), Ahead(e.cells), callState = state, DecodeEvent
  PROVE  Taken(Len(e.cells), ev, e.next)
<1> DEFINE sig == Signatures[ev.func]
           q == ArgCells(state, ev.func, ev.args)
           fmts == ArgFormats(ev.func)
<1>1. /\ ev = [kind |-> "enter", func |-> ev.func, args |-> ev.args, time |-> ev.time]
      /\ ev.time \in Int /\ state.time \in Int
      /\ ev.func \in DOMAIN Signatures /\ Len(sig) \in Nat
  BY SignatureTyped DEF EventOK, StateOK
<1>2. Unzigzag(Zigzag(ev.time - state.time)) = ev.time - state.time
  BY <1>1, UnzigzagZigzag DEF EventFits
<1> HIDE DEF q
<1>3. /\ Len(q) = Len(sig) /\ Len(e.cells) = Len(sig) + 3
      /\ e.cells[1] = F("TAG", "enter") /\ e.cells[2] = U(ev.func)
      /\ \A i \in 1..Len(q) : e.cells[2 + i] = q[i]
      /\ e.cells[Len(sig) + 3] = S(ev.time - state.time)
  BY CallCells DEF q
<1>4. callCur \in Nat /\ callCur + (Len(sig) + 3) <= Len(callCells)
  BY <1>3 DEF Ahead
<1>5. /\ callCells[callCur + 1] = e.cells[1] /\ callCells[callCur + 2] = e.cells[2]
      /\ callCells[callCur + (Len(sig) + 3)] = e.cells[Len(sig) + 3]
      /\ \A i \in 1..Len(q) : callCells[callCur + (2 + i)] = e.cells[2 + i]
  <2>1. 1 \in 1..Len(e.cells) /\ 2 \in 1..Len(e.cells) /\ Len(sig) + 3 \in 1..Len(e.cells)
    BY <1>1, <1>3
  <2>2. \A i \in 1..Len(q) : 2 + i \in 1..Len(e.cells)
    BY <1>1, <1>3
  <2> QED
    BY <2>1, <2>2 DEF Ahead
<1>6. \A i \in 1..Len(q) : callCells[callCur + 2 + i] = q[i]
  <2> TAKE i \in 1..Len(q)
  <2>1. callCur + 2 + i = callCur + (2 + i)
    BY <1>1, <1>3, <1>4
  <2> QED
    BY <2>1, <1>3, <1>5
<1>7. /\ ReadArgs(ev.func, callCur + 2) = ev.args
      /\ \A i \in 1..Len(q) : callCells[callCur + 2 + i].fmt = fmts[i]
  BY <1>6, ReadsArgs DEF q
<1>8. /\ CallCell(1) = "enter" /\ callCells[callCur + 1].fmt = "TAG"
      /\ CallCell(2) = ev.func /\ callCells[callCur + 2].fmt = "u"
      /\ CallCell(Len(sig) + 3) = Zigzag(ev.time - state.time)
      /\ callCells[callCur + (Len(sig) + 3)].fmt = "s"
  BY <1>3, <1>5 DEF CallCell, F, U, S
<1>9. DecodeCall
  <2>1. callCur + 1 <= Len(callCells)
    BY <1>1, <1>4
  <2> QED
    BY <1>4, <1>8, <2>1, ReadsTag
<1>10. Holds(callCells, callCur, <<"TAG", "u">>)
  BY <1>1, <1>4, <1>8 DEF Holds
<1>11. Holds(callCells, callCur + 2, fmts \o <<"s">>)
  BY <1>1, <1>3, <1>4, <1>7, <1>8, HoldsArgs
<1> DEFINE n == Len(Signatures[CallCell(2)]) + 3
           args == ReadArgs(CallCell(2), callCur + 2)
           t == callState.time + Unzigzag(CallCell(n))
<1>12. Taken(n, [kind |-> "enter", func |-> CallCell(2), args |-> args, time |-> t],
             [time |-> t, prev |-> NextPrev(callState, CallCell(2), args),
              window |-> Push(callState.window, <<CallCell(2), args>>)])
  BY <1>1, <1>8, <1>9, <1>10, <1>11 DEF DecodeCall
<1>13. n = Len(sig) + 3 /\ args = ev.args
  BY <1>7, <1>8
<1>14. t = ev.time
  BY <1>1, <1>2, <1>8, <1>13
<1> HIDE DEF n, args, t
<1>15. e.next = [time |-> ev.time, prev |-> NextPrev(callState, ev.func, ev.args),
                 window |-> Push(callState.window, <<ev.func, ev.args>>)]
  BY DEF EncodeCall
<1> QED
  BY <1>1, <1>3, <1>8, <1>12, <1>13, <1>14, <1>15

-----------------------------------------------------------------------------
(* The reader at the cells of an event, whatever the values *)

\* A push makes the window one longer, up to its size.
LEMMA PushLong ==
  ASSUME NEW w, Len(w) \in Nat, w = [p \in 1..Len(w) |-> w[p]], NEW frame,
         NEW x, x = Push(w, frame)
  PROVE  /\ Len(x) = IF Len(w) < WindowSize THEN Len(w) + 1 ELSE Len(w)
         /\ x = [p \in 1..Len(x) |-> x[p]]
<1>1. PICK R : R = {w[p] : p \in 1..Len(w)} \cup {frame}
  OBVIOUS
<1>2. w \in Seq(R) /\ frame \in R
  <2>1. \A p \in 1..Len(w) : w[p] \in R
    BY <1>1
  <2>2. [p \in 1..Len(w) |-> w[p]] \in Seq(R)
    BY <2>1
  <2> QED
    BY <1>1, <2>2
<1>3. PICK a : a = Append(w, frame)
  OBVIOUS
<1>4. a \in Seq(R) /\ Len(a) = Len(w) + 1 /\ Tail(a) \in Seq(R) /\ Len(Tail(a)) = Len(w)
  <2>1. a \in Seq(R) /\ Len(a) = Len(w) + 1
    BY <1>2, <1>3
  <2>2. a # << >>
    BY <2>1
  <2> QED
    BY <2>1, <2>2
<1>5. x = IF Len(w) < WindowSize THEN a ELSE Tail(a)
  BY <1>3 DEF Push
<1>6. x \in Seq(R) /\ Len(x) = IF Len(w) < WindowSize THEN Len(w) + 1 ELSE Len(w)
  BY <1>4, <1>5
<1> QED
  BY <1>6

LEMMA StateWindowed ==
  ASSUME NEW state, StateOK(state)
  PROVE  Windowed(state)
<1>1. PICK R : R = {state.window[p] : p \in DOMAIN state.window}
  OBVIOUS
<1>2. state.window \in Seq(R)
  BY <1>1 DEF StateOK
<1>3. /\ Len(state.window) \in Nat
      /\ state.window = [p \in 1..Len(state.window) |-> state.window[p]]
  BY <1>2
<1> QED
  BY <1>3 DEF Windowed, StateOK

\* What the reader does with the cells of an event: it takes them, and what it makes of
\* them is of the event's kind and leaves a window as long as the writer's.
MovesOn(e, ev) ==
  \E got, next : /\ Taken(Len(e.cells), got, next) /\ got.kind = ev.kind
                 /\ Windowed(next) /\ Len(next.window) = Len(e.next.window)

LEMMA MovesHit ==
  ASSUME NEW state, StateOK(state), NEW ev, EventOK(ev),
         ev.kind = "enter", Hits(state, <<ev.func, ev.args>>) # {},
         NEW e, e = EncodeHit(state, ev), Ahead(e.cells), Windowed(callState),
         Len(callState.window) = Len(state.window), DecodeEvent
  PROVE  MovesOn(e, ev)
<1> DEFINE frame == <<ev.func, ev.args>>
           d == Distance(state, frame)
<1>1. Len(state.window) \in Nat /\ d \in Nat /\ d < Len(state.window)
  <2> HIDE DEF d
  <2> QED
    BY HitFound DEF d
<1> HIDE DEF d
<1>2. e.cells = <<F("TAG", "hit"), U(d), S(ev.time - state.time)>>
  BY DEF EncodeHit, d
<1>3. /\ Len(e.cells) = 3 /\ callCur + 3 <= Len(callCells)
      /\ CallCell(1) = "hit" /\ callCells[callCur + 1].fmt = "TAG"
      /\ CallCell(2) = d /\ callCells[callCur + 2].fmt = "u"
      /\ callCells[callCur + 3].fmt = "s"
  BY <1>2 DEF Ahead, CallCell, F, U, S
<1>4. DecodeHit
  <2>1. callCur \in Nat /\ callCur + 1 <= Len(callCells)
    BY <1>3 DEF Ahead
  <2> QED
    BY <1>3, <2>1, ReadsTag
<1>5. Holds(callCells, callCur, <<"TAG", "u", "s">>)
  BY <1>3 DEF Holds
<1>6. CallCell(2) < Len(callState.window)
  BY <1>1, <1>3
<1> DEFINE fr == callState.window[Len(callState.window) - CallCell(2)]
           t == callState.time + Unzigzag(CallCell(3))
           got == [kind |-> "enter", func |-> fr[1], args |-> fr[2], time |-> t]
           next == [callState EXCEPT !.time = t, !.prev = SetPrev(@, fr[1], fr[2])]
<1>7. Taken(3, got, next)
  BY <1>4, <1>5, <1>6 DEF DecodeHit
<1>8. got.kind = ev.kind
  OBVIOUS
<1> HIDE DEF fr, t
<1>9. PICK p : p = SetPrev(callState.prev, fr[1], fr[2])
  OBVIOUS
<1>10. next = [time |-> t, prev |-> p, window |-> callState.window]
  <2>1. callState = [time |-> callState.time, prev |-> callState.prev,
                     window |-> callState.window]
    BY DEF Windowed
  <2>2. next = [callState EXCEPT !.time = t, !.prev = p]
    BY <1>9
  <2> HIDE DEF next
  <2> QED
    BY <2>1, <2>2
<1>11. Windowed(next) /\ next.window = callState.window
  BY <1>10 DEF Windowed
<1>12. e.next.window = state.window
  BY DEF EncodeHit, StateOK
<1> HIDE DEF got, next
<1> QED
  BY <1>3, <1>7, <1>8, <1>11, <1>12 DEF MovesOn

LEMMA MovesReturn ==
  ASSUME NEW state, StateOK(state), NEW ev, EventOK(ev), ev.kind = "exit",
         NEW e, e = EncodeReturn(state, ev), Ahead(e.cells), Windowed(callState),
         Len(callState.window) = Len(state.window), DecodeEvent
  PROVE  MovesOn(e, ev)
<1>1. e.next.window = state.window
  BY DEF EncodeReturn, StateOK
<1>2. PICK with \in BOOLEAN : with = (ev.ret # NoReturn)
  OBVIOUS
<1> DEFINE fmts == IF with THEN <<"TAG", "s", "s">> ELSE <<"TAG", "s">>
           t == callState.time + Unzigzag(CallCell(2))
           got == [kind |-> "exit", time |-> t,
                   ret |-> IF with THEN Unzigzag(CallCell(3)) ELSE NoReturn]
           next == [callState EXCEPT !.time = t]
<1>3. DecodeReturn(with) /\ Holds(callCells, callCur, fmts) /\ Len(fmts) = Len(e.cells)
  <2>1. CASE ~with
    <3>1. e.cells = <<F("TAG", "exit"), S(ev.time - state.time)>>
      BY <1>2, <2>1 DEF EncodeReturn
    <3>2. /\ Len(e.cells) = 2 /\ callCur + 2 <= Len(callCells)
          /\ CallCell(1) = "exit" /\ callCells[callCur + 1].fmt = "TAG"
          /\ callCells[callCur + 2].fmt = "s"
      BY <3>1 DEF Ahead, CallCell, F, S
    <3>3. callCur \in Nat /\ callCur + 1 <= Len(callCells)
      BY <3>2 DEF Ahead
    <3>4. DecodeReturn(FALSE)
      BY <3>2, <3>3, ReadsTag
    <3>5. Holds(callCells, callCur, <<"TAG", "s">>)
      BY <3>2 DEF Holds
    <3> QED
      BY <2>1, <3>2, <3>4, <3>5
  <2>2. CASE with
    <3>1. e.cells = <<F("TAG", "return"), S(ev.time - state.time), S(ev.ret)>>
      BY <1>2, <2>2 DEF EncodeReturn
    <3>2. /\ Len(e.cells) = 3 /\ callCur + 3 <= Len(callCells)
          /\ CallCell(1) = "return" /\ callCells[callCur + 1].fmt = "TAG"
          /\ callCells[callCur + 2].fmt = "s" /\ callCells[callCur + 3].fmt = "s"
      BY <3>1 DEF Ahead, CallCell, F, S
    <3>3. callCur \in Nat /\ callCur + 1 <= Len(callCells)
      BY <3>2 DEF Ahead
    <3>4. DecodeReturn(TRUE)
      BY <3>2, <3>3, ReadsTag
    <3>5. Holds(callCells, callCur, <<"TAG", "s", "s">>)
      BY <3>2 DEF Holds
    <3>6. with = TRUE
      BY <2>2
    <3> QED
      BY <3>2, <3>4, <3>5, <3>6
  <2> QED
    BY <2>1, <2>2
<1>4. Taken(Len(fmts), got, next)
  BY <1>3 DEF DecodeReturn
<1>5. got.kind = ev.kind
  OBVIOUS
<1> HIDE DEF t
<1>6. next = [time |-> t, prev |-> callState.prev, window |-> callState.window]
  BY DEF Windowed
<1>7. Windowed(next) /\ next.window = callState.window
  BY <1>6 DEF Windowed
<1> HIDE DEF got, next, fmts
<1> QED
  BY <1>1, <1>3, <1>4, <1>5, <1>7 DEF MovesOn

LEMMA MovesCall ==
  ASSUME NEW state, StateOK(state), NEW ev, EventOK(ev), ev.kind = "enter",
         NEW e, e = EncodeCall(state, ev), Ahead(e.cells), Windowed(callState),
         Len(callState.window) = Len(state.window), DecodeEvent
  PROVE  MovesOn(e, ev)
<1> DEFINE sig == Signatures[ev.func]
           q == ArgCells(state, ev.func, ev.args)
           fmts == ArgFormats(ev.func)
<1>1. ev.func \in DOMAIN Signatures /\ Len(sig) \in Nat
  BY SignatureTyped DEF EventOK
<1> HIDE DEF q
<1>3. /\ Len(q) = Len(sig) /\ Len(e.cells) = Len(sig) + 3
      /\ e.cells[1] = F("TAG", "enter") /\ e.cells[2] = U(ev.func)
      /\ \A i \in 1..Len(q) : e.cells[2 + i] = q[i]
      /\ e.cells[Len(sig) + 3] = S(ev.time - state.time)
  BY CallCells DEF q
<1>4. callCur \in Nat /\ callCur + (Len(sig) + 3) <= Len(callCells)
  BY <1>3 DEF Ahead
<1>5. /\ callCells[callCur + 1] = e.cells[1] /\ callCells[callCur + 2] = e.cells[2]
      /\ callCells[callCur + (Len(sig) + 3)] = e.cells[Len(sig) + 3]
      /\ \A i \in 1..Len(q) : callCells[callCur + (2 + i)] = e.cells[2 + i]
  <2>1. 1 \in 1..Len(e.cells) /\ 2 \in 1..Len(e.cells) /\ Len(sig) + 3 \in 1..Len(e.cells)
    BY <1>1, <1>3
  <2>2. \A i \in 1..Len(q) : 2 + i \in 1..Len(e.cells)
    BY <1>1, <1>3
  <2> QED
    BY <2>1, <2>2 DEF Ahead
<1>6. \A i \in 1..Len(q) : callCells[callCur + 2 + i] = q[i]
  <2> TAKE i \in 1..Len(q)
  <2>1. callCur + 2 + i = callCur + (2 + i)
    BY <1>1, <1>3, <1>4
  <2> QED
    BY <2>1, <1>3, <1>5
<1>7. \A i \in 1..Len(q) : q[i].fmt = fmts[i]
  <2>1. PICK args : args = ev.args /\ args \in ArgsOf(ev.func)
    BY DEF EventOK
  <2>2. Len(args) = Len(sig)
    BY <1>1, <2>1 DEF ArgsOf
  <2> TAKE i \in 1..Len(q)
  <2>3. sig[i] \in {"INT", "REAL", "STR"} /\ i \in 1..Len(sig) /\ i \in 1..Len(ev.args)
    BY <1>1, <1>3, <2>1, <2>2, SignatureTyped
  <2>4. q[i].fmt = CASE sig[i] = "INT" -> "s" [] sig[i] = "REAL" -> "REAL"
                     [] sig[i] = "STR" -> "u"
    BY <2>3 DEF q, ArgCells, S, F, U
  <2> QED
    BY <2>3, <2>4 DEF ArgFormats
<1>8. /\ CallCell(1) = "enter" /\ callCells[callCur + 1].fmt = "TAG"
      /\ CallCell(2) = ev.func /\ callCells[callCur + 2].fmt = "u"
      /\ callCells[callCur + (Len(sig) + 3)].fmt = "s"
  BY <1>3, <1>5 DEF CallCell, F, U, S
<1>9. DecodeCall
  <2>1. callCur + 1 <= Len(callCells)
    BY <1>1, <1>4
  <2> QED
    BY <1>4, <1>8, <2>1, ReadsTag
<1>10. Holds(callCells, callCur, <<"TAG", "u">>)
  BY <1>1, <1>4, <1>8 DEF Holds
<1>11. Holds(callCells, callCur + 2, fmts \o <<"s">>)
  BY <1>1, <1>3, <1>4, <1>6, <1>7, <1>8, HoldsArgs
<1> DEFINE n == Len(Signatures[CallCell(2)]) + 3
           args == ReadArgs(CallCell(2), callCur + 2)
           t == callState.time + Unzigzag(CallCell(n))
           got == [kind |-> "enter", func |-> CallCell(2), args |-> args, time |-> t]
           w == Push(callState.window, <<CallCell(2), args>>)
           next == [time |-> t, prev |-> NextPrev(callState, CallCell(2), args), window |-> w]
<1>12. Taken(n, got, next)
  BY <1>1, <1>8, <1>9, <1>10, <1>11 DEF DecodeCall
<1>13. n = Len(e.cells)
  BY <1>3, <1>8
<1>14. got.kind = ev.kind
  OBVIOUS
<1>15. next.window = w /\ next = [time |-> next.time, prev |-> next.prev, window |-> w]
  OBVIOUS
<1> HIDE DEF w
<1>16. /\ Len(w) = IF Len(callState.window) < WindowSize THEN Len(callState.window) + 1
                   ELSE Len(callState.window)
       /\ w = [p \in 1..Len(w) |-> w[p]]
  <2>1. PICK fr : fr = <<CallCell(2), args>>
    OBVIOUS
  <2>2. w = Push(callState.window, fr)
    BY <2>1 DEF w
  <2> QED
    BY <2>2, PushLong DEF Windowed
<1>17. Len(e.next.window) = IF Len(state.window) < WindowSize THEN Len(state.window) + 1
                            ELSE Len(state.window)
  <2>1. e.next.window = Push(state.window, <<ev.func, ev.args>>)
    BY DEF EncodeCall
  <2>2. Windowed(state)
    BY StateWindowed
  <2> QED
    BY <2>1, <2>2, PushLong DEF Windowed
<1> HIDE DEF n, args, t, got, next
<1>18. Len(w) \in Nat
  BY <1>16, CallAssumption DEF Windowed
<1>19. Windowed(next) /\ Len(next.window) = Len(e.next.window)
  BY <1>15, <1>16, <1>17, <1>18 DEF Windowed
<1> QED
  BY <1>12, <1>13, <1>14, <1>19 DEF MovesOn

-----------------------------------------------------------------------------
(* CallInv is an invariant *)

\* What fits a word is said event by event.
LEMMA RepresentableEach ==
  CallsRepresentable <=>
    \A k \in 1..(Len(callMarks) - 1) : EventFits(callMarks[k], callEvents[k])
BY DEF CallsRepresentable, EventFits

\* Before anything is read.
LEMMA NoneInStep ==
  ASSUME callState = NoCalls, callRead = << >>, Len(callEvents) \in Nat,
         callPhase \in {"open", "encoding", "refused"}
  PROVE  KindsInStep
<1>1. Windowed(NoCalls)
  BY DEF Windowed, NoCalls
<1> QED
  BY <1>1 DEF KindsInStep

LEMMA InitInv == CallInit => CallInv
<1> SUFFICES ASSUME CallInit PROVE CallInv
  OBVIOUS
<1> USE DEF CallInit
<1>1. Len(callMarks) = 1 /\ callMarks[1] = NoCalls /\ DOMAIN callMarks = {1}
  OBVIOUS
<1>2. StateOK(NoCalls)
  <2>1. DOMAIN << >> = {}
    OBVIOUS
  <2> QED
    BY <2>1 DEF StateOK, NoCalls
<1>3. CallTypeOK
  <2>1. DOMAIN callEvents = {}
    OBVIOUS
  <2> QED
    BY <1>1, <1>2, <2>1 DEF CallTypeOK
<1>4. CallProgress
  BY <1>1 DEF CallProgress
<1>5. CellsInOrder
  <2> DEFINE at == [k \in 1..1 |-> 0]
  <2>1. at \in [1..Len(callMarks) -> 0..Len(callCells)]
    BY <1>1
  <2>2. at[1] = 0 /\ Len(callCells) = 0 /\ 1..(Len(callMarks) - 1) = {} /\ callPhase = "open"
    BY <1>1
  <2> HIDE DEF at
  <2> QED
    BY <1>1, <2>1, <2>2 DEF CellsInOrder
<1>6. CallsInStep
  BY <1>1 DEF CallsInStep
<1>7. KindsInStep
  BY NoneInStep
<1> QED
  BY <1>1, <1>3, <1>4, <1>5, <1>6, <1>7 DEF CallInv

\* To record an event touches nothing that was encoded: nothing was.
LEMMA RecordInv ==
  ASSUME CallInv, NEW ev, EventOK(ev), callPhase = "open", callEvents' = Append(callEvents, ev),
         UNCHANGED <<callCells, callMarks, callCur, callState, callRead, callPhase>>
  PROVE  CallInv'
<1> USE DEF CallInv
<1>1. /\ Len(callEvents) \in Nat /\ Len(callMarks) = 1 /\ callRead = << >> /\ callCur = 0
      /\ callState = NoCalls
  BY DEF CallTypeOK, CallProgress
<1>2. Len(callEvents') = Len(callEvents) + 1
  BY DEF CallTypeOK
<1>3. CallTypeOK'
  <2> DEFINE R == {callEvents[k] : k \in DOMAIN callEvents} \cup {ev}
  <2>1. callEvents \in Seq(R) /\ ev \in R /\ \A r \in R : EventOK(r)
    BY DEF CallTypeOK
  <2> HIDE DEF R
  <2>2. callEvents' \in Seq(R) /\ \A k \in DOMAIN callEvents' : callEvents'[k] \in R
    BY <2>1
  <2>3. callEvents' \in Seq({callEvents'[k] : k \in DOMAIN callEvents'})
    BY <2>2, SeqOfElements
  <2>4. \A k \in DOMAIN callEvents' : EventOK(callEvents'[k])
    BY <2>1, <2>2
  <2> QED
    BY <2>3, <2>4 DEF CallTypeOK
<1>4. CallProgress'
  BY <1>1, <1>2 DEF CallProgress
<1>5. CellsInOrder'
  BY <1>1 DEF CellsInOrder
<1>6. CallsInStep'
  BY <1>1 DEF CallsInStep
<1>7. KindsInStep'
  BY <1>1, <1>2 DEF KindsInStep
<1> QED
  BY <1>1, <1>2, <1>3, <1>4, <1>5, <1>6, <1>7

LEMMA EnterInv ==
  ASSUME CallInv, NEW func \in DOMAIN Signatures, NEW time \in CallTimes,
         NEW args \in [1..Len(Signatures[func]) -> ArgValues], Enter(func, args, time)
  PROVE  CallInv'
<1> DEFINE ev == [kind |-> "enter", func |-> func, args |-> args, time |-> time]
<1>1. EventOK(ev)
  BY CallAssumption DEF EventOK, ArgsOf
<1> HIDE DEF ev
<1>2. /\ callPhase = "open" /\ callEvents' = Append(callEvents, ev)
      /\ UNCHANGED <<callCells, callMarks, callCur, callState, callRead, callPhase>>
  BY DEF Enter, ev
<1> QED
  BY <1>1, <1>2, RecordInv

LEMMA ExitInv ==
  ASSUME CallInv, NEW ret \in Returns, NEW time \in CallTimes, Exit(ret, time)
  PROVE  CallInv'
<1> DEFINE ev == [kind |-> "exit", time |-> time, ret |-> ret]
<1>1. EventOK(ev)
  BY CallAssumption DEF EventOK
<1> HIDE DEF ev
<1>2. /\ callPhase = "open" /\ callEvents' = Append(callEvents, ev)
      /\ UNCHANGED <<callCells, callMarks, callCur, callState, callRead, callPhase>>
  BY DEF Exit, ev
<1> QED
  BY <1>1, <1>2, RecordInv

\* Closing and opening move nothing but the phase.
LEMMA PhaseInv ==
  ASSUME CallInv, CloseCalls \/ OpenCalls
  PROVE  CallInv'
<1> USE DEF CallInv
<1>1. /\ UNCHANGED <<callEvents, callCells, callMarks, callCur, callState, callRead>>
      /\ callRead = << >> /\ callCur = 0 /\ callState = NoCalls
      /\ callPhase' \in {"encoding", "refused", "decoding"} /\ callPhase \in {"open", "encoding"}
  BY DEF CloseCalls, OpenCalls, CallProgress
<1>2. Len(callMarks) \in Nat /\ Len(callEvents) \in Nat /\ Len(callMarks) >= 1
  BY DEF CallTypeOK, CallProgress
<1>3. callPhase' = "decoding" => Len(callMarks) = Len(callEvents) + 1
  BY <1>2 DEF CloseCalls, OpenCalls, CallProgress
<1>4. CallTypeOK'
  BY <1>1 DEF CallTypeOK
<1>5. CallProgress'
  BY <1>1, <1>3 DEF CallProgress
<1>6. CallsRepresentable' <=> CallsRepresentable
  BY <1>1 DEF CallsRepresentable
<1>7. CellsInOrder'
  <2>1. PICK at \in [1..Len(callMarks) -> 0..Len(callCells)] :
          /\ at[1] = 0 /\ at[Len(callMarks)] = Len(callCells)
          /\ \A k \in 1..(Len(callMarks) - 1) : CellsAt(at, k)
    BY DEF CellsInOrder
  <2>2. \A k \in 1..(Len(callMarks) - 1) : CellsAt(at, k)'
    BY <1>1, <2>1 DEF CellsAt
  <2>3. callCur' = at[Len(callRead') + 1]
    BY <1>1, <2>1
  <2> QED
    BY <1>1, <2>1, <2>2, <2>3 DEF CellsInOrder
<1>8. CallsInStep'
  BY <1>1, <1>6 DEF CallsInStep
<1>9. KindsInStep'
  BY <1>1, <1>2 DEF KindsInStep
<1> QED
  BY <1>1, <1>4, <1>5, <1>6, <1>7, <1>8, <1>9

\* To encode an event appends its cells.
LEMMA EncodeInv == CallInv /\ EncodeEvent => CallInv'
<1> SUFFICES ASSUME CallInv, EncodeEvent PROVE CallInv'
  OBVIOUS
<1> USE DEF CallInv
<1>0. PICK n : n = Len(callMarks)
  OBVIOUS
<1> DEFINE e == Encode(callMarks[n], callEvents[n])
<1>1. /\ n = Len(callMarks) /\ n \in Nat /\ n >= 1 /\ n <= Len(callEvents) /\ Len(callEvents) \in Nat
      /\ Len(callCells) \in Nat
  BY <1>0 DEF CallTypeOK, CallProgress, EncodeEvent
<1>2. /\ callCells' = callCells \o e.cells /\ callMarks' = Append(callMarks, e.next)
      /\ callPhase = "encoding"
      /\ UNCHANGED <<callEvents, callCur, callState, callRead, callPhase>>
      /\ callRead = << >> /\ callCur = 0 /\ callState = NoCalls
  BY <1>0 DEF EncodeEvent, CallProgress
<1>3. \A k \in 1..n : StateOK(callMarks[k]) /\ EventOK(callEvents[k])
  <2>1. DOMAIN callMarks = 1..n /\ DOMAIN callEvents = 1..Len(callEvents)
    BY <1>0 DEF CallTypeOK
  <2> QED
    BY <1>1, <2>1 DEF CallTypeOK
<1>4. StateOK(e.next) /\ IsSequence(e.cells)
  <2>1. n \in 1..n
    BY <1>1
  <2> QED
    BY <1>3, <2>1, EncodeTyped
<1> HIDE DEF e
<1>5. /\ Len(callMarks') = n + 1 /\ callMarks'[n + 1] = e.next
      /\ \A k \in 1..n : callMarks'[k] = callMarks[k]
      /\ DOMAIN callMarks' = 1..(n + 1)
  BY <1>1, <1>2 DEF CallTypeOK
<1>6. /\ Len(callCells') = Len(callCells) + Len(e.cells) /\ IsSequence(callCells')
      /\ \A i \in 1..Len(callCells) : callCells'[i] = callCells[i]
      /\ \A i \in 1..Len(e.cells) : callCells'[Len(callCells) + i] = e.cells[i]
  <2> DEFINE R == {callCells[i] : i \in 1..Len(callCells)} \cup {e.cells[i] : i \in 1..Len(e.cells)}
  <2>1. callCells \in Seq(R)
    <3>1. \A i \in 1..Len(callCells) : callCells[i] \in R
      OBVIOUS
    <3> HIDE DEF R
    <3>2. [i \in 1..Len(callCells) |-> callCells[i]] \in Seq(R)
      BY <1>1, <3>1
    <3> QED
      BY <3>2 DEF CallTypeOK
  <2>2. e.cells \in Seq(R)
    BY <1>4 DEF IsSequence
  <2> HIDE DEF R
  <2> QED
    BY <1>2, <2>1, <2>2 DEF IsSequence
<1>7. CallTypeOK'
  <2> DEFINE R == {callMarks[k] : k \in DOMAIN callMarks} \cup {e.next}
  <2>1. callMarks \in Seq(R) /\ e.next \in R
    BY DEF CallTypeOK
  <2> HIDE DEF R
  <2>2. callMarks' \in Seq(R)
    BY <2>1, <1>2
  <2>3. callMarks' \in Seq({callMarks'[k] : k \in DOMAIN callMarks'})
    BY <2>2, SeqOfElements
  <2>4. \A k \in DOMAIN callMarks' : StateOK(callMarks'[k])
    <3> TAKE k \in DOMAIN callMarks'
    <3>1. CASE k = n + 1
      BY <3>1, <1>4, <1>5
    <3>2. CASE k # n + 1
      <4>1. k \in 1..n
        BY <3>2, <1>1, <1>5
      <4> QED
        BY <4>1, <1>3, <1>5
    <3> QED
      BY <3>1, <3>2
  <2> QED
    BY <1>2, <1>6, <2>3, <2>4 DEF CallTypeOK, IsSequence
<1>8. CallProgress'
  BY <1>1, <1>2, <1>5 DEF CallProgress
<1>9. CellsInOrder'
  <2>1. PICK at \in [1..n -> 0..Len(callCells)] :
          /\ at[1] = 0 /\ at[n] = Len(callCells)
          /\ \A k \in 1..(n - 1) : CellsAt(at, k)
    BY <1>0 DEF CellsInOrder
  <2> DEFINE after == [k \in 1..(n + 1) |->
                         IF k = n + 1 THEN Len(callCells) + Len(e.cells) ELSE at[k]]
  <2>2. PICK to : to = after
    OBVIOUS
  <2>3. /\ to[n + 1] = Len(callCells') /\ \A k \in 1..n : to[k] = at[k]
        /\ to = [k \in 1..(n + 1) |-> to[k]]
    BY <1>1, <1>6, <2>2
  <2> HIDE DEF after
  <2>4. to \in [1..Len(callMarks') -> 0..Len(callCells')]
    <3>1. Len(callCells') \in Nat /\ Len(callCells) <= Len(callCells')
      BY <1>1, <1>4, <1>6 DEF IsSequence
    <3>2. \A k \in 1..(n + 1) : k # n + 1 => k \in 1..n
      BY <1>1
    <3>3. \A k \in 1..n : at[k] \in 0..Len(callCells')
      BY <1>1, <2>1, <3>1
    <3>4. \A k \in 1..(n + 1) : to[k] \in 0..Len(callCells')
      <4> TAKE k \in 1..(n + 1)
      <4>1. CASE k = n + 1
        BY <4>1, <2>3, <3>1
      <4>2. CASE k # n + 1
        BY <4>2, <2>3, <3>2, <3>3
      <4> QED
        BY <4>1, <4>2
    <3> QED
      BY <1>5, <2>3, <3>4
  <2>5. ASSUME NEW k \in 1..(n - 1) PROVE CellsAt(to, k)'
    <3> DEFINE d == Encode(callMarks[k], callEvents[k])
    <3>1. k \in 1..n /\ k + 1 \in 1..n
      BY <1>1
    <3>2. callMarks'[k] = callMarks[k] /\ callMarks'[k + 1] = callMarks[k + 1]
      BY <3>1, <1>5
    <3>3. to[k] = at[k] /\ to[k + 1] = at[k + 1]
      BY <3>1, <2>3
    <3>4. /\ callMarks[k + 1] = d.next /\ at[k + 1] = at[k] + Len(d.cells)
          /\ \A i \in 1..Len(d.cells) : callCells[at[k] + i] = d.cells[i]
      BY <2>1 DEF CellsAt
    <3>5. StateOK(callMarks[k]) /\ EventOK(callEvents[k])
      BY <1>3, <3>1
    <3>6. Len(d.cells) \in Nat
      BY <3>5, EncodeTyped DEF IsSequence
    <3>7. at[k] \in 0..Len(callCells) /\ at[k + 1] \in 0..Len(callCells)
      BY <2>1, <3>1
    <3> HIDE DEF d
    <3>8. \A i \in 1..Len(d.cells) : at[k] + i \in 1..Len(callCells)
      BY <1>1, <3>4, <3>6, <3>7
    <3>9. \A i \in 1..Len(d.cells) : callCells'[to[k] + i] = d.cells[i]
      BY <1>6, <3>3, <3>4, <3>8
    <3>10. d = Encode(callMarks'[k], callEvents'[k])
      BY <1>2, <3>2 DEF d
    <3> QED
      BY <3>2, <3>3, <3>4, <3>9, <3>10 DEF CellsAt
  <2>6. CellsAt(to, n)'
    <3>1. n \in 1..n
      BY <1>1
    <3>2. e = Encode(callMarks'[n], callEvents'[n])
      BY <1>2, <1>5, <3>1 DEF e
    <3>3. to[n] = Len(callCells) /\ to[n + 1] = Len(callCells) + Len(e.cells)
      BY <1>6, <2>1, <2>3, <3>1
    <3> QED
      <4>1. \A i \in 1..Len(e.cells) : callCells'[to[n] + i] = e.cells[i]
        BY <1>6, <3>3
      <4>2. to[n + 1] = to[n] + Len(e.cells)
        BY <3>3
      <4>3. callMarks'[n + 1] = e.next
        BY <1>5
      <4> QED
        BY <3>2, <4>1, <4>2, <4>3 DEF CellsAt
  <2>7. \A k \in 1..(Len(callMarks') - 1) : CellsAt(to, k)'
    <3>1. \A k \in 1..(Len(callMarks') - 1) : k \in 1..(n - 1) \/ k = n
      BY <1>1, <1>5
    <3> TAKE k \in 1..(Len(callMarks') - 1)
    <3>2. CASE k \in 1..(n - 1)
      BY <3>2, <2>5
    <3>3. CASE k = n
      BY <3>3, <2>6
    <3> QED
      BY <3>1, <3>2, <3>3
  <2>8. to[1] = 0 /\ to[Len(callMarks')] = Len(callCells')
    <3>1. 1 \in 1..n
      BY <1>1
    <3> QED
      BY <3>1, <1>5, <2>1, <2>3
  <2> QED
    BY <1>2, <2>4, <2>7, <2>8 DEF CellsInOrder
<1>10. CallsInStep'
  BY <1>1, <1>2 DEF CallsInStep
<1>11. callMarks'[1] = NoCalls
  BY <1>1, <1>5
<1>12. KindsInStep'
  BY <1>1, <1>2 DEF KindsInStep
<1> QED
  BY <1>1, <1>2, <1>7, <1>8, <1>9, <1>10, <1>11, <1>12

\* Where the reader is: at the cells of the next event.
LEMMA NextAhead ==
  ASSUME CallInv, DecodeEvent, NEW k, k = Len(callRead) + 1,
         NEW e, e = Encode(callMarks[k], callEvents[k])
  PROVE  /\ k \in 1..Len(callEvents) /\ k \in 1..(Len(callMarks) - 1) /\ k \in Nat
         /\ callPhase = "decoding" /\ Len(callMarks) = Len(callEvents) + 1
         /\ EventOK(callEvents[k]) /\ StateOK(callMarks[k])
         /\ callMarks[k + 1] = e.next /\ Ahead(e.cells)
<1> USE DEF CallInv
<1>1. /\ callPhase = "decoding" /\ Len(callRead) < Len(callEvents)
      /\ Len(callRead) \in Nat /\ Len(callEvents) \in Nat
      /\ Len(callMarks) = Len(callEvents) + 1
  BY DEF DecodeEvent, CallTypeOK, CallProgress
<1>2. k \in 1..Len(callEvents) /\ k \in 1..Len(callMarks) /\ k \in 1..(Len(callMarks) - 1)
  BY <1>1
<1>3. EventOK(callEvents[k]) /\ StateOK(callMarks[k])
  <2>1. DOMAIN callMarks = 1..Len(callMarks) /\ DOMAIN callEvents = 1..Len(callEvents)
    BY DEF CallTypeOK
  <2> QED
    BY <1>2, <2>1 DEF CallTypeOK
<1>6. PICK at \in [1..Len(callMarks) -> 0..Len(callCells)] :
        CellsAt(at, k) /\ callCur = at[k]
  BY <1>1, <1>2 DEF CellsInOrder
<1>7. /\ callMarks[k + 1] = e.next /\ at[k + 1] = at[k] + Len(e.cells)
      /\ \A i \in 1..Len(e.cells) : callCells[at[k] + i] = e.cells[i]
  BY <1>6 DEF CellsAt
<1>8. Ahead(e.cells)
  <2>1. k + 1 \in 1..Len(callMarks)
    BY <1>1, <1>2
  <2>2. at[k] \in 0..Len(callCells) /\ at[k + 1] \in 0..Len(callCells)
    BY <1>2, <1>6, <2>1
  <2>3. Len(callCells) \in Nat
    BY DEF CallTypeOK
  <2> QED
    BY <1>6, <1>7, <2>2, <2>3 DEF Ahead
<1> QED
  BY <1>1, <1>2, <1>3, <1>7, <1>8

\* The next event is read as it was recorded, when its differences fit a word.
LEMMA ReadsEvent ==
  ASSUME CallInv, DecodeEvent, CallsRepresentable, NEW k, k = Len(callRead) + 1,
         NEW e, e = Encode(callMarks[k], callEvents[k])
  PROVE  Taken(Len(e.cells), callEvents[k], callMarks[k + 1])
<1> DEFINE ev == callEvents[k]
           state == callMarks[k]
<1>1. /\ k \in 1..(Len(callMarks) - 1) /\ callPhase = "decoding"
      /\ EventOK(ev) /\ StateOK(state) /\ callMarks[k + 1] = e.next /\ Ahead(e.cells)
  BY NextAhead
<1>2. EventFits(state, ev)
  BY <1>1, RepresentableEach
<1>3. callState = state
  BY <1>1 DEF CallInv, CallsInStep
<1> HIDE DEF ev, state
<1>4. e = Encode(state, ev)
  BY DEF ev, state
<1>5. Taken(Len(e.cells), ev, e.next)
  <2>1. CASE ev.kind = "exit"
    <3>1. e = EncodeReturn(state, ev)
      BY <1>4, <2>1 DEF Encode
    <3> QED
      BY <1>1, <1>2, <1>3, <2>1, <3>1, ReadsReturn
  <2>2. CASE ev.kind = "enter" /\ Hits(state, <<ev.func, ev.args>>) # {}
    <3>1. e = EncodeHit(state, ev)
      BY <1>4, <2>2 DEF Encode
    <3> QED
      BY <1>1, <1>2, <1>3, <2>2, <3>1, ReadsHit
  <2>3. CASE ev.kind = "enter" /\ Hits(state, <<ev.func, ev.args>>) = {}
    <3>1. e = EncodeCall(state, ev)
      BY <1>4, <2>3 DEF Encode
    <3> QED
      BY <1>1, <1>2, <1>3, <2>3, <3>1, ReadsCall
  <2> QED
    BY <1>1, <2>1, <2>2, <2>3 DEF EventOK
<1> QED
  BY <1>1, <1>5 DEF ev

\* Whatever the values, it is read as an event of its kind.
LEMMA MovesEvent ==
  ASSUME CallInv, DecodeEvent, NEW k, k = Len(callRead) + 1,
         NEW e, e = Encode(callMarks[k], callEvents[k])
  PROVE  MovesOn(e, callEvents[k])
<1> DEFINE ev == callEvents[k]
           state == callMarks[k]
<1>1. /\ callPhase = "decoding" /\ EventOK(ev) /\ StateOK(state) /\ Ahead(e.cells)
  BY NextAhead
<1>2. Windowed(callState) /\ Len(callState.window) = Len(state.window)
  BY <1>1 DEF CallInv, KindsInStep
<1> HIDE DEF ev, state
<1>3. e = Encode(state, ev)
  BY DEF ev, state
<1>4. MovesOn(e, ev)
  <2>1. CASE ev.kind = "exit"
    <3>1. e = EncodeReturn(state, ev)
      BY <1>3, <2>1 DEF Encode
    <3> QED
      BY <1>1, <1>2, <2>1, <3>1, MovesReturn
  <2>2. CASE ev.kind = "enter" /\ Hits(state, <<ev.func, ev.args>>) # {}
    <3>1. e = EncodeHit(state, ev)
      BY <1>3, <2>2 DEF Encode
    <3> QED
      BY <1>1, <1>2, <2>2, <3>1, MovesHit
  <2>3. CASE ev.kind = "enter" /\ Hits(state, <<ev.func, ev.args>>) = {}
    <3>1. e = EncodeCall(state, ev)
      BY <1>3, <2>3 DEF Encode
    <3> QED
      BY <1>1, <1>2, <2>3, <3>1, MovesCall
  <2> QED
    BY <1>1, <2>1, <2>2, <2>3 DEF EventOK
<1> QED
  BY <1>4 DEF ev

\* To read an event takes it off the payload, and keeps both sides in step.
LEMMA DecodeInv == CallInv /\ DecodeEvent => CallInv'
<1> SUFFICES ASSUME CallInv, DecodeEvent PROVE CallInv'
  OBVIOUS
<1> USE DEF CallInv
<1>1. PICK k : k = Len(callRead) + 1
  OBVIOUS
<1> DEFINE e == Encode(callMarks[k], callEvents[k])
<1>2. /\ k \in 1..Len(callEvents) /\ k \in 1..(Len(callMarks) - 1) /\ k \in Nat
      /\ callPhase = "decoding" /\ Len(callMarks) = Len(callEvents) + 1
      /\ callMarks[k + 1] = e.next
  BY <1>1, NextAhead
<1>3. MovesOn(e, callEvents[k])
  BY <1>1, MovesEvent
<1>4. CallsRepresentable => Taken(Len(e.cells), callEvents[k], callMarks[k + 1])
  BY <1>1, ReadsEvent
<1> HIDE DEF e
<1>5. PICK got, next :
        /\ Taken(Len(e.cells), got, next) /\ got.kind = callEvents[k].kind
        /\ Windowed(next) /\ Len(next.window) = Len(e.next.window)
  BY <1>3 DEF MovesOn
<1>6. /\ callCur' = callCur + Len(e.cells) /\ callRead' = Append(callRead, got)
      /\ callState' = next /\ callPhase' = "decoding"
      /\ UNCHANGED <<callEvents, callCells, callMarks>>
  BY <1>2, <1>5 DEF Taken, DecodeEvent
<1>7. CallsRepresentable =>
        callRead' = Append(callRead, callEvents[k]) /\ callState' = callMarks[k + 1]
  BY <1>4 DEF Taken
<1>8. Len(callEvents) \in Nat /\ Len(callRead) \in Nat
  BY DEF CallTypeOK
<1>9. /\ Len(callRead') = k /\ callRead'[k] = got
      /\ \A i \in 1..Len(callRead) : callRead'[i] = callRead[i]
      /\ callRead' \in Seq({callRead'[i] : i \in DOMAIN callRead'})
  <2>1. PICK R : R = {callRead[i] : i \in DOMAIN callRead} \cup {got}
    OBVIOUS
  <2>2. callRead \in Seq(R) /\ got \in R
    BY <2>1 DEF CallTypeOK
  <2>3. callRead' \in Seq(R)
    BY <1>6, <2>2
  <2>4. callRead' \in Seq({callRead'[i] : i \in DOMAIN callRead'})
    BY <2>3, SeqOfElements
  <2> QED
    BY <1>1, <1>6, <2>2, <2>4
<1>10. CallTypeOK'
  BY <1>6, <1>9 DEF CallTypeOK
<1>11. CallProgress'
  BY <1>2, <1>6 DEF CallProgress
<1>12. CallsRepresentable' <=> CallsRepresentable
  BY <1>6 DEF CallsRepresentable
<1>13. CellsInOrder'
  <2>1. PICK at \in [1..Len(callMarks) -> 0..Len(callCells)] :
          /\ at[1] = 0 /\ at[Len(callMarks)] = Len(callCells)
          /\ \A i \in 1..(Len(callMarks) - 1) : CellsAt(at, i)
          /\ callCur = at[k]
    BY <1>1, <1>2 DEF CellsInOrder
  <2>2. \A i \in 1..(Len(callMarks) - 1) : CellsAt(at, i)'
    BY <1>6, <2>1 DEF CellsAt
  <2>3. at[k + 1] = at[k] + Len(e.cells)
    BY <1>2, <2>1 DEF CellsAt, e
  <2>4. callCur' = at[Len(callRead') + 1]
    BY <1>6, <1>9, <2>1, <2>3
  <2> QED
    BY <1>6, <2>1, <2>2, <2>4 DEF CellsInOrder
<1>14. CallsInStep'
  <2> SUFFICES ASSUME CallsRepresentable
               PROVE  /\ callPhase' # "astray"
                      /\ callRead' = SubSeq(callEvents, 1, Len(callRead'))
                      /\ callState' = callMarks[Len(callRead') + 1]
    BY <1>6, <1>12 DEF CallsInStep
  <2>1. callRead = SubSeq(callEvents, 1, Len(callRead))
    BY DEF CallsInStep
  <2> DEFINE R == {callEvents[i] : i \in DOMAIN callEvents}
  <2>2. callEvents \in Seq(R)
    BY DEF CallTypeOK
  <2> HIDE DEF R
  <2>3. Append(SubSeq(callEvents, 1, k - 1), callEvents[k]) = SubSeq(callEvents, 1, k)
    BY <1>2, <1>8, <2>2
  <2>4. Len(callRead) = k - 1
    BY <1>1, <1>8
  <2> QED
    BY <1>6, <1>7, <1>9, <2>1, <2>3, <2>4
<1>15. KindsInStep'
  <2>1. \A i \in 1..k : callRead'[i].kind = callEvents[i].kind
    <3> TAKE i \in 1..k
    <3>1. CASE i = k
      BY <3>1, <1>5, <1>9
    <3>2. CASE i # k
      <4>1. i \in 1..Len(callRead)
        BY <3>2, <1>1, <1>8
      <4> QED
        BY <4>1, <1>9 DEF KindsInStep
    <3> QED
      BY <3>1, <3>2
  <2> QED
    BY <1>2, <1>5, <1>6, <1>8, <1>9, <2>1 DEF KindsInStep
<1>16. callMarks'[1] = NoCalls
  BY <1>6
<1> QED
  BY <1>10, <1>11, <1>13, <1>14, <1>15, <1>16

-----------------------------------------------------------------------------
(* The call tree: how many calls have not returned *)

\* Events, each a call or a return.
EventKinds(evs, n) ==
  /\ n \in Nat /\ n = Len(evs) /\ DOMAIN evs = 1..n
  /\ \A j \in 1..n : evs[j].kind \in {"enter", "exit"}

LEMMA KindsStep ==
  ASSUME NEW evs, NEW i \in Nat, NEW k \in Nat, i <= k + 1, NEW kind
  PROVE  /\ Kinds(evs, i, k, kind) \in Nat
         /\ k < i => Kinds(evs, i, k, kind) = 0
         /\ Kinds(evs, i, k + 1, kind) =
              Kinds(evs, i, k, kind) + IF evs[k + 1].kind = kind THEN 1 ELSE 0
<1> DEFINE A == {j \in i..k : evs[j].kind = kind}
           B == {j \in i..(k + 1) : evs[j].kind = kind}
<1>1. IsFiniteSet(A) /\ Cardinality(A) \in Nat
  <2>1. IsFiniteSet(i..k)
    BY FS_Interval
  <2> QED
    BY <2>1, FS_Subset, FS_CardinalityType
<1>2. k < i => A = {}
  OBVIOUS
<1>3. k < i => Cardinality(A) = 0
  BY <1>2, FS_EmptySet
<1>4. CASE evs[k + 1].kind = kind
  <2>1. B = A \cup {k + 1} /\ k + 1 \notin A
    BY <1>4
  <2>2. Cardinality(B) = Cardinality(A) + 1
    <3> HIDE DEF A, B
    <3> QED
      BY <1>1, <2>1, FS_AddElement
  <2> QED
    BY <1>1, <1>3, <1>4, <2>2 DEF Kinds
<1>5. CASE evs[k + 1].kind # kind
  <2>1. B = A
    BY <1>5
  <2>2. Cardinality(B) = Cardinality(A) + 0
    <3> HIDE DEF A, B
    <3> QED
      BY <1>1, <2>1
  <2> QED
    BY <1>1, <1>3, <1>5, <2>2 DEF Kinds
<1> QED
  BY <1>4, <1>5

\* A call makes one more that has not returned, a return one less.
LEMMA BalanceStep ==
  ASSUME NEW evs, NEW n, EventKinds(evs, n), NEW i \in 1..n, NEW k \in 0..(n - 1), i <= k + 1
  PROVE  /\ Balance(evs, i, k) \in Int /\ Balance(evs, i, k + 1) \in Int
         /\ k < i => Balance(evs, i, k) = 0
         /\ Balance(evs, i, k + 1) =
              IF evs[k + 1].kind = "enter" THEN Balance(evs, i, k) + 1
              ELSE Balance(evs, i, k) - 1
<1>1. i \in Nat /\ k \in Nat /\ k + 1 \in 1..n
  BY DEF EventKinds
<1>2. evs[k + 1].kind \in {"enter", "exit"}
  BY <1>1 DEF EventKinds
<1>3. PICK a, b : a = Kinds(evs, i, k, "enter") /\ b = Kinds(evs, i, k, "exit")
  OBVIOUS
<1>4. PICK c, d : c = Kinds(evs, i, k + 1, "enter") /\ d = Kinds(evs, i, k + 1, "exit")
  OBVIOUS
<1>5. /\ a \in Nat /\ (k < i => a = 0)
      /\ c = a + IF evs[k + 1].kind = "enter" THEN 1 ELSE 0
  BY <1>1, <1>3, <1>4, KindsStep
<1>6. /\ b \in Nat /\ (k < i => b = 0)
      /\ d = b + IF evs[k + 1].kind = "exit" THEN 1 ELSE 0
  BY <1>1, <1>3, <1>4, KindsStep
<1>7. Balance(evs, i, k) = a - b /\ Balance(evs, i, k + 1) = c - d
  BY <1>3, <1>4 DEF Balance
<1> QED
  BY <1>2, <1>5, <1>6, <1>7

-----------------------------------------------------------------------------
(* The tree after the first j events *)

\* Three lists, of which the first two have a place for each event.
TreeShape(t, j) ==
  /\ t = [parent |-> t.parent, end |-> t.end, stack |-> t.stack]
  /\ Len(t.parent) = j /\ t.parent = [i \in 1..j |-> t.parent[i]]
  /\ Len(t.end) = j /\ t.end = [i \in 1..j |-> t.end[i]]
  /\ Len(t.stack) \in Nat /\ t.stack = [p \in 1..Len(t.stack) |-> t.stack[p]]

\* The stack lists calls in order.  One with so many above it has so many more calls than
\* returns after it, and had some ever since it came.
StackOpen(evs, t, j) ==
  /\ \A p \in 1..Len(t.stack) :
       /\ t.stack[p] \in 1..j /\ evs[t.stack[p]].kind = "enter" /\ t.end[t.stack[p]] = 0
       /\ Balance(evs, t.stack[p], j) = Len(t.stack) - p + 1
       /\ \A k \in t.stack[p]..j : Balance(evs, t.stack[p], k) >= 1
  /\ \A p, q \in 1..Len(t.stack) : p < q => t.stack[p] < t.stack[q]

\* A call that is not on the stack ended where the balance was first even.
ClosedAt(evs, i, k) ==
  /\ k \in i..Len(evs) /\ Balance(evs, i, k) = 0
  /\ \A l \in i..Len(evs) : l < k => Balance(evs, i, l) # 0

OthersClosed(evs, t, j) ==
  \A i \in 1..j : evs[i].kind = "enter" =>
    \/ \E p \in 1..Len(t.stack) : t.stack[p] = i
    \/ t.end[i] <= j /\ ClosedAt(evs, i, t.end[i])

TreeAt(evs, t, j) == TreeShape(t, j) /\ StackOpen(evs, t, j) /\ OthersClosed(evs, t, j)

Top(t) == IF Len(t.stack) = 0 THEN 0 ELSE t.stack[Len(t.stack)]

\* What a list grows by.
LEMMA Appended ==
  ASSUME NEW s, NEW n \in Nat, Len(s) = n, s = [i \in 1..n |-> s[i]], NEW x,
         NEW z, z = Append(s, x)
  PROVE  /\ Len(z) = n + 1 /\ z = [i \in 1..(n + 1) |-> z[i]]
         /\ z[n + 1] = x /\ \A i \in 1..n : z[i] = s[i]
<1>1. PICK R : R = {s[i] : i \in 1..n} \cup {x}
  OBVIOUS
<1>2. s \in Seq(R) /\ x \in R
  <2>1. \A i \in 1..n : s[i] \in R
    BY <1>1
  <2>2. [i \in 1..n |-> s[i]] \in Seq(R)
    BY <2>1
  <2> QED
    BY <1>1, <2>2
<1> QED
  BY <1>2

LEMMA Popped ==
  ASSUME NEW s, NEW n \in Nat, Len(s) = n, s = [i \in 1..n |-> s[i]],
         NEW z, z = SubSeq(s, 1, n - 1)
  PROVE  /\ Len(z) = IF n = 0 THEN 0 ELSE n - 1
         /\ z = [i \in 1..Len(z) |-> z[i]]
         /\ \A i \in 1..Len(z) : z[i] = s[i]
<1>1. z = [i \in 1..(n - 1) |-> s[i]]
  <2>1. \A i \in 1..(n - 1) : i + 1 - 1 = i
    OBVIOUS
  <2> QED
    BY <2>1
<1>2. CASE n = 0
  <2>1. 1..(n - 1) = {} /\ 1..0 = {}
    BY <1>2
  <2>2. z = << >>
    BY <1>1, <2>1
  <2> QED
    BY <1>2, <2>2
<1>3. CASE n # 0
  <2>1. n - 1 \in Nat
    BY <1>3
  <2>2. Len(z) = n - 1
    BY <1>1, <2>1
  <2> QED
    BY <1>1, <1>3, <2>2
<1> QED
  BY <1>2, <1>3

\* The lists after a call, and after a return.
Pushed(t, u, j) ==
  /\ TreeShape(u, j + 1)
  /\ \A i \in 1..j : u.parent[i] = t.parent[i]
  /\ u.parent[j + 1] = Top(t) /\ u.end[j + 1] = 0
  /\ \A i \in 1..j : u.end[i] = t.end[i]
  /\ Len(u.stack) = Len(t.stack) + 1 /\ u.stack[Len(t.stack) + 1] = j + 1
  /\ \A p \in 1..Len(t.stack) : u.stack[p] = t.stack[p]

Returned(t, u, j) ==
  /\ TreeShape(u, j + 1)
  /\ \A i \in 1..j : u.parent[i] = t.parent[i]
  /\ Len(u.stack) = IF Len(t.stack) = 0 THEN 0 ELSE Len(t.stack) - 1
  /\ \A p \in 1..Len(u.stack) : u.stack[p] = t.stack[p]
  /\ \A i \in 1..j :
       u.end[i] = IF Len(t.stack) # 0 /\ i = Top(t) THEN j + 1 ELSE t.end[i]

LEMMA StepShape ==
  ASSUME NEW t, NEW j \in Nat, TreeShape(t, j), NEW ev, NEW u, u = CallStep(t, ev)
  PROVE  IF ev.kind = "enter" THEN Pushed(t, u, j) ELSE Returned(t, u, j)
<1>1. PICK n \in Nat : n = Len(t.stack)
  BY DEF TreeShape
<1>2. PICK top : top = Top(t)
  OBVIOUS
<1>3. /\ t.parent = [i \in 1..j |-> t.parent[i]] /\ Len(t.parent) = j
      /\ t.end = [i \in 1..j |-> t.end[i]] /\ Len(t.end) = j
      /\ t.stack = [p \in 1..n |-> t.stack[p]]
  BY <1>1 DEF TreeShape
<1>4. CASE ev.kind = "enter"
  <2>1. u = [parent |-> Append(t.parent, top), end |-> Append(t.end, 0),
             stack |-> Append(t.stack, j + 1)]
    BY <1>1, <1>2, <1>3, <1>4 DEF CallStep, Top
  <2>2. PICK a, b, c : a = Append(t.parent, top) /\ b = Append(t.end, 0)
                       /\ c = Append(t.stack, j + 1)
    OBVIOUS
  <2>3. Len(a) = j + 1 /\ a = [i \in 1..(j + 1) |-> a[i]] /\ a[j + 1] = top
        /\ \A i \in 1..j : a[i] = t.parent[i]
    BY <1>3, <2>2, Appended
  <2>4. Len(b) = j + 1 /\ b = [i \in 1..(j + 1) |-> b[i]] /\ b[j + 1] = 0
        /\ \A i \in 1..j : b[i] = t.end[i]
    BY <1>3, <2>2, Appended
  <2>5. Len(c) = n + 1 /\ c = [i \in 1..(n + 1) |-> c[i]] /\ c[n + 1] = j + 1
        /\ \A i \in 1..n : c[i] = t.stack[i]
    BY <1>1, <1>3, <2>2, Appended
  <2>6. u = [parent |-> a, end |-> b, stack |-> c]
    BY <2>1, <2>2
  <2>7. u.parent = a /\ u.end = b /\ u.stack = c
    BY <2>6
  <2>8. TreeShape(u, j + 1)
    BY <2>3, <2>4, <2>5, <2>6, <2>7 DEF TreeShape
  <2> QED
    BY <1>1, <1>2, <1>4, <2>3, <2>4, <2>5, <2>7, <2>8 DEF Pushed
<1>5. CASE ev.kind # "enter"
  <2>1. PICK e : e = IF n = 0 THEN t.end ELSE [t.end EXCEPT ![top] = j + 1]
    OBVIOUS
  <2>2. u = [parent |-> Append(t.parent, 0), end |-> Append(e, 0),
             stack |-> SubSeq(t.stack, 1, n - 1)]
    BY <1>1, <1>2, <1>3, <1>5, <2>1 DEF CallStep, Top
  <2>3. PICK a, b, c : a = Append(t.parent, 0) /\ b = Append(e, 0)
                       /\ c = SubSeq(t.stack, 1, n - 1)
    OBVIOUS
  <2>4. e = [i \in 1..j |-> e[i]] /\ Len(e) = j
        /\ \A i \in 1..j : e[i] = IF n # 0 /\ i = top THEN j + 1 ELSE t.end[i]
    <3>1. DOMAIN t.end = 1..j
      BY <1>3
    <3>2. e = [i \in 1..j |-> IF n # 0 /\ i = top THEN j + 1 ELSE t.end[i]]
      <4>1. CASE n = 0
        BY <1>3, <2>1, <4>1
      <4>2. CASE n # 0
        BY <3>1, <2>1, <4>2
      <4> QED
        BY <4>1, <4>2
    <3> QED
      BY <3>2
  <2>5. Len(a) = j + 1 /\ a = [i \in 1..(j + 1) |-> a[i]]
        /\ \A i \in 1..j : a[i] = t.parent[i]
    BY <1>3, <2>3, Appended
  <2>6. Len(b) = j + 1 /\ b = [i \in 1..(j + 1) |-> b[i]]
        /\ \A i \in 1..j : b[i] = e[i]
    BY <2>3, <2>4, Appended
  <2>7. /\ Len(c) = IF n = 0 THEN 0 ELSE n - 1
        /\ c = [i \in 1..Len(c) |-> c[i]]
        /\ \A i \in 1..Len(c) : c[i] = t.stack[i]
    BY <1>1, <1>3, <2>3, Popped
  <2>8. u = [parent |-> a, end |-> b, stack |-> c]
    BY <2>2, <2>3
  <2>9. u.parent = a /\ u.end = b /\ u.stack = c
    BY <2>8
  <2>10. Len(c) \in Nat
    BY <2>7
  <2>11. TreeShape(u, j + 1)
    BY <2>5, <2>6, <2>7, <2>8, <2>9, <2>10 DEF TreeShape
  <2>12. \A i \in 1..j :
           u.end[i] = IF Len(t.stack) # 0 /\ i = Top(t) THEN j + 1 ELSE t.end[i]
    BY <1>1, <1>2, <2>4, <2>6, <2>9
  <2>13. \A i \in 1..j : u.parent[i] = t.parent[i]
    BY <2>5, <2>9
  <2>14. Len(u.stack) = IF Len(t.stack) = 0 THEN 0 ELSE Len(t.stack) - 1
    BY <1>1, <2>7, <2>9
  <2>15. \A p \in 1..Len(u.stack) : u.stack[p] = t.stack[p]
    BY <2>7, <2>9
  <2> QED
    BY <1>5, <2>11, <2>12, <2>13, <2>14, <2>15 DEF Returned
<1> QED
  BY <1>4, <1>5

\* A call on the stack before and after an event.
LEMMA StillOpen ==
  ASSUME NEW evs, NEW n, EventKinds(evs, n), NEW j \in 0..(n - 1), NEW i \in 1..j,
         NEW d \in Nat, NEW c \in Int, c >= 1, Balance(evs, i, j) = d,
         c = IF evs[j + 1].kind = "enter" THEN d + 1 ELSE d - 1,
         \A k \in i..j : Balance(evs, i, k) >= 1
  PROVE  Balance(evs, i, j + 1) = c /\ \A k \in i..(j + 1) : Balance(evs, i, k) >= 1
<1>1. i \in 1..n /\ i <= j + 1
  BY DEF EventKinds
<1>2. Balance(evs, i, j + 1) = c
  BY <1>1, BalanceStep
<1>3. \A k \in i..(j + 1) : k \in i..j \/ k = j + 1
  BY <1>1
<1> QED
  BY <1>2, <1>3

LEMMA StepEnter ==
  ASSUME NEW evs, NEW n, EventKinds(evs, n), NEW j \in 0..(n - 1), NEW t, TreeAt(evs, t, j),
         NEW ev, ev.kind = evs[j + 1].kind, ev.kind = "enter", NEW u, u = CallStep(t, ev)
  PROVE  TreeAt(evs, u, j + 1)
<1>1. j \in Nat /\ n \in Nat /\ j + 1 \in 1..n
  BY DEF EventKinds
<1>2. PICK m \in Nat : m = Len(t.stack)
  BY DEF TreeAt, TreeShape
<1>3. /\ TreeShape(u, j + 1) /\ u.end[j + 1] = 0 /\ \A i \in 1..j : u.end[i] = t.end[i]
      /\ Len(u.stack) = m + 1 /\ u.stack[m + 1] = j + 1
      /\ \A p \in 1..m : u.stack[p] = t.stack[p]
  <2>1. TreeShape(t, j)
    BY DEF TreeAt
  <2>2. Pushed(t, u, j)
    BY <1>1, <2>1, StepShape
  <2> QED
    BY <1>2, <2>2 DEF Pushed
<1>4. /\ \A p \in 1..m :
           /\ t.stack[p] \in 1..j /\ evs[t.stack[p]].kind = "enter" /\ t.end[t.stack[p]] = 0
           /\ Balance(evs, t.stack[p], j) = m - p + 1
           /\ \A k \in t.stack[p]..j : Balance(evs, t.stack[p], k) >= 1
      /\ \A p, q \in 1..m : p < q => t.stack[p] < t.stack[q]
  BY <1>2 DEF TreeAt, StackOpen
<1>5. ASSUME NEW p \in 1..(m + 1)
      PROVE  /\ u.stack[p] \in 1..(j + 1) /\ evs[u.stack[p]].kind = "enter"
             /\ u.end[u.stack[p]] = 0
             /\ Balance(evs, u.stack[p], j + 1) = (m + 1) - p + 1
             /\ \A k \in u.stack[p]..(j + 1) : Balance(evs, u.stack[p], k) >= 1
  <2>1. CASE p \in 1..m
    <3>1. PICK i \in 1..j : i = t.stack[p]
      BY <1>4, <2>1
    <3>2. u.stack[p] = i
      BY <1>3, <2>1, <3>1
    <3>3. evs[i].kind = "enter" /\ u.end[i] = 0 /\ i \in 1..(j + 1)
      <4>1. evs[i].kind = "enter" /\ t.end[i] = 0
        BY <1>4, <2>1, <3>1
      <4>2. u.end[i] = 0
        BY <1>3, <4>1
      <4>3. i \in 1..(j + 1)
        BY <1>1
      <4> QED
        BY <4>1, <4>2, <4>3
    <3>4. PICK d \in Nat : d = m - p + 1
      BY <2>1
    <3>5. PICK c \in Int : c = d + 1
      OBVIOUS
    <3>6. Balance(evs, i, j) = d /\ \A k \in i..j : Balance(evs, i, k) >= 1
      BY <1>4, <2>1, <3>1, <3>4
    <3>7. c >= 1
      BY <3>5
    <3>8. Balance(evs, i, j + 1) = c /\ \A k \in i..(j + 1) : Balance(evs, i, k) >= 1
      <4>1. c = IF evs[j + 1].kind = "enter" THEN d + 1 ELSE d - 1
        BY <3>5
      <4> QED
        BY <3>6, <3>7, <4>1, StillOpen
    <3>9. c = (m + 1) - p + 1
      BY <3>4, <3>5
    <3> QED
      BY <3>2, <3>3, <3>8, <3>9
  <2>2. CASE p = m + 1
    <3>1. u.stack[p] = j + 1 /\ u.end[j + 1] = 0
      BY <1>3, <2>2
    <3>2. Balance(evs, j + 1, j) = 0 /\ Balance(evs, j + 1, j + 1) = 0 + 1
      <4>1. j < j + 1 /\ j + 1 <= j + 1
        BY <1>1
      <4> QED
        BY <1>1, <4>1, BalanceStep
    <3>3. Balance(evs, j + 1, j + 1) = 1
      BY <3>2
    <3>4. (m + 1) - p + 1 = 1
      BY <2>2
    <3>5. \A k \in (j + 1)..(j + 1) : k = j + 1
      BY <1>1
    <3>6. j + 1 \in 1..(j + 1)
      BY <1>1
    <3> QED
      <4>1. PICK i : i = u.stack[p]
        OBVIOUS
      <4>2. i = j + 1
        BY <3>1, <4>1
      <4>3. i \in 1..(j + 1) /\ evs[i].kind = "enter" /\ u.end[i] = 0
        BY <3>1, <3>6, <4>2
      <4>4. Balance(evs, i, j + 1) = (m + 1) - p + 1
        BY <3>3, <3>4, <4>2
      <4>5. \A k \in i..(j + 1) : Balance(evs, i, k) >= 1
        BY <3>3, <3>5, <4>2
      <4> QED
        BY <4>1, <4>3, <4>4, <4>5
  <2>3. p \in 1..m \/ p = m + 1
    OBVIOUS
  <2> QED
    BY <2>1, <2>2, <2>3
<1>6. ASSUME NEW p \in 1..(m + 1), NEW q \in 1..(m + 1), p < q
      PROVE  u.stack[p] < u.stack[q]
  <2>1. p \in 1..m
    BY <1>6
  <2>2. u.stack[p] = t.stack[p] /\ t.stack[p] \in 1..j
    BY <1>3, <1>4, <2>1
  <2>3. CASE q \in 1..m
    BY <1>3, <1>4, <1>6, <2>1, <2>2, <2>3
  <2>4. CASE q = m + 1
    BY <1>1, <1>3, <2>2, <2>4
  <2> QED
    BY <2>3, <2>4
<1>7. StackOpen(evs, u, j + 1)
  BY <1>3, <1>5, <1>6 DEF StackOpen
<1>8. ASSUME NEW i \in 1..(j + 1), evs[i].kind = "enter"
      PROVE  \/ \E p \in 1..(m + 1) : u.stack[p] = i
             \/ u.end[i] <= j + 1 /\ ClosedAt(evs, i, u.end[i])
  <2>1. CASE i = j + 1
    <3>1. m + 1 \in 1..(m + 1)
      OBVIOUS
    <3> QED
      BY <1>3, <2>1, <3>1
  <2>2. CASE i \in 1..j
    <3>1. \/ \E p \in 1..m : t.stack[p] = i
          \/ t.end[i] <= j /\ ClosedAt(evs, i, t.end[i])
      BY <1>2, <1>8, <2>2 DEF TreeAt, OthersClosed
    <3>2. CASE \E p \in 1..m : t.stack[p] = i
      <4>1. PICK p \in 1..m : t.stack[p] = i
        BY <3>2
      <4>2. p \in 1..(m + 1)
        OBVIOUS
      <4> QED
        BY <1>3, <4>1, <4>2
    <3>3. CASE t.end[i] <= j /\ ClosedAt(evs, i, t.end[i])
      <4>1. PICK e : e = t.end[i]
        OBVIOUS
      <4>2. e \in Int /\ e <= j + 1
        BY <1>1, <3>3, <4>1 DEF ClosedAt
      <4> QED
        BY <1>3, <2>2, <3>3, <4>1, <4>2
    <3> QED
      BY <3>1, <3>2, <3>3
  <2> QED
    BY <2>1, <2>2
<1>9. OthersClosed(evs, u, j + 1)
  BY <1>3, <1>8 DEF OthersClosed
<1> QED
  BY <1>3, <1>7, <1>9 DEF TreeAt

LEMMA StepExit ==
  ASSUME NEW evs, NEW n, EventKinds(evs, n), NEW j \in 0..(n - 1), NEW t, TreeAt(evs, t, j),
         NEW ev, ev.kind = evs[j + 1].kind, ev.kind # "enter", NEW u, u = CallStep(t, ev)
  PROVE  TreeAt(evs, u, j + 1)
<1>1. j \in Nat /\ n \in Nat /\ j + 1 \in 1..n /\ n = Len(evs)
  BY DEF EventKinds
<1>2. PICK m \in Nat : m = Len(t.stack)
  BY DEF TreeAt, TreeShape
<1>3. PICK l : l = IF m = 0 THEN 0 ELSE m - 1
  OBVIOUS
<1>4. l \in Nat /\ l <= m /\ (\A p \in 1..l : p \in 1..m /\ p < m)
  BY <1>3
<1>5. /\ TreeShape(u, j + 1)
      /\ Len(u.stack) = l /\ \A p \in 1..l : u.stack[p] = t.stack[p]
      /\ \A i \in 1..j : u.end[i] = IF m # 0 /\ i = Top(t) THEN j + 1 ELSE t.end[i]
  <2>1. TreeShape(t, j)
    BY DEF TreeAt
  <2>2. Returned(t, u, j)
    BY <1>1, <2>1, StepShape
  <2> QED
    BY <1>2, <1>3, <2>2 DEF Returned
<1>6. /\ \A p \in 1..m :
           /\ t.stack[p] \in 1..j /\ evs[t.stack[p]].kind = "enter" /\ t.end[t.stack[p]] = 0
           /\ Balance(evs, t.stack[p], j) = m - p + 1
           /\ \A k \in t.stack[p]..j : Balance(evs, t.stack[p], k) >= 1
      /\ \A p, q \in 1..m : p < q => t.stack[p] < t.stack[q]
  BY <1>2 DEF TreeAt, StackOpen
<1>7. m # 0 => Top(t) = t.stack[m]
  BY <1>2 DEF Top
<1>8. ASSUME NEW p \in 1..l
      PROVE  /\ u.stack[p] \in 1..(j + 1) /\ evs[u.stack[p]].kind = "enter"
             /\ u.end[u.stack[p]] = 0
             /\ Balance(evs, u.stack[p], j + 1) = l - p + 1
             /\ \A k \in u.stack[p]..(j + 1) : Balance(evs, u.stack[p], k) >= 1
  <2>1. p \in 1..m /\ p < m /\ m \in 1..m
    BY <1>4
  <2>2. PICK i \in 1..j : i = t.stack[p]
    BY <1>6, <2>1
  <2>3. u.stack[p] = i
    BY <1>5, <2>2
  <2>4. i < t.stack[m]
    BY <1>6, <2>1, <2>2
  <2>5. i # Top(t)
    <3>1. m # 0
      BY <2>1
    <3>2. t.stack[m] \in 1..j
      BY <1>6, <2>1
    <3> QED
      BY <1>7, <2>4, <3>1, <3>2
  <2>6. evs[i].kind = "enter" /\ u.end[i] = 0 /\ i \in 1..(j + 1)
    BY <1>1, <1>5, <1>6, <2>1, <2>2, <2>5
  <2>7. PICK d \in Nat : d = m - p + 1
    BY <2>1
  <2>8. PICK c \in Int : c = d - 1
    OBVIOUS
  <2>9. Balance(evs, i, j) = d /\ \A k \in i..j : Balance(evs, i, k) >= 1
    BY <1>6, <2>1, <2>2, <2>7
  <2>10. c >= 1 /\ c = l - p + 1
    BY <1>3, <2>1, <2>7, <2>8
  <2>11. Balance(evs, i, j + 1) = c /\ \A k \in i..(j + 1) : Balance(evs, i, k) >= 1
    BY <2>8, <2>9, <2>10, StillOpen
  <2> QED
    BY <2>3, <2>6, <2>10, <2>11
<1>9. ASSUME NEW p \in 1..l, NEW q \in 1..l, p < q
      PROVE  u.stack[p] < u.stack[q]
  BY <1>4, <1>5, <1>6, <1>9
<1>10. StackOpen(evs, u, j + 1)
  BY <1>5, <1>8, <1>9 DEF StackOpen
<1>11. ASSUME NEW i \in 1..(j + 1), evs[i].kind = "enter"
       PROVE  \/ \E p \in 1..l : u.stack[p] = i
              \/ u.end[i] <= j + 1 /\ ClosedAt(evs, i, u.end[i])
  <2>1. i \in 1..j
    BY <1>1, <1>11
  <2>2. \/ \E p \in 1..m : t.stack[p] = i
        \/ t.end[i] <= j /\ ClosedAt(evs, i, t.end[i])
    BY <1>2, <1>11, <2>1 DEF TreeAt, OthersClosed
  <2>3. CASE m # 0 /\ i = Top(t)
    <3>1. u.end[i] = j + 1 /\ i = t.stack[m] /\ m \in 1..m
      BY <1>5, <1>7, <2>1, <2>3
    <3>2. Balance(evs, i, j) = m - m + 1 /\ \A k \in i..j : Balance(evs, i, k) >= 1
      BY <1>6, <3>1
    <3>3. Balance(evs, i, j) = 1
      BY <3>2
    <3>4. Balance(evs, i, j + 1) = 1 - 1
      <4>1. i \in 1..n /\ i <= j + 1
        BY <1>1, <2>1
      <4> QED
        BY <3>3, <4>1, BalanceStep
    <3>5. \A k \in i..Len(evs) : k < j + 1 => k \in i..j
      BY <1>1, <2>1
    <3>6. \A k \in i..Len(evs) : k < j + 1 => Balance(evs, i, k) # 0
      BY <3>2, <3>5
    <3>7. j + 1 \in i..Len(evs) /\ j + 1 <= j + 1
      BY <1>1, <2>1
    <3>8. Balance(evs, i, j + 1) = 0
      BY <3>4
    <3> QED
      BY <3>1, <3>6, <3>7, <3>8 DEF ClosedAt
  <2>4. CASE ~(m # 0 /\ i = Top(t))
    <3>1. u.end[i] = t.end[i]
      BY <1>5, <2>1, <2>4
    <3>2. CASE \E p \in 1..m : t.stack[p] = i
      <4>1. PICK p \in 1..m : t.stack[p] = i
        BY <3>2
      <4>2. p # m
        BY <1>7, <2>4, <4>1
      <4>3. p \in 1..l
        BY <1>3, <4>2
      <4> QED
        BY <1>5, <4>1, <4>3
    <3>3. CASE t.end[i] <= j /\ ClosedAt(evs, i, t.end[i])
      <4>1. PICK e : e = t.end[i]
        OBVIOUS
      <4>2. e \in Int /\ e <= j + 1
        BY <1>1, <3>3, <4>1 DEF ClosedAt
      <4> QED
        BY <3>1, <3>3, <4>1, <4>2
    <3> QED
      BY <2>2, <3>2, <3>3
  <2> QED
    BY <2>3, <2>4
<1>12. OthersClosed(evs, u, j + 1)
  BY <1>5, <1>11 DEF OthersClosed
<1> QED
  BY <1>5, <1>10, <1>12 DEF TreeAt

-----------------------------------------------------------------------------
(* The trees and depths of the beginnings of the events *)

\* The depths of the first j events; the next call will be as deep as the stack is long.
DepthAt(ds, t, j) ==
  /\ Len(ds) = j /\ ds = [i \in 1..j |-> ds[i]]
  /\ j # 0 => ds[j].next = Len(t.stack)

LEMMA StepDepth ==
  ASSUME NEW j \in Nat, NEW t, Len(t.stack) \in Nat, NEW ds, DepthAt(ds, t, j),
         j = 0 => Len(t.stack) = 0,
         NEW ev, NEW es, es = DepthStep(ds, ev), NEW u,
         Len(u.stack) = IF ev.kind = "enter" THEN Len(t.stack) + 1
                        ELSE IF Len(t.stack) = 0 THEN 0 ELSE Len(t.stack) - 1
  PROVE  /\ DepthAt(es, u, j + 1) /\ \A i \in 1..j : es[i] = ds[i]
         /\ ev.kind = "enter" => es[j + 1].depth = Len(t.stack)
<1>1. PICK m \in Nat : m = Len(t.stack)
  OBVIOUS
<1>2. PICK depth : depth = IF ds = << >> THEN 0 ELSE ds[Len(ds)].next
  OBVIOUS
<1>3. depth = m
  <2>1. CASE j = 0
    <3>1. ds = << >>
      <4>1. 1..0 = {}
        OBVIOUS
      <4> QED
        BY <2>1, <4>1 DEF DepthAt
    <3> QED
      BY <1>1, <1>2, <2>1, <3>1
  <2>2. CASE j # 0
    <3>1. ds # << >>
      BY <2>2 DEF DepthAt
    <3> QED
      BY <1>1, <1>2, <2>2, <3>1 DEF DepthAt
  <2> QED
    BY <2>1, <2>2
<1>4. PICK up : up = IF m > 0 THEN m - 1 ELSE 0
  OBVIOUS
<1>5. PICK x : x = IF ev.kind = "enter" THEN [depth |-> m, next |-> m + 1]
                   ELSE [depth |-> up, next |-> up]
  OBVIOUS
<1>6. es = Append(ds, x)
  BY <1>2, <1>3, <1>4, <1>5 DEF DepthStep
<1>7. /\ Len(es) = j + 1 /\ es = [i \in 1..(j + 1) |-> es[i]]
      /\ es[j + 1] = x /\ \A i \in 1..j : es[i] = ds[i]
  <2>1. Len(ds) = j /\ ds = [i \in 1..j |-> ds[i]]
    BY DEF DepthAt
  <2> QED
    BY <1>6, <2>1, Appended
<1>8. x.next = Len(u.stack) /\ (ev.kind = "enter" => x.depth = m)
  BY <1>1, <1>4, <1>5
<1> QED
  BY <1>1, <1>7, <1>8 DEF DepthAt

\* How the tree and the depths of one beginning come from those of the one before.
Follows(evs, acc, ds, j) ==
  /\ IF evs[j].kind = "enter" THEN Pushed(acc[j - 1], acc[j], j - 1)
     ELSE Returned(acc[j - 1], acc[j], j - 1)
  /\ \A i \in 1..(j - 1) : ds[j][i] = ds[j - 1][i]
  /\ evs[j].kind = "enter" => ds[j][j].depth = Len(acc[j - 1].stack)

TreesAt(evs, acc, ds, j) ==
  /\ TreeAt(evs, acc[j], j) /\ DepthAt(ds[j], acc[j], j)
  /\ j = 0 => Len(acc[j].stack) = 0

LEMMA NoTreeAt ==
  ASSUME NEW evs, NEW acc, NEW ds, acc[0] = NoTree, ds[0] = << >>
  PROVE  TreesAt(evs, acc, ds, 0)
<1>1. PICK t : t = NoTree
  OBVIOUS
<1>2. t.parent = << >> /\ t.end = << >> /\ t.stack = << >>
      /\ t = [parent |-> t.parent, end |-> t.end, stack |-> t.stack]
  BY <1>1 DEF NoTree
<1>3. Len(<< >>) = 0 /\ \A f : << >> = [i \in 1..0 |-> << >>[i]]
  OBVIOUS
<1>4. TreeShape(t, 0)
  BY <1>2, <1>3 DEF TreeShape
<1>5. StackOpen(evs, t, 0) /\ OthersClosed(evs, t, 0)
  <2>1. 1..Len(t.stack) = {} /\ 1..0 = {}
    BY <1>2
  <2> QED
    BY <2>1 DEF StackOpen, OthersClosed
<1>6. DepthAt(ds[0], t, 0)
  BY <1>3 DEF DepthAt
<1> QED
  BY <1>1, <1>2, <1>3, <1>4, <1>5, <1>6 DEF TreesAt, TreeAt

LEMMA TreesStep ==
  ASSUME NEW evs, NEW n, EventKinds(evs, n), NEW acc, NEW ds, NEW j \in 0..(n - 1),
         TreesAt(evs, acc, ds, j), NEW ev, ev.kind = evs[j + 1].kind,
         acc[j + 1] = CallStep(acc[j], ev), ds[j + 1] = DepthStep(ds[j], ev)
  PROVE  TreesAt(evs, acc, ds, j + 1) /\ Follows(evs, acc, ds, j + 1)
<1>1. PICK t, u : t = acc[j] /\ u = acc[j + 1]
  OBVIOUS
<1>2. PICK d, e : d = ds[j] /\ e = ds[j + 1]
  OBVIOUS
<1>3. j \in Nat
  OBVIOUS
<1>4. u = CallStep(t, ev) /\ e = DepthStep(d, ev)
  BY <1>1, <1>2
<1>5. TreeAt(evs, t, j) /\ DepthAt(d, t, j) /\ (j = 0 => Len(t.stack) = 0)
  BY <1>1, <1>2 DEF TreesAt
<1>6. TreeShape(t, j) /\ Len(t.stack) \in Nat
  BY <1>5 DEF TreeAt, TreeShape
<1>7. IF ev.kind = "enter" THEN Pushed(t, u, j) ELSE Returned(t, u, j)
  BY <1>3, <1>4, <1>6, StepShape
<1>8. TreeAt(evs, u, j + 1)
  <2>1. CASE ev.kind = "enter"
    BY <1>4, <1>5, <2>1, StepEnter
  <2>2. CASE ev.kind # "enter"
    BY <1>4, <1>5, <2>2, StepExit
  <2> QED
    BY <2>1, <2>2
<1>9. Len(u.stack) = IF ev.kind = "enter" THEN Len(t.stack) + 1
                     ELSE IF Len(t.stack) = 0 THEN 0 ELSE Len(t.stack) - 1
  BY <1>7 DEF Pushed, Returned
<1>10. /\ DepthAt(e, u, j + 1) /\ \A i \in 1..j : e[i] = d[i]
       /\ ev.kind = "enter" => e[j + 1].depth = Len(t.stack)
  BY <1>3, <1>4, <1>5, <1>6, <1>9, StepDepth
<1>11. (j + 1) - 1 = j /\ j + 1 # 0
  BY <1>3
<1>12. TreesAt(evs, acc, ds, j + 1)
  BY <1>1, <1>2, <1>8, <1>10, <1>11 DEF TreesAt
<1>13. Follows(evs, acc, ds, j + 1)
  BY <1>1, <1>2, <1>7, <1>10, <1>11 DEF Follows
<1> QED
  BY <1>12, <1>13

\* Every beginning of the events has its tree and its depths.
LEMMA Trees ==
  ASSUME NEW evs, NEW n, EventKinds(evs, n), NEW seq, n = Len(seq), DOMAIN seq = 1..n,
         \A j \in 1..n : seq[j].kind = evs[j].kind
  PROVE  \E acc, ds :
           /\ acc[n] = CallTree(seq) /\ ds[n] = Depths(seq)
           /\ \A j \in 0..n : TreesAt(evs, acc, ds, j)
           /\ \A j \in 1..n : Follows(evs, acc, ds, j)
<1>1. n \in Nat
  BY DEF EventKinds
<1>2. PICK acc : /\ acc = [j \in 0..n |-> acc[j]]
                 /\ acc[0] = NoTree /\ acc[n] = TreeFold!Fold(seq)
                 /\ \A j \in 1..n : acc[j] = CallStep(acc[j - 1], seq[j])
  BY <1>1, TreeFold!FoldSteps
<1>3. PICK ds : /\ ds = [j \in 0..n |-> ds[j]]
                /\ ds[0] = << >> /\ ds[n] = DepthFold!Fold(seq)
                /\ \A j \in 1..n : ds[j] = DepthStep(ds[j - 1], seq[j])
  BY <1>1, DepthFold!FoldSteps
<1>4. CallTree(seq) = TreeFold!Fold(seq)
  BY DEF CallTree, TreeFold!Fold, FoldLeft, MapThenFoldSet, Max,
         TreeFold!FoldLeft, TreeFold!MapThenFoldSet, TreeFold!Max
<1>5. Depths(seq) = DepthFold!Fold(seq)
  BY DEF Depths, DepthFold!Fold, FoldLeft, MapThenFoldSet, Max,
         DepthFold!FoldLeft, DepthFold!MapThenFoldSet, DepthFold!Max
<1>6. ASSUME NEW j \in 0..(n - 1), TreesAt(evs, acc, ds, j)
      PROVE  TreesAt(evs, acc, ds, j + 1) /\ Follows(evs, acc, ds, j + 1)
  <2>1. j + 1 \in 1..n /\ (j + 1) - 1 = j
    BY <1>1
  <2>2. acc[j + 1] = CallStep(acc[j], seq[j + 1]) /\ ds[j + 1] = DepthStep(ds[j], seq[j + 1])
    BY <1>2, <1>3, <2>1
  <2>3. seq[j + 1].kind = evs[j + 1].kind
    BY <2>1
  <2> QED
    BY <1>6, <2>2, <2>3, TreesStep
<1>7. ASSUME NEW j \in 0..n PROVE TreesAt(evs, acc, ds, j)
  <2> DEFINE Bad == {k \in 0..n : ~TreesAt(evs, acc, ds, k)}
  <2>1. SUFFICES ASSUME Bad # {} PROVE FALSE
    BY <1>7
  <2>2. Bad \in SUBSET Nat
    OBVIOUS
  <2>3. PICK k \in Bad : \A l \in Bad : k <= l
    <3> HIDE DEF Bad
    <3> QED
      BY <2>1, <2>2, LeastNumber
  <2>4. k # 0
    BY <1>2, <1>3, NoTreeAt
  <2>5. k - 1 \in 0..(n - 1) /\ k - 1 \notin Bad /\ (k - 1) + 1 = k
    BY <1>1, <2>3, <2>4
  <2>6. TreesAt(evs, acc, ds, k - 1)
    BY <1>1, <2>5
  <2>7. TreesAt(evs, acc, ds, (k - 1) + 1)
    BY <1>6, <2>5, <2>6
  <2> QED
    BY <2>3, <2>5, <2>7
<1>8. ASSUME NEW j \in 1..n PROVE Follows(evs, acc, ds, j)
  <2>1. j - 1 \in 0..(n - 1) /\ (j - 1) + 1 = j /\ j - 1 \in 0..n
    BY <1>1
  <2>2. TreesAt(evs, acc, ds, j - 1)
    BY <1>7, <2>1
  <2>3. Follows(evs, acc, ds, (j - 1) + 1)
    BY <1>6, <2>1, <2>2
  <2> QED
    BY <2>1, <2>3
<1> QED
  BY <1>2, <1>3, <1>4, <1>5, <1>7, <1>8

-----------------------------------------------------------------------------
(* What the tree says at the end *)

\* A call with more calls than returns ever since has not returned; one that was even
\* first at k returned there.
LEMMA ReturnIs ==
  ASSUME NEW evs, NEW n, EventKinds(evs, n), NEW i \in 1..n
  PROVE  /\ (\A k \in i..n : Balance(evs, i, k) >= 1) => ReturnOf(evs, i) = 0
         /\ \A k : ClosedAt(evs, i, k) => ReturnOf(evs, i) = k
<1>1. n \in Nat /\ n = Len(evs)
  BY DEF EventKinds
<1>2. Closing(evs, i) = {k \in i..n : Balance(evs, i, k) = 0}
  BY <1>1 DEF Closing
<1>3. ASSUME \A k \in i..n : Balance(evs, i, k) >= 1
      PROVE  ReturnOf(evs, i) = 0
  <2>1. \A k \in i..n : Balance(evs, i, k) # 0
    BY <1>3
  <2>2. Closing(evs, i) = {}
    BY <1>2, <2>1
  <2> QED
    BY <2>2 DEF ReturnOf
<1>4. ASSUME NEW k, ClosedAt(evs, i, k)
      PROVE  ReturnOf(evs, i) = k
  <2>1. /\ k \in i..n /\ Balance(evs, i, k) = 0
        /\ \A l \in i..n : l < k => Balance(evs, i, l) # 0
    BY <1>1, <1>4 DEF ClosedAt
  <2>2. PICK C : C = Closing(evs, i)
    OBVIOUS
  <2>3. k \in C /\ \A l \in C : l \in Int /\ ~(l < k)
    BY <1>2, <2>1, <2>2
  <2>4. \A l \in C : k <= l
    BY <2>1, <2>3
  <2>5. \A m \in C : (\A l \in C : m <= l) => m = k
    BY <2>3, <2>4
  <2>6. Min(C) = k
    BY <2>3, <2>4, <2>5 DEF Min
  <2> QED
    BY <2>2, <2>3, <2>6 DEF ReturnOf
<1> QED
  BY <1>3, <1>4

\* The tree of all events has the returns.
LEMMA EndIs ==
  ASSUME NEW evs, NEW n, EventKinds(evs, n), NEW t, TreeAt(evs, t, n),
         NEW i \in 1..n, evs[i].kind = "enter"
  PROVE  /\ t.end[i] = ReturnOf(evs, i)
         /\ \/ ReturnOf(evs, i) = 0
            \/ ClosedAt(evs, i, ReturnOf(evs, i))
<1>1. \/ \E p \in 1..Len(t.stack) : t.stack[p] = i
      \/ ClosedAt(evs, i, t.end[i])
  BY DEF TreeAt, OthersClosed
<1>2. CASE \E p \in 1..Len(t.stack) : t.stack[p] = i
  <2>1. PICK p \in 1..Len(t.stack) : t.stack[p] = i
    BY <1>2
  <2>2. t.end[i] = 0 /\ \A k \in i..n : Balance(evs, i, k) >= 1
    BY <2>1 DEF TreeAt, StackOpen
  <2> QED
    BY <2>2, ReturnIs
<1>3. CASE ClosedAt(evs, i, t.end[i])
  BY <1>3, ReturnIs
<1> QED
  BY <1>1, <1>2, <1>3

\* The calls around a call are those on the stack before it.
LEMMA AroundIs ==
  ASSUME NEW evs, NEW n, EventKinds(evs, n), NEW z, TreeAt(evs, z, n),
         NEW i \in 1..n, evs[i].kind = "enter", NEW t, TreeAt(evs, t, i - 1),
         NEW m \in Nat, m = Len(t.stack)
  PROVE  /\ Cardinality(Around(evs, i)) = m
         /\ IF Around(evs, i) = {} THEN m = 0 ELSE m # 0 /\ Max(Around(evs, i)) = t.stack[m]
<1>1. /\ n \in Nat /\ n = Len(evs) /\ i - 1 \in 0..(n - 1) /\ (i - 1) + 1 = i /\ i - 1 \in Nat
  BY DEF EventKinds
<1>2. PICK A : A = Around(evs, i)
  OBVIOUS
<1>3. A = {j \in 1..(i - 1) : /\ evs[j].kind = "enter"
                              /\ ReturnOf(evs, j) = 0 \/ ReturnOf(evs, j) > i}
  BY <1>2 DEF Around
<1>4. /\ \A p \in 1..m :
           /\ t.stack[p] \in 1..(i - 1) /\ evs[t.stack[p]].kind = "enter"
           /\ Balance(evs, t.stack[p], i - 1) = m - p + 1
           /\ \A k \in t.stack[p]..(i - 1) : Balance(evs, t.stack[p], k) >= 1
      /\ \A p, q \in 1..m : p < q => t.stack[p] < t.stack[q]
  BY DEF TreeAt, StackOpen
<1>5. ASSUME NEW p \in 1..m PROVE t.stack[p] \in A
  <2>1. PICK j \in 1..(i - 1) : j = t.stack[p]
    BY <1>4
  <2>2. evs[j].kind = "enter" /\ j \in 1..n
    BY <1>1, <1>4, <2>1
  <2>3. PICK r : r = ReturnOf(evs, j)
    OBVIOUS
  <2>4. r = 0 \/ ClosedAt(evs, j, r)
    BY <2>2, <2>3, EndIs
  <2>5. CASE ClosedAt(evs, j, r)
    <3>1. r \in j..n /\ Balance(evs, j, r) = 0
      BY <1>1, <2>5 DEF ClosedAt
    <3>2. PICK d \in Nat : d = m - p + 1
      <4>1. p \in Int /\ 1 <= p /\ p <= m
        OBVIOUS
      <4>2. m - p + 1 \in Nat
        BY <4>1
      <4> QED
        BY <4>2
    <3>3. Balance(evs, j, i - 1) = d /\ \A k \in j..(i - 1) : Balance(evs, j, k) >= 1
      BY <1>4, <2>1, <3>2
    <3>4. \A k \in j..i : Balance(evs, j, k) >= 1
      <4>1. PICK c \in Int : c = d + 1
        OBVIOUS
      <4>2. c >= 1 /\ c = IF evs[(i - 1) + 1].kind = "enter" THEN d + 1 ELSE d - 1
        BY <1>1, <4>1
      <4>3. \A k \in j..((i - 1) + 1) : Balance(evs, j, k) >= 1
        BY <1>1, <3>3, <4>2, StillOpen
      <4> QED
        BY <1>1, <4>3
    <3>5. ~(r \in j..i)
      BY <3>1, <3>4
    <3>6. r > i
      BY <1>1, <3>1, <3>5
    <3> QED
      BY <1>3, <2>1, <2>2, <2>3, <3>6
  <2>6. CASE r = 0
    BY <1>3, <2>1, <2>2, <2>3, <2>6
  <2> QED
    BY <2>4, <2>5, <2>6
<1>6. ASSUME NEW j \in A PROVE \E p \in 1..m : t.stack[p] = j
  <2>1. j \in 1..(i - 1) /\ evs[j].kind = "enter" /\ j \in 1..n
    BY <1>1, <1>3
  <2>2. ReturnOf(evs, j) = 0 \/ ReturnOf(evs, j) > i
    BY <1>3
  <2>3. \/ \E p \in 1..m : t.stack[p] = j
        \/ t.end[j] <= i - 1 /\ ClosedAt(evs, j, t.end[j])
    BY <2>1 DEF TreeAt, OthersClosed
  <2>4. ASSUME t.end[j] <= i - 1, ClosedAt(evs, j, t.end[j]) PROVE FALSE
    <3>1. PICK k : k = t.end[j]
      OBVIOUS
    <3>2. k \in j..n /\ k <= i - 1
      BY <1>1, <2>4, <3>1 DEF ClosedAt
    <3>3. ReturnOf(evs, j) = k
      BY <2>1, <2>4, <3>1, ReturnIs
    <3>4. k = 0 \/ k > i
      BY <2>2, <3>3
    <3> QED
      BY <1>1, <2>1, <3>2, <3>4
  <2> QED
    BY <2>3, <2>4
<1>7. PICK s : s = t.stack
  OBVIOUS
<1>8. s \in [1..m -> Nat]
  <2>1. s = [p \in 1..m |-> s[p]]
    BY <1>7 DEF TreeAt, TreeShape
  <2>2. \A p \in 1..m : s[p] \in Nat
    BY <1>4, <1>7
  <2> QED
    BY <2>1, <2>2
<1>9. Cardinality(A) = m
  <2>1. \A p, q \in 1..m : p < q => s[p] < s[q]
    BY <1>4, <1>7
  <2>2. (\A p \in 1..m : s[p] \in A) /\ \A j \in A : \E p \in 1..m : s[p] = j
    BY <1>5, <1>6, <1>7
  <2> QED
    BY <1>8, <2>1, <2>2, ListAscends
<1>10. CASE m = 0
  <2>1. 1..m = {}
    BY <1>10
  <2>2. A = {}
    BY <1>6, <2>1
  <2> QED
    BY <1>2, <1>9, <1>10, <2>2
<1>11. CASE m # 0
  <2>1. m \in 1..m
    BY <1>11
  <2>2. s[m] \in A /\ s[m] \in Nat
    BY <1>5, <1>7, <1>8, <2>1
  <2>3. ASSUME NEW j \in A PROVE j \in Int /\ s[m] >= j
    <3>1. PICK p \in 1..m : s[p] = j
      BY <1>6, <1>7
    <3>2. p < m \/ p = m
      OBVIOUS
    <3>3. p < m => s[p] < s[m]
      BY <1>4, <1>7, <2>1
    <3>4. s[p] \in Nat
      BY <1>8
    <3> QED
      BY <2>2, <3>1, <3>2, <3>3, <3>4
  <2>4. \A x \in A : (\A j \in A : x >= j) => x = s[m]
    BY <2>2, <2>3
  <2>5. Max(A) = s[m]
    BY <2>2, <2>3, <2>4 DEF Max
  <2> QED
    BY <1>2, <1>7, <1>9, <1>11, <2>2, <2>5
<1> QED
  BY <1>10, <1>11

\* What is listed for an event stays.
LEMMA Stays ==
  ASSUME NEW n \in Nat, NEW f, \A j \in 1..n : \A i \in 1..(j - 1) : f[j][i] = f[j - 1][i],
         NEW i \in 1..n
  PROVE  f[n][i] = f[i][i]
<1> DEFINE Bad == {j \in i..n : f[j][i] # f[i][i]}
<1>1. SUFFICES ASSUME Bad # {} PROVE FALSE
  <2>1. n \in i..n
    OBVIOUS
  <2> QED
    BY <2>1
<1>2. Bad \in SUBSET Nat
  OBVIOUS
<1>3. PICK j \in Bad : \A l \in Bad : j <= l
  <2> HIDE DEF Bad
  <2> QED
    BY <1>1, <1>2, LeastNumber
<1>4. j \in i..n /\ f[j][i] # f[i][i]
  OBVIOUS
<1>5. j # i
  BY <1>4
<1>6. j - 1 \in i..n /\ ~(j <= j - 1) /\ i \in 1..(j - 1) /\ j \in 1..n
  BY <1>4, <1>5
<1>7. j - 1 \notin Bad
  <2> HIDE DEF Bad
  <2> QED
    BY <1>3, <1>6
<1>8. f[j - 1][i] = f[i][i]
  BY <1>6, <1>7
<1>9. f[j][i] = f[j - 1][i]
  BY <1>6
<1> QED
  BY <1>4, <1>8, <1>9

\* The tree and the depths that a reader makes of the events.
LEMMA TreeIs ==
  ASSUME NEW evs, NEW n, EventKinds(evs, n), NEW seq, n = Len(seq), DOMAIN seq = 1..n,
         \A j \in 1..n : seq[j].kind = evs[j].kind,
         NEW i \in 1..n, evs[i].kind = "enter"
  PROVE  /\ CallTree(seq).end[i] = ReturnOf(evs, i)
         /\ CallTree(seq).parent[i] = IF Around(evs, i) = {} THEN 0 ELSE Max(Around(evs, i))
         /\ Depths(seq)[i].depth = Cardinality(Around(evs, i))
<1>1. PICK acc, ds :
           /\ acc[n] = CallTree(seq) /\ ds[n] = Depths(seq)
           /\ \A j \in 0..n : TreesAt(evs, acc, ds, j)
           /\ \A j \in 1..n : Follows(evs, acc, ds, j)
  BY Trees
<1>2. n \in Nat /\ n \in 0..n /\ i - 1 \in 0..n /\ i \in 0..n /\ (i - 1) + 1 = i
  BY DEF EventKinds
<1>3. TreeAt(evs, acc[n], n) /\ TreeAt(evs, acc[i - 1], i - 1)
  BY <1>1, <1>2 DEF TreesAt
<1>4. CallTree(seq).end[i] = ReturnOf(evs, i)
  BY <1>1, <1>3, EndIs
<1>5. PICK t : t = acc[i - 1]
  OBVIOUS
<1>6. PICK m \in Nat : m = Len(t.stack)
  BY <1>3, <1>5 DEF TreeAt, TreeShape
<1>7. /\ Cardinality(Around(evs, i)) = m
      /\ IF Around(evs, i) = {} THEN m = 0 ELSE m # 0 /\ Max(Around(evs, i)) = t.stack[m]
  BY <1>3, <1>5, <1>6, AroundIs
<1>8. Pushed(t, acc[i], i - 1) /\ ds[i][i].depth = m
  BY <1>1, <1>5, <1>6 DEF Follows
<1>9. acc[i].parent[i] = IF m = 0 THEN 0 ELSE t.stack[m]
  BY <1>2, <1>6, <1>8 DEF Pushed, Top
<1>10. ds[n][i] = ds[i][i]
  <2>1. \A j \in 1..n : \A k \in 1..(j - 1) : ds[j][k] = ds[j - 1][k]
    BY <1>1 DEF Follows
  <2> QED
    BY <1>2, <2>1, Stays
<1>11. acc[n].parent[i] = acc[i].parent[i]
  <2>1. PICK f : f = [j \in 0..n |-> acc[j].parent]
    OBVIOUS
  <2>2. ASSUME NEW j \in 1..n, NEW k \in 1..(j - 1) PROVE f[j][k] = f[j - 1][k]
    <3>1. f[j] = acc[j].parent /\ f[j - 1] = acc[j - 1].parent
      BY <1>2, <2>1
    <3>2. Pushed(acc[j - 1], acc[j], j - 1) \/ Returned(acc[j - 1], acc[j], j - 1)
      BY <1>1 DEF Follows
    <3>3. \A l \in 1..(j - 1) : acc[j].parent[l] = acc[j - 1].parent[l]
      BY <3>2 DEF Pushed, Returned
    <3> QED
      BY <3>1, <3>3
  <2>3. f[n][i] = f[i][i]
    BY <1>2, <2>2, Stays
  <2> QED
    BY <1>2, <2>1, <2>3
<1> QED
  BY <1>1, <1>4, <1>7, <1>8, <1>9, <1>10, <1>11

-----------------------------------------------------------------------------
(* Theorems about calls *)

\* CallInv holds in every reachable state.
THEOREM CallInvariant == CallSpec => []CallInv
<1>1. CallInit => CallInv
  BY InitInv
<1>2. CallInv /\ [CallNext]_callVars => CallInv'
  <2> SUFFICES ASSUME CallInv, [CallNext]_callVars PROVE CallInv'
    OBVIOUS
  <2>1. CASE \E func \in DOMAIN Signatures, time \in CallTimes :
               \E args \in [1..Len(Signatures[func]) -> ArgValues] : Enter(func, args, time)
    BY <2>1, EnterInv
  <2>2. CASE \E ret \in Returns, time \in CallTimes : Exit(ret, time)
    BY <2>2, ExitInv
  <2>3. CASE CloseCalls \/ OpenCalls
    BY <2>3, PhaseInv
  <2>4. CASE EncodeEvent
    BY <2>4, EncodeInv
  <2>5. CASE DecodeEvent
    BY <2>5, DecodeInv
  <2>6. CASE UNCHANGED callVars
    <3> USE <2>6 DEF callVars, CallInv
    <3>1. CallTypeOK'
      BY DEF CallTypeOK
    <3>2. CallProgress'
      BY DEF CallProgress
    <3>3. CallsRepresentable' <=> CallsRepresentable
      BY DEF CallsRepresentable
    <3>4. CellsInOrder'
      <4>1. \A at, k : CellsAt(at, k)' <=> CellsAt(at, k)
        BY DEF CellsAt
      <4> QED
        BY <3>3, <4>1 DEF CellsInOrder
    <3>5. CallsInStep'
      BY <3>3 DEF CallsInStep
    <3>6. KindsInStep'
      BY DEF KindsInStep
    <3> QED
      BY <3>1, <3>2, <3>3, <3>4, <3>5, <3>6
  <2> QED
    BY <2>1, <2>2, <2>3, <2>4, <2>5, <2>6 DEF CallNext
<1> QED
  BY <1>1, <1>2, PTL DEF CallSpec

\* Writer and reader stay in step: after any number of events the reader has read what
\* was recorded, and its time, predictors and window are the writer's at that event,
\* for all signatures, windows and numbers of events whose differences fit a word.
THEOREM InStepThroughout == CallSpec => []CallsInStep
<1>1. CallInv => CallsInStep
  BY DEF CallInv
<1> QED
  BY <1>1, CallInvariant, PTL

\* The call tree that the reader makes of all events nests as the calls did, whatever
\* returns have no call, for all signatures, windows and numbers of events: a call ends
\* at its return, hangs off the call around it, and is as deep as there are calls around
\* it.  It holds of values too large for a word as well: kinds do not depend on them.
THEOREM NestsThroughout == CallSpec => []TreeNests
<1>1. CallInv => TreeNests
  <2> SUFFICES ASSUME CallInv, Len(callRead) = Len(callEvents),
                      NEW i \in 1..Len(callEvents), callEvents[i].kind = "enter"
               PROVE  /\ CallTree(callRead).end[i] = ReturnOf(callEvents, i)
                      /\ CallTree(callRead).parent[i] =
                           IF Around(callEvents, i) = {} THEN 0 ELSE Max(Around(callEvents, i))
                      /\ Depths(callRead)[i].depth = Cardinality(Around(callEvents, i))
    BY DEF TreeNests
  <2>1. PICK n : n = Len(callEvents)
    OBVIOUS
  <2>2. n \in Nat /\ DOMAIN callEvents = 1..n /\ \A j \in 1..n : EventOK(callEvents[j])
    BY <2>1 DEF CallInv, CallTypeOK
  <2>3. EventKinds(callEvents, n)
    <3>1. \A j \in 1..n : callEvents[j].kind \in {"enter", "exit"}
      BY <2>2 DEF EventOK
    <3> QED
      BY <2>1, <2>2, <3>1 DEF EventKinds
  <2>4. n = Len(callRead) /\ DOMAIN callRead = 1..n
    BY <2>1 DEF CallInv, CallTypeOK
  <2>5. \A j \in 1..n : callRead[j].kind = callEvents[j].kind
    BY <2>4 DEF CallInv, KindsInStep
  <2> QED
    BY <2>1, <2>3, <2>4, <2>5, TreeIs
<1> QED
  BY <1>1, CallInvariant, PTL

-----------------------------------------------------------------------------
(* Rows of cells *)

\* The format of an attribute's value in a row.
AttrFormat(schemas, tag, type, idx) ==
  IF tag = "ATTR" THEN "INLINE" ELSE FieldType(schemas, type, idx)

\* The cells of the attributes of a record, one by one.
LEMMA RowAttrsAre ==
  ASSUME NEW r, r.attrs \in Seq([idx : Nat, val : Int]), NEW a, a = RowAttrs(r)
  PROVE  /\ IsSequence(a) /\ Len(a) = 1 + 2 * Len(r.attrs) /\ a[1] = U(Len(r.attrs))
         /\ \A k \in 1..Len(r.attrs) :
              /\ a[2 * k] = U(r.attrs[k].idx)
              /\ a[2 * k + 1] = F(AttrFormat(txnBlk.known, r.tag, r.type, r.attrs[k].idx),
                                  r.attrs[k].val)
<1> DEFINE n == Len(r.attrs)
           fmt(idx) == AttrFormat(txnBlk.known, r.tag, r.type, idx)
           cell(k) == LET at == r.attrs[(k + 1) \div 2]
                      IN  IF k % 2 = 1 THEN U(at.idx) ELSE F(fmt(at.idx), at.val)
           w == [k \in 1..2 * n |-> cell(k)]
           h == <<U(n)>>
<1>1. n \in Nat
  OBVIOUS
<1>2. a = h \o w
  BY DEF RowAttrs, AttrFormat
<1>3. IsSequence(w) /\ Len(w) = 2 * n /\ \A k \in 1..2 * n : w[k] = cell(k)
  <2> HIDE DEF cell
  <2>1. 2 * n \in Nat
    BY <1>1
  <2> HIDE DEF n
  <2> QED
    BY <2>1 DEF IsSequence
<1>4. IsSequence(h) /\ Len(h) = 1 /\ h[1] = U(n)
  BY DEF IsSequence
<1> HIDE DEF w, h, n, fmt
<1>0. PICK x, y : x = h /\ y = w
  OBVIOUS
<1>5. /\ IsSequence(a) /\ Len(a) = 1 + 2 * n /\ a[1] = U(n)
      /\ \A i \in 1..2 * n : a[1 + i] = cell(i)
  <2> HIDE DEF cell
  <2>1. /\ IsSequence(a) /\ Len(a) = Len(h) + Len(w)
        /\ \A i \in 1..Len(h) : a[i] = h[i]
        /\ \A i \in 1..Len(w) : a[Len(h) + i] = w[i]
    <3>1. IsSequence(x) /\ IsSequence(y) /\ a = x \o y
      BY <1>0, <1>2, <1>3, <1>4
    <3>2. /\ IsSequence(a) /\ Len(a) = Len(x) + Len(y)
          /\ \A i \in 1..Len(x) : a[i] = x[i]
          /\ \A i \in 1..Len(y) : a[Len(x) + i] = y[i]
      BY <3>1, SequencesJoined
    <3> QED
      BY <1>0, <3>2
  <2> QED
    BY <1>1, <1>3, <1>4, <2>1
<1>6. ASSUME NEW k \in 1..n
      PROVE  /\ a[2 * k] = U(r.attrs[k].idx)
             /\ a[2 * k + 1] = F(fmt(r.attrs[k].idx), r.attrs[k].val)
  <2>1. /\ 2 * k - 1 \in 1..2 * n /\ 1 + (2 * k - 1) = 2 * k
        /\ 2 * k \in 1..2 * n /\ 1 + 2 * k = 2 * k + 1
    BY <1>1
  <2>2. ((2 * k - 1) + 1) \div 2 = k /\ (2 * k - 1) % 2 = 1
    BY <1>1
  <2>3. (2 * k + 1) \div 2 = k /\ (2 * k) % 2 = 0
    BY <1>1
  <2>4. cell(2 * k - 1) = U(r.attrs[k].idx)
    BY <2>2
  <2>5. cell(2 * k) = F(fmt(r.attrs[k].idx), r.attrs[k].val)
    BY <2>3
  <2> HIDE DEF cell
  <2>6. a[1 + (2 * k - 1)] = cell(2 * k - 1) /\ a[1 + 2 * k] = cell(2 * k)
    BY <1>5, <2>1
  <2> QED
    BY <2>1, <2>4, <2>5, <2>6
<1> QED
  BY <1>5, <1>6 DEF n, fmt

\* Attributes ahead are found and read as they were, when both sides have the
\* same format for each.
LEMMA ReadsAttrs ==
  ASSUME NEW r, r.attrs \in Seq([idx : Nat, val : Int]), NEW a, a = RowAttrs(r),
         NEW cells, NEW c, CellsAhead(cells, c, a), NEW type,
         \A idx : AttrFormat(txnBlk.known, r.tag, r.type, idx)
                    = AttrFormat(txnReg, r.tag, type, idx)
  PROVE  /\ HoldsAttrs(cells, c, r.tag, type) /\ AttrsAt(cells, c) = r.attrs
         /\ cells[c + 1].val = Len(r.attrs)
<1>1. PICK n : n = Len(r.attrs)
  OBVIOUS
<1>2. /\ n \in Nat /\ Len(a) = 1 + 2 * n /\ a[1] = U(n)
      /\ \A k \in 1..n :
           /\ a[2 * k] = U(r.attrs[k].idx)
           /\ a[2 * k + 1] = F(AttrFormat(txnReg, r.tag, type, r.attrs[k].idx), r.attrs[k].val)
  BY <1>1, RowAttrsAre
<1>3. /\ c \in Nat /\ Len(cells) \in Nat /\ c + 1 + 2 * n <= Len(cells)
      /\ \A i \in 1..1 + 2 * n : cells[c + i] = a[i]
  BY <1>2 DEF CellsAhead
<1>4. cells[c + 1] = U(n) /\ cells[c + 1].val = n /\ cells[c + 1].fmt = "u"
  BY <1>2, <1>3 DEF U
<1>5. ASSUME NEW k \in 1..n
      PROVE  /\ cells[c + 2 * k].fmt = "u" /\ cells[c + 2 * k].val = r.attrs[k].idx
             /\ cells[c + 2 * k + 1].fmt = AttrFormat(txnReg, r.tag, type, r.attrs[k].idx)
             /\ cells[c + 2 * k + 1].val = r.attrs[k].val
  <2>1. /\ 2 * k \in 1..1 + 2 * n /\ 2 * k + 1 \in 1..1 + 2 * n
        /\ c + (2 * k + 1) = c + 2 * k + 1
    BY <1>2, <1>3
  <2>2. cells[c + 2 * k] = a[2 * k] /\ cells[c + 2 * k + 1] = a[2 * k + 1]
    BY <1>3, <2>1
  <2>3. /\ cells[c + 2 * k] = U(r.attrs[k].idx)
        /\ cells[c + (2 * k + 1)]
             = F(AttrFormat(txnReg, r.tag, type, r.attrs[k].idx), r.attrs[k].val)
    BY <1>2, <2>1, <2>2
  <2>4. cells[c + 2 * k].fmt = "u" /\ cells[c + 2 * k].val = r.attrs[k].idx
    BY <2>3 DEF U
  <2>5. /\ cells[c + (2 * k + 1)].fmt = AttrFormat(txnReg, r.tag, type, r.attrs[k].idx)
        /\ cells[c + (2 * k + 1)].val = r.attrs[k].val
    BY <2>3 DEF F
  <2> QED
    BY <2>1, <2>4, <2>5
<1>6. HoldsAttrs(cells, c, r.tag, type)
  <2>1. Holds(cells, c, <<"u">>)
    BY <1>2, <1>3, <1>4 DEF Holds
  <2>2. ASSUME NEW k \in 1..n PROVE Holds(cells, c + 2 * k - 1, <<"u">>)
    <3>1. c + 2 * k - 1 + 1 <= Len(cells) /\ c + 2 * k - 1 + 1 = c + 2 * k
      BY <1>2, <1>3
    <3>2. cells[c + 2 * k].fmt = "u"
      BY <1>5
    <3>3. Len(<<"u">>) = 1 /\ <<"u">>[1] = "u"
      OBVIOUS
    <3> QED
      BY <3>1, <3>2, <3>3 DEF Holds
  <2>3. ASSUME NEW k \in 1..n
        PROVE  Holds(cells, c + 2 * k, <<AttrFormat(txnReg, r.tag, type, cells[c + 2 * k].val)>>)
    <3>1. c + 2 * k + 1 <= Len(cells)
      BY <1>2, <1>3
    <3> QED
      BY <1>5, <3>1 DEF Holds
  <2> QED
    BY <1>4, <2>1, <2>2, <2>3 DEF HoldsAttrs, AttrFormat
<1>7. AttrsAt(cells, c) = r.attrs
  <2>1. AttrsAt(cells, c) = [k \in 1..n |-> [idx |-> cells[c + 2 * k].val,
                                             val |-> cells[c + 2 * k + 1].val]]
    BY <1>4 DEF AttrsAt
  <2>2. \A k \in 1..n : r.attrs[k] = [idx |-> r.attrs[k].idx, val |-> r.attrs[k].val]
    <3> DEFINE R == [idx : Nat, val : Int]
    <3> HIDE DEF R
    <3>0. r.attrs \in Seq(R)
      BY DEF R
    <3>1. \A k \in 1..n : r.attrs[k] \in R
      BY <1>1, <3>0
    <3> USE DEF R
    <3> QED
      BY <3>1
  <2>3. r.attrs = [k \in 1..n |-> r.attrs[k]]
    BY <1>1
  <2>4. \A k \in 1..n : [idx |-> cells[c + 2 * k].val, val |-> cells[c + 2 * k + 1].val]
                          = r.attrs[k]
    BY <1>5, <2>2
  <2> QED
    BY <2>1, <2>3, <2>4
<1> QED
  BY <1>1, <1>4, <1>6, <1>7
\* A cell before others.
LEMMA HeadThen ==
  ASSUME NEW x, NEW p, IsSequence(p)
  PROVE  LET s == <<x>> \o p
         IN  /\ IsSequence(s) /\ Len(s) = 1 + Len(p) /\ s[1] = x
             /\ \A i \in 1..Len(p) : s[1 + i] = p[i]
<1> DEFINE h == <<x>>
<1>1. IsSequence(h) /\ Len(h) = 1 /\ h[1] = x
  BY DEF IsSequence
<1>2. 1 \in 1..Len(h)
  BY <1>1
<1> HIDE DEF h
<1>3. LET s == h \o p
      IN  /\ IsSequence(s) /\ Len(s) = 1 + Len(p) /\ s[1] = x
          /\ \A i \in 1..Len(p) : s[1 + i] = p[i]
  <2> DEFINE s == h \o p
  <2>1. /\ IsSequence(s) /\ Len(s) = Len(h) + Len(p)
        /\ \A i \in 1..Len(h) : s[i] = h[i]
        /\ \A i \in 1..Len(p) : s[Len(h) + i] = p[i]
    <3>1. IsSequence(h)
      BY <1>1
    <3> QED
      BY <3>1, SequencesJoined
  <2> HIDE DEF s
  <2>2. /\ IsSequence(s) /\ Len(s) = 1 + Len(p) /\ s[1] = x
        /\ \A i \in 1..Len(p) : s[1 + i] = p[i]
    BY <1>1, <1>2, <2>1
  <2> QED
    BY <2>2 DEF s
<1> QED
  BY <1>3 DEF h

\* s is x, and then p and a.
Joins(s, x, p, a) ==
  /\ IsSequence(s) /\ Len(s) = 1 + Len(p) + Len(a) /\ s[1] = x
  /\ \A i \in 1..Len(p) : s[1 + i] = p[i]
  /\ \A i \in 1..Len(a) : s[1 + Len(p) + i] = a[i]

\* A cell and cells before others.
LEMMA HeadThenTwo ==
  ASSUME NEW x, NEW p, IsSequence(p), NEW a, IsSequence(a)
  PROVE  Joins(<<x>> \o (p \o a), x, p, a)
<1> DEFINE q == p \o a
           s == <<x>> \o q
<1>0. Len(p) \in Nat /\ Len(a) \in Nat
  BY DEF IsSequence
<1>1. /\ IsSequence(q) /\ Len(q) = Len(p) + Len(a)
      /\ \A i \in 1..Len(p) : q[i] = p[i]
      /\ \A i \in 1..Len(a) : q[Len(p) + i] = a[i]
  BY SequencesJoined
<1> HIDE DEF q
<1>2. /\ IsSequence(s) /\ Len(s) = 1 + Len(q) /\ s[1] = x
      /\ \A i \in 1..Len(q) : s[1 + i] = q[i]
  BY <1>1, HeadThen
<1> HIDE DEF s
<1>3. \A i \in 1..Len(p) : s[1 + i] = p[i]
  <2> TAKE i \in 1..Len(p)
  <2>1. i \in 1..Len(q)
    BY <1>0, <1>1
  <2> QED
    BY <1>1, <1>2, <2>1
<1>4. \A i \in 1..Len(a) : s[1 + Len(p) + i] = a[i]
  <2> TAKE i \in 1..Len(a)
  <2>1. Len(p) + i \in 1..Len(q) /\ 1 + (Len(p) + i) = 1 + Len(p) + i
    BY <1>0, <1>1
  <2>2. s[1 + (Len(p) + i)] = q[Len(p) + i]
    BY <1>2, <2>1
  <2> QED
    BY <1>1, <2>1, <2>2
<1>5. /\ IsSequence(s) /\ Len(s) = 1 + Len(p) + Len(a) /\ s[1] = x
      /\ \A i \in 1..Len(p) : s[1 + i] = p[i]
      /\ \A i \in 1..Len(a) : s[1 + Len(p) + i] = a[i]
  BY <1>0, <1>1, <1>2, <1>3, <1>4
<1> QED
  BY <1>5 DEF s, q, Joins

-----------------------------------------------------------------------------
(* The rows of each kind of record *)

\* Numbers that go by difference or as words, and ends by their distance or as words.
Plain(n) == IF txnBlk.delta THEN U(n) ELSE Q(n)
EndCell(r) == IF txnBlk.delta THEN U(r.end - r.start) ELSE Q(r.end)

LEMMA FullRow ==
  ASSUME NEW mark, NEW r, r.tag = "FULL", r.attrs \in Seq([idx : Nat, val : Int]),
         NEW s, s = RowCells(mark, r), NEW a, a = RowAttrs(r)
  PROVE  /\ IsSequence(s) /\ Len(s) = 7 + Len(a)
         /\ s[1] = F("TAG", "FULL") /\ s[2] = U(r.stream) /\ s[3] = U(r.type)
         /\ s[4] = IdCell(mark, r) /\ s[5] = TimeCell(mark, r.start)
         /\ s[6] = EndCell(r) /\ s[7] = Plain(r.parent)
         /\ \A i \in 1..Len(a) : s[7 + i] = a[i]
<1> DEFINE x == F("TAG", "FULL")
           p == <<U(r.stream), U(r.type), IdCell(mark, r), TimeCell(mark, r.start),
                  EndCell(r), Plain(r.parent)>>
<1>1. s = <<x>> \o (p \o a)
  BY DEF RowCells, EndCell, Plain
<1>2. IsSequence(a)
  BY RowAttrsAre
<1>3. /\ IsSequence(p) /\ Len(p) = 6
      /\ p[1] = U(r.stream) /\ p[2] = U(r.type) /\ p[3] = IdCell(mark, r)
      /\ p[4] = TimeCell(mark, r.start) /\ p[5] = EndCell(r) /\ p[6] = Plain(r.parent)
  BY DEF IsSequence
<1>4. Len(a) \in Nat
  BY <1>2 DEF IsSequence
<1> HIDE DEF x, p
<1>5. /\ IsSequence(s) /\ Len(s) = 1 + Len(p) + Len(a) /\ s[1] = x
      /\ \A i \in 1..Len(p) : s[1 + i] = p[i]
      /\ \A i \in 1..Len(a) : s[1 + Len(p) + i] = a[i]
  <2>1. Joins(<<x>> \o (p \o a), x, p, a)
    BY <1>2, <1>3, HeadThenTwo
  <2>2. Joins(s, x, p, a)
    BY <1>1, <2>1
  <2> QED
    BY <2>2 DEF Joins
<1>6. s[2] = p[1] /\ s[3] = p[2] /\ s[4] = p[3] /\ s[5] = p[4] /\ s[6] = p[5] /\ s[7] = p[6]
  BY <1>3, <1>5
<1>7. Len(s) = 7 + Len(a) /\ \A i \in 1..Len(a) : s[7 + i] = a[i]
  BY <1>3, <1>4, <1>5
<1> QED
  BY <1>3, <1>5, <1>6, <1>7 DEF x

LEMMA AttrRow ==
  ASSUME NEW mark, NEW r, r.tag = "ATTR", r.attrs \in Seq([idx : Nat, val : Int]),
         NEW s, s = RowCells(mark, r), NEW a, a = RowAttrs(r)
  PROVE  /\ IsSequence(s) /\ Len(s) = 2 + Len(a)
         /\ s[1] = F("TAG", "ATTR") /\ s[2] = IdCell(mark, r)
         /\ \A i \in 1..Len(a) : s[2 + i] = a[i]
<1> DEFINE x == F("TAG", "ATTR")
           p == <<IdCell(mark, r)>>
<1>1. s = <<x>> \o (p \o a)
  BY DEF RowCells
<1>2. IsSequence(a)
  BY RowAttrsAre
<1>3. IsSequence(p) /\ Len(p) = 1 /\ p[1] = IdCell(mark, r)
  BY DEF IsSequence
<1>4. Len(a) \in Nat
  BY <1>2 DEF IsSequence
<1> HIDE DEF x, p
<1>5. /\ IsSequence(s) /\ Len(s) = 1 + Len(p) + Len(a) /\ s[1] = x
      /\ \A i \in 1..Len(p) : s[1 + i] = p[i]
      /\ \A i \in 1..Len(a) : s[1 + Len(p) + i] = a[i]
  <2>1. Joins(<<x>> \o (p \o a), x, p, a)
    BY <1>2, <1>3, HeadThenTwo
  <2>2. Joins(s, x, p, a)
    BY <1>1, <2>1
  <2> QED
    BY <2>2 DEF Joins
<1>6. s[2] = p[1]
  BY <1>3, <1>5
<1>7. Len(s) = 2 + Len(a) /\ \A i \in 1..Len(a) : s[2 + i] = a[i]
  BY <1>3, <1>4, <1>5
<1> QED
  BY <1>3, <1>5, <1>6, <1>7 DEF x

LEMMA BeginRow ==
  ASSUME NEW mark, NEW r, r.tag = "BEGIN", NEW s, s = RowCells(mark, r)
  PROVE  /\ IsSequence(s) /\ Len(s) = 6
         /\ s[1] = F("TAG", "BEGIN") /\ s[2] = U(r.stream) /\ s[3] = U(r.type)
         /\ s[4] = IdCell(mark, r) /\ s[5] = TimeCell(mark, r.start) /\ s[6] = Plain(r.parent)
<1>1. s = <<F("TAG", "BEGIN")>> \o <<U(r.stream), U(r.type), IdCell(mark, r),
                                     TimeCell(mark, r.start), Plain(r.parent)>>
  BY DEF RowCells, Plain
<1> QED
  BY <1>1 DEF IsSequence

LEMMA EndRow ==
  ASSUME NEW mark, NEW r, r.tag = "END", NEW s, s = RowCells(mark, r)
  PROVE  /\ IsSequence(s) /\ Len(s) = 3
         /\ s[1] = F("TAG", "END") /\ s[2] = IdCell(mark, r) /\ s[3] = TimeCell(mark, r.end)
<1>1. s = <<F("TAG", "END")>> \o <<IdCell(mark, r), TimeCell(mark, r.end)>>
  BY DEF RowCells
<1> QED
  BY <1>1 DEF IsSequence

LEMMA LinkRow ==
  ASSUME NEW mark, NEW r, r.tag = "LINK", NEW s, s = RowCells(mark, r)
  PROVE  /\ IsSequence(s) /\ Len(s) = 5
         /\ s[1] = F("TAG", "LINK") /\ s[2] = U(r.link) /\ s[3] = IdCell(mark, r)
         /\ s[4] = Plain(r.target) /\ s[5] = U(r.label)
<1>1. s = <<F("TAG", "LINK")>> \o <<U(r.link), IdCell(mark, r), Plain(r.target), U(r.label)>>
  BY DEF RowCells, Plain
<1> QED
  BY <1>1 DEF IsSequence

LEMMA MetaRow ==
  ASSUME NEW mark, NEW r, r.tag = "META", NEW s, s = RowCells(mark, r)
  PROVE  /\ IsSequence(s) /\ Len(s) = 4
         /\ s[1] = F("TAG", "META") /\ s[2] = IdCell(mark, r) /\ s[3] = U(r.key)
         /\ s[4] = U(r.value)
<1>1. s = <<F("TAG", "META")>> \o <<IdCell(mark, r), U(r.key), U(r.value)>>
  BY DEF RowCells
<1> QED
  BY <1>1 DEF IsSequence

\* The row of a record is a sequence.
LEMMA RowTyped ==
  ASSUME NEW mark, NEW r, RecordOK(r)
  PROVE  IsSequence(RowCells(mark, r))
<1>1. PICK s, a : s = RowCells(mark, r) /\ a = RowAttrs(r)
  OBVIOUS
<1>2. CASE r.tag = "FULL"
  BY <1>1, <1>2, FullRow DEF RecordOK
<1>3. CASE r.tag = "ATTR"
  BY <1>1, <1>3, AttrRow DEF RecordOK
<1>4. CASE r.tag = "BEGIN"
  BY <1>1, <1>4, BeginRow
<1>5. CASE r.tag = "END"
  BY <1>1, <1>5, EndRow
<1>6. CASE r.tag = "LINK"
  BY <1>1, <1>6, LinkRow
<1>7. CASE r.tag = "META"
  BY <1>1, <1>7, MetaRow
<1> QED
  BY <1>2, <1>3, <1>4, <1>5, <1>6, <1>7 DEF RecordOK

-----------------------------------------------------------------------------
(* The reader at the row of a record *)

\* The differences of a record to the state before it fit a word.
Fits(mark, r) ==
  txnBlk.delta =>
    /\ Signed(r.id - mark.id)
    /\ r.tag \in {"FULL", "BEGIN"} => Signed(r.start - mark.time)
    /\ r.tag = "END" => Signed(r.end - mark.time)

\* The reader knows the types of the attributes as the writer does.
SameFormats(r) ==
  r.tag = "FULL" =>
    \A idx : FieldType(txnBlk.known, r.type, idx) = FieldType(txnReg, r.type, idx)

\* A record was read from a row of n cells.
RowTaken(n, r) ==
  /\ txnRead' = Append(txnRead, r) /\ txnPhase' = txnPhase
  /\ txnCur' = [txnCur EXCEPT ![Col.row] = txnCur[Col.row] + n]

\* The reader's state and the record that comes, at the writer's state mark.
RowAhead(mark, r) ==
  /\ txnBlk.delta \in BOOLEAN /\ RecordOK(r) /\ MarkOK(mark) /\ Fits(mark, r) /\ SameFormats(r)
  /\ Reached(txnRead) = mark
  /\ CellsAhead(txnCols[Col.row], txnCur[Col.row], RowCells(mark, r))

\* Ids and times are read as they were, in the format the reader expects.
LEMMA ReadsId ==
  ASSUME NEW mark, NEW r, RowAhead(mark, r), r.id \in Int
  PROVE  /\ ReadId(IdCell(mark, r).val) = r.id
         /\ IdCell(mark, r).fmt = IF txnBlk.delta THEN "s" ELSE "q"
<1>1. mark.id \in Int /\ Reached(txnRead) = mark /\ txnBlk.delta \in BOOLEAN
  BY DEF RowAhead, MarkOK
<1>2. CASE txnBlk.delta
  <2>1. Signed(r.id - mark.id)
    BY <1>2 DEF RowAhead, Fits
  <2>2. Unzigzag(Zigzag(r.id - mark.id)) = r.id - mark.id
    BY <1>1, <2>1, UnzigzagZigzag
  <2>3. IdCell(mark, r).val = Zigzag(r.id - mark.id) /\ IdCell(mark, r).fmt = "s"
    BY <1>2 DEF IdCell, S
  <2>4. ReadId(IdCell(mark, r).val) = mark.id + (r.id - mark.id)
    BY <1>1, <1>2, <2>2, <2>3 DEF ReadId
  <2> QED
    BY <1>1, <1>2, <2>3, <2>4
<1>3. CASE ~txnBlk.delta
  BY <1>3 DEF IdCell, ReadId, Q
<1> QED
  BY <1>1, <1>2, <1>3

LEMMA ReadsTime ==
  ASSUME NEW mark, NEW r, RowAhead(mark, r), NEW t \in Int,
         txnBlk.delta => Signed(t - mark.time)
  PROVE  /\ ReadTime(TimeCell(mark, t).val) = t
         /\ TimeCell(mark, t).fmt = IF txnBlk.delta THEN "s" ELSE "q"
<1>1. mark.time \in Int /\ Reached(txnRead) = mark /\ txnBlk.delta \in BOOLEAN
  BY DEF RowAhead, MarkOK
<1>2. CASE txnBlk.delta
  <2>2. Unzigzag(Zigzag(t - mark.time)) = t - mark.time
    BY <1>1, <1>2, UnzigzagZigzag
  <2>3. TimeCell(mark, t).val = Zigzag(t - mark.time) /\ TimeCell(mark, t).fmt = "s"
    BY <1>2 DEF TimeCell, S
  <2>4. ReadTime(TimeCell(mark, t).val) = mark.time + (t - mark.time)
    BY <1>1, <1>2, <2>2, <2>3 DEF ReadTime
  <2> QED
    BY <1>1, <1>2, <2>3, <2>4
<1>3. CASE ~txnBlk.delta
  BY <1>3 DEF TimeCell, ReadTime, Q
<1> QED
  BY <1>1, <1>2, <1>3

\* A reader at cells of the formats it expects, with attributes where it expects them,
\* reads a record off.
LEMMA RowReads ==
  ASSUME DecodeRow, NEW cells, cells = txnCols[Col.row], NEW c, c = txnCur[Col.row],
         NEW tag, cells[c + 1].val = tag, Holds(cells, c, <<"TAG">>),
         NEW p, p = c + Len(RowFormats(tag)), Holds(cells, c, RowFormats(tag))
  PROVE  /\ tag \notin {"FULL", "ATTR"} =>
              /\ txnRead' = Append(txnRead, RowRecord(tag, cells, c, << >>))
              /\ txnCur' = [txnCur EXCEPT ![Col.row] = p] /\ txnPhase' = txnPhase
         /\ tag \in {"FULL", "ATTR"} /\ HoldsAttrs(cells, p, tag, cells[c + 3].val) =>
              /\ txnRead' = Append(txnRead, RowRecord(tag, cells, c, AttrsAt(cells, p)))
              /\ txnCur' = [txnCur EXCEPT ![Col.row] = p + 1 + 2 * cells[p + 1].val]
              /\ txnPhase' = txnPhase
BY DEF DecodeRow

\* Short rows, without attributes: what the reader finds is the record.
LEMMA ReadsBegin ==
  ASSUME DecodeRow, NEW mark, NEW r, RowAhead(mark, r), r.tag = "BEGIN",
         NEW s, s = RowCells(mark, r)
  PROVE  RowTaken(Len(s), r)
<1>1. PICK cells, c : cells = txnCols[Col.row] /\ c = txnCur[Col.row]
  OBVIOUS
<1>2. /\ Len(s) = 6
      /\ s[1] = F("TAG", "BEGIN") /\ s[2] = U(r.stream) /\ s[3] = U(r.type)
      /\ s[4] = IdCell(mark, r) /\ s[5] = TimeCell(mark, r.start) /\ s[6] = Plain(r.parent)
  BY BeginRow
<1>3. /\ c \in Nat /\ Len(cells) \in Nat /\ c + 6 <= Len(cells)
      /\ cells[c + 1] = s[1] /\ cells[c + 2] = s[2] /\ cells[c + 3] = s[3]
      /\ cells[c + 4] = s[4] /\ cells[c + 5] = s[5] /\ cells[c + 6] = s[6]
  <2>1. CellsAhead(cells, c, s)
    BY <1>1 DEF RowAhead
  <2>2. Len(s) = 6
    BY <1>2
  <2> QED
    BY <2>1, <2>2 DEF CellsAhead
<1>4. /\ r = [tag |-> r.tag, stream |-> r.stream, type |-> r.type, id |-> r.id,
              start |-> r.start, parent |-> r.parent]
      /\ r.id \in Int /\ r.start \in Int
  BY DEF RowAhead, RecordOK
<1>5. /\ ReadId(cells[c + 4].val) = r.id
      /\ cells[c + 4].fmt = IF txnBlk.delta THEN "s" ELSE "q"
  BY <1>2, <1>3, <1>4, ReadsId
<1>6. /\ ReadTime(cells[c + 5].val) = r.start
      /\ cells[c + 5].fmt = IF txnBlk.delta THEN "s" ELSE "q"
  <2>1. txnBlk.delta => Signed(r.start - mark.time)
    BY DEF RowAhead, Fits
  <2> QED
    BY <1>2, <1>3, <1>4, <2>1, ReadsTime
<1>7. /\ cells[c + 1].fmt = "TAG" /\ cells[c + 1].val = "BEGIN"
      /\ cells[c + 2].fmt = "u" /\ cells[c + 2].val = r.stream
      /\ cells[c + 3].fmt = "u" /\ cells[c + 3].val = r.type
      /\ cells[c + 6].fmt = (IF txnBlk.delta THEN "u" ELSE "q") /\ cells[c + 6].val = r.parent
  BY <1>2, <1>3 DEF F, U, Q, Plain
<1>8. Holds(cells, c, <<"TAG">>)
  BY <1>3, <1>7 DEF Holds
<1>9. Len(RowFormats("BEGIN")) = 6 /\ Holds(cells, c, RowFormats("BEGIN"))
  <2> DEFINE signed == IF txnBlk.delta THEN "s" ELSE "q"
             plain == IF txnBlk.delta THEN "u" ELSE "q"
             f == RowFormats("BEGIN")
  <2>1. f = <<"TAG", "u", "u", signed, signed, plain>>
    BY DEF RowFormats
  <2>2. /\ cells[c + 4].fmt = signed /\ cells[c + 5].fmt = signed /\ cells[c + 6].fmt = plain
    BY <1>5, <1>6, <1>7
  <2> HIDE DEF signed, plain, f
  <2>3. /\ Len(f) = 6 /\ f[1] = "TAG" /\ f[2] = "u" /\ f[3] = "u" /\ f[4] = signed
        /\ f[5] = signed /\ f[6] = plain
    BY <2>1
  <2>4. \A k \in 1..6 : cells[c + k].fmt = f[k]
    <3>1. \A k \in 1..6 : k = 1 \/ k = 2 \/ k = 3 \/ k = 4 \/ k = 5 \/ k = 6
      OBVIOUS
    <3> QED
      BY <1>7, <2>2, <2>3, <3>1
  <2>5. Holds(cells, c, f)
    BY <1>3, <2>3, <2>4 DEF Holds
  <2> QED
    BY <2>3, <2>5 DEF f
<1>10. RowRecord("BEGIN", cells, c, << >>) = r
  BY <1>4, <1>5, <1>6, <1>7 DEF RowRecord
<1>11. /\ txnRead' = Append(txnRead, r) /\ txnPhase' = txnPhase
       /\ txnCur' = [txnCur EXCEPT ![Col.row] = c + 6]
  <2>1. PICK p : p = c + 6
    OBVIOUS
  <2>2. p = c + Len(RowFormats("BEGIN"))
    BY <1>9, <2>1
  <2>3. cells[c + 1].val = "BEGIN" /\ Holds(cells, c, RowFormats("BEGIN"))
    BY <1>7, <1>9
  <2>4. /\ txnRead' = Append(txnRead, RowRecord("BEGIN", cells, c, << >>))
        /\ txnCur' = [txnCur EXCEPT ![Col.row] = p] /\ txnPhase' = txnPhase
    BY <1>1, <1>8, <2>2, <2>3, RowReads
  <2> QED
    BY <1>10, <2>1, <2>4
<1> QED
  BY <1>1, <1>2, <1>11 DEF RowTaken
LEMMA ReadsEnd ==
  ASSUME DecodeRow, NEW mark, NEW r, RowAhead(mark, r), r.tag = "END",
         NEW s, s = RowCells(mark, r)
  PROVE  RowTaken(Len(s), r)
<1>1. PICK cells, c : cells = txnCols[Col.row] /\ c = txnCur[Col.row]
  OBVIOUS
<1>2. /\ Len(s) = 3
      /\ s[1] = F("TAG", "END") /\ s[2] = IdCell(mark, r)
      /\ s[3] = TimeCell(mark, r.end)
  BY EndRow
<1>3. /\ c \in Nat /\ Len(cells) \in Nat /\ c + 3 <= Len(cells)
      /\ cells[c + 1] = s[1] /\ cells[c + 2] = s[2] /\ cells[c + 3] = s[3]
  <2>1. CellsAhead(cells, c, s)
    BY <1>1 DEF RowAhead
  <2>2. Len(s) = 3
    BY <1>2
  <2> QED
    BY <2>1, <2>2 DEF CellsAhead
<1>4. /\ r = [tag |-> r.tag, id |-> r.id, end |-> r.end]
      /\ r.id \in Int /\ r.end \in Int
  BY DEF RowAhead, RecordOK
<1>5. /\ ReadId(cells[c + 2].val) = r.id
      /\ cells[c + 2].fmt = IF txnBlk.delta THEN "s" ELSE "q"
  BY <1>2, <1>3, <1>4, ReadsId
<1>6. /\ ReadTime(cells[c + 3].val) = r.end
      /\ cells[c + 3].fmt = IF txnBlk.delta THEN "s" ELSE "q"
  <2>1. txnBlk.delta => Signed(r.end - mark.time)
    BY DEF RowAhead, Fits
  <2> QED
    BY <1>2, <1>3, <1>4, <2>1, ReadsTime
<1>7. /\ cells[c + 1].fmt = "TAG" /\ cells[c + 1].val = "END"
  BY <1>2, <1>3 DEF F, U, Q, Plain
<1>8. Holds(cells, c, <<"TAG">>)
  BY <1>3, <1>7 DEF Holds
<1>9. Len(RowFormats("END")) = 3 /\ Holds(cells, c, RowFormats("END"))
  <2> DEFINE signed == IF txnBlk.delta THEN "s" ELSE "q"
             plain == IF txnBlk.delta THEN "u" ELSE "q"
             f == RowFormats("END")
  <2>1. f = <<"TAG", signed, signed>>
    BY DEF RowFormats
  <2>2. cells[c + 2].fmt = signed /\ cells[c + 3].fmt = signed
    BY <1>5, <1>6, <1>7
  <2> HIDE DEF signed, plain, f
  <2>3. Len(f) = 3 /\ f[1] = "TAG" /\ f[2] = signed /\ f[3] = signed
    BY <2>1
  <2>4. \A k \in 1..3 : cells[c + k].fmt = f[k]
    <3>1. \A k \in 1..3 : k = 1 \/ k = 2 \/ k = 3
      OBVIOUS
    <3> QED
      BY <1>7, <2>2, <2>3, <3>1
  <2>5. Holds(cells, c, f)
    BY <1>3, <2>3, <2>4 DEF Holds
  <2> QED
    BY <2>3, <2>5 DEF f
<1>10. RowRecord("END", cells, c, << >>) = r
  BY <1>4, <1>5, <1>6, <1>7 DEF RowRecord
<1>11. /\ txnRead' = Append(txnRead, r) /\ txnPhase' = txnPhase
       /\ txnCur' = [txnCur EXCEPT ![Col.row] = c + 3]
  <2>1. PICK p : p = c + 3
    OBVIOUS
  <2>2. p = c + Len(RowFormats("END"))
    BY <1>9, <2>1
  <2>3. cells[c + 1].val = "END" /\ Holds(cells, c, RowFormats("END"))
    BY <1>7, <1>9
  <2>4. /\ txnRead' = Append(txnRead, RowRecord("END", cells, c, << >>))
        /\ txnCur' = [txnCur EXCEPT ![Col.row] = p] /\ txnPhase' = txnPhase
    BY <1>1, <1>8, <2>2, <2>3, RowReads
  <2> QED
    BY <1>10, <2>1, <2>4
<1> QED
  BY <1>1, <1>2, <1>11 DEF RowTaken

LEMMA ReadsLink ==
  ASSUME DecodeRow, NEW mark, NEW r, RowAhead(mark, r), r.tag = "LINK",
         NEW s, s = RowCells(mark, r)
  PROVE  RowTaken(Len(s), r)
<1>1. PICK cells, c : cells = txnCols[Col.row] /\ c = txnCur[Col.row]
  OBVIOUS
<1>2. /\ Len(s) = 5
      /\ s[1] = F("TAG", "LINK") /\ s[2] = U(r.link)
      /\ s[3] = IdCell(mark, r) /\ s[4] = Plain(r.target)
      /\ s[5] = U(r.label)
  BY LinkRow
<1>3. /\ c \in Nat /\ Len(cells) \in Nat /\ c + 5 <= Len(cells)
      /\ cells[c + 1] = s[1] /\ cells[c + 2] = s[2] /\ cells[c + 3] = s[3]
      /\ cells[c + 4] = s[4] /\ cells[c + 5] = s[5]
  <2>1. CellsAhead(cells, c, s)
    BY <1>1 DEF RowAhead
  <2>2. Len(s) = 5
    BY <1>2
  <2> QED
    BY <2>1, <2>2 DEF CellsAhead
<1>4. /\ r = [tag |-> r.tag, link |-> r.link, id |-> r.id, target |-> r.target, label |-> r.label]
      /\ r.id \in Int
  BY DEF RowAhead, RecordOK
<1>5. /\ ReadId(cells[c + 3].val) = r.id
      /\ cells[c + 3].fmt = IF txnBlk.delta THEN "s" ELSE "q"
  BY <1>2, <1>3, <1>4, ReadsId
<1>7. /\ cells[c + 1].fmt = "TAG" /\ cells[c + 1].val = "LINK"
      /\ cells[c + 2].fmt = "u" /\ cells[c + 2].val = r.link
      /\ cells[c + 4].fmt = (IF txnBlk.delta THEN "u" ELSE "q") /\ cells[c + 4].val = r.target
      /\ cells[c + 5].fmt = "u" /\ cells[c + 5].val = r.label
  BY <1>2, <1>3 DEF F, U, Q, Plain
<1>8. Holds(cells, c, <<"TAG">>)
  BY <1>3, <1>7 DEF Holds
<1>9. Len(RowFormats("LINK")) = 5 /\ Holds(cells, c, RowFormats("LINK"))
  <2> DEFINE signed == IF txnBlk.delta THEN "s" ELSE "q"
             plain == IF txnBlk.delta THEN "u" ELSE "q"
             f == RowFormats("LINK")
  <2>1. f = <<"TAG", "u", signed, plain, "u">>
    BY DEF RowFormats
  <2>2. cells[c + 3].fmt = signed /\ cells[c + 4].fmt = plain
    BY <1>5, <1>7
  <2> HIDE DEF signed, plain, f
  <2>3. Len(f) = 5 /\ f[1] = "TAG" /\ f[2] = "u" /\ f[3] = signed /\ f[4] = plain /\ f[5] = "u"
    BY <2>1
  <2>4. \A k \in 1..5 : cells[c + k].fmt = f[k]
    <3>1. \A k \in 1..5 : k = 1 \/ k = 2 \/ k = 3 \/ k = 4 \/ k = 5
      OBVIOUS
    <3> QED
      BY <1>7, <2>2, <2>3, <3>1
  <2>5. Holds(cells, c, f)
    BY <1>3, <2>3, <2>4 DEF Holds
  <2> QED
    BY <2>3, <2>5 DEF f
<1>10. RowRecord("LINK", cells, c, << >>) = r
  BY <1>4, <1>5, <1>7 DEF RowRecord
<1>11. /\ txnRead' = Append(txnRead, r) /\ txnPhase' = txnPhase
       /\ txnCur' = [txnCur EXCEPT ![Col.row] = c + 5]
  <2>1. PICK p : p = c + 5
    OBVIOUS
  <2>2. p = c + Len(RowFormats("LINK"))
    BY <1>9, <2>1
  <2>3. cells[c + 1].val = "LINK" /\ Holds(cells, c, RowFormats("LINK"))
    BY <1>7, <1>9
  <2>4. /\ txnRead' = Append(txnRead, RowRecord("LINK", cells, c, << >>))
        /\ txnCur' = [txnCur EXCEPT ![Col.row] = p] /\ txnPhase' = txnPhase
    BY <1>1, <1>8, <2>2, <2>3, RowReads
  <2> QED
    BY <1>10, <2>1, <2>4
<1> QED
  BY <1>1, <1>2, <1>11 DEF RowTaken

LEMMA ReadsMeta ==
  ASSUME DecodeRow, NEW mark, NEW r, RowAhead(mark, r), r.tag = "META",
         NEW s, s = RowCells(mark, r)
  PROVE  RowTaken(Len(s), r)
<1>1. PICK cells, c : cells = txnCols[Col.row] /\ c = txnCur[Col.row]
  OBVIOUS
<1>2. /\ Len(s) = 4
      /\ s[1] = F("TAG", "META") /\ s[2] = IdCell(mark, r)
      /\ s[3] = U(r.key) /\ s[4] = U(r.value)
  BY MetaRow
<1>3. /\ c \in Nat /\ Len(cells) \in Nat /\ c + 4 <= Len(cells)
      /\ cells[c + 1] = s[1] /\ cells[c + 2] = s[2] /\ cells[c + 3] = s[3]
      /\ cells[c + 4] = s[4]
  <2>1. CellsAhead(cells, c, s)
    BY <1>1 DEF RowAhead
  <2>2. Len(s) = 4
    BY <1>2
  <2> QED
    BY <2>1, <2>2 DEF CellsAhead
<1>4. /\ r = [tag |-> r.tag, id |-> r.id, key |-> r.key, value |-> r.value]
      /\ r.id \in Int
  BY DEF RowAhead, RecordOK
<1>5. /\ ReadId(cells[c + 2].val) = r.id
      /\ cells[c + 2].fmt = IF txnBlk.delta THEN "s" ELSE "q"
  BY <1>2, <1>3, <1>4, ReadsId
<1>7. /\ cells[c + 1].fmt = "TAG" /\ cells[c + 1].val = "META"
      /\ cells[c + 3].fmt = "u" /\ cells[c + 3].val = r.key
      /\ cells[c + 4].fmt = "u" /\ cells[c + 4].val = r.value
  BY <1>2, <1>3 DEF F, U, Q, Plain
<1>8. Holds(cells, c, <<"TAG">>)
  BY <1>3, <1>7 DEF Holds
<1>9. Len(RowFormats("META")) = 4 /\ Holds(cells, c, RowFormats("META"))
  <2> DEFINE signed == IF txnBlk.delta THEN "s" ELSE "q"
             plain == IF txnBlk.delta THEN "u" ELSE "q"
             f == RowFormats("META")
  <2>1. f = <<"TAG", signed, "u", "u">>
    BY DEF RowFormats
  <2>2. cells[c + 2].fmt = signed
    BY <1>5, <1>7
  <2> HIDE DEF signed, plain, f
  <2>3. Len(f) = 4 /\ f[1] = "TAG" /\ f[2] = signed /\ f[3] = "u" /\ f[4] = "u"
    BY <2>1
  <2>4. \A k \in 1..4 : cells[c + k].fmt = f[k]
    <3>1. \A k \in 1..4 : k = 1 \/ k = 2 \/ k = 3 \/ k = 4
      OBVIOUS
    <3> QED
      BY <1>7, <2>2, <2>3, <3>1
  <2>5. Holds(cells, c, f)
    BY <1>3, <2>3, <2>4 DEF Holds
  <2> QED
    BY <2>3, <2>5 DEF f
<1>10. RowRecord("META", cells, c, << >>) = r
  BY <1>4, <1>5, <1>7 DEF RowRecord
<1>11. /\ txnRead' = Append(txnRead, r) /\ txnPhase' = txnPhase
       /\ txnCur' = [txnCur EXCEPT ![Col.row] = c + 4]
  <2>1. PICK p : p = c + 4
    OBVIOUS
  <2>2. p = c + Len(RowFormats("META"))
    BY <1>9, <2>1
  <2>3. cells[c + 1].val = "META" /\ Holds(cells, c, RowFormats("META"))
    BY <1>7, <1>9
  <2>4. /\ txnRead' = Append(txnRead, RowRecord("META", cells, c, << >>))
        /\ txnCur' = [txnCur EXCEPT ![Col.row] = p] /\ txnPhase' = txnPhase
    BY <1>1, <1>8, <2>2, <2>3, RowReads
  <2> QED
    BY <1>10, <2>1, <2>4
<1> QED
  BY <1>1, <1>2, <1>11 DEF RowTaken

\* Rows with attributes: the reader comes to them after the numbers it knows of.
LEMMA ReadsAttr ==
  ASSUME DecodeRow, NEW mark, NEW r, RowAhead(mark, r), r.tag = "ATTR",
         NEW s, s = RowCells(mark, r)
  PROVE  RowTaken(Len(s), r)
<1>1. PICK cells, c : cells = txnCols[Col.row] /\ c = txnCur[Col.row]
  OBVIOUS
<1>2. PICK a : a = RowAttrs(r)
  OBVIOUS
<1>3. /\ r = [tag |-> r.tag, id |-> r.id, attrs |-> r.attrs]
      /\ r.id \in Int /\ r.attrs \in Seq([idx : Nat, val : Int])
  BY DEF RowAhead, RecordOK
<1>4. /\ Len(s) = 2 + Len(a) /\ s[1] = F("TAG", "ATTR") /\ s[2] = IdCell(mark, r)
      /\ \A i \in 1..Len(a) : s[2 + i] = a[i]
  BY <1>2, <1>3, AttrRow
<1>5. Len(a) = 1 + 2 * Len(r.attrs) /\ Len(r.attrs) \in Nat
  BY <1>2, <1>3, RowAttrsAre
<1>6. /\ c \in Nat /\ Len(cells) \in Nat /\ c + 2 + Len(a) <= Len(cells)
      /\ \A i \in 1..2 + Len(a) : cells[c + i] = s[i]
  <2>1. CellsAhead(cells, c, s)
    BY <1>1 DEF RowAhead
  <2>2. Len(s) = 2 + Len(a) /\ Len(a) \in Nat
    BY <1>4, <1>5
  <2>3. /\ c \in Nat /\ Len(cells) \in Nat /\ c + Len(s) <= Len(cells)
        /\ \A i \in 1..Len(s) : cells[c + i] = s[i]
    BY <2>1 DEF CellsAhead
  <2> QED
    BY <2>2, <2>3
<1>7. /\ cells[c + 1].fmt = "TAG" /\ cells[c + 1].val = "ATTR"
      /\ ReadId(cells[c + 2].val) = r.id
      /\ cells[c + 2].fmt = IF txnBlk.delta THEN "s" ELSE "q"
  <2>1. cells[c + 1] = s[1] /\ cells[c + 2] = s[2]
    BY <1>5, <1>6
  <2> QED
    BY <1>3, <1>4, <2>1, ReadsId DEF F
<1>8. PICK p : p = c + 2
  OBVIOUS
<1>9. CellsAhead(cells, p, a)
  <2>1. \A i \in 1..Len(a) : cells[p + i] = a[i]
    <3> TAKE i \in 1..Len(a)
    <3>1. 2 + i \in 1..2 + Len(a) /\ c + (2 + i) = p + i
      BY <1>5, <1>6, <1>8
    <3>2. cells[c + (2 + i)] = s[2 + i]
      BY <1>6, <3>1
    <3> QED
      BY <1>4, <3>1, <3>2
  <2>2. c \in Nat /\ Len(cells) \in Nat /\ c + 2 + Len(a) <= Len(cells) /\ Len(a) \in Nat
    <3>1. Len(a) \in Nat
      BY <1>5
    <3>2. c \in Nat /\ Len(cells) \in Nat /\ c + 2 + Len(a) <= Len(cells)
      BY <1>6
    <3> QED
      BY <3>1, <3>2
  <2>3. p \in Nat /\ p + Len(a) <= Len(cells)
    BY <1>8, <2>2
  <2> QED
    BY <2>1, <2>2, <2>3 DEF CellsAhead
<1>10. PICK type : type = cells[c + 3].val
  OBVIOUS
<1>11. /\ HoldsAttrs(cells, p, "ATTR", type) /\ AttrsAt(cells, p) = r.attrs
       /\ cells[p + 1].val = Len(r.attrs)
  <2>1. \A idx : AttrFormat(txnBlk.known, r.tag, r.type, idx) = AttrFormat(txnReg, r.tag, type, idx)
    BY DEF AttrFormat
  <2>2. r.attrs \in Seq([idx : Nat, val : Int])
    BY <1>3
  <2>3. /\ HoldsAttrs(cells, p, r.tag, type) /\ AttrsAt(cells, p) = r.attrs
        /\ cells[p + 1].val = Len(r.attrs)
    BY <1>2, <1>9, <2>1, <2>2, ReadsAttrs
  <2> QED
    BY <2>3
<1>12. Holds(cells, c, <<"TAG">>)
  BY <1>5, <1>6, <1>7 DEF Holds
<1>13. Len(RowFormats("ATTR")) = 2 /\ Holds(cells, c, RowFormats("ATTR"))
  <2> DEFINE signed == IF txnBlk.delta THEN "s" ELSE "q"
  <2>1. RowFormats("ATTR") = <<"TAG", signed>>
    BY DEF RowFormats
  <2> HIDE DEF signed
  <2>2. cells[c + 2].fmt = signed
    BY <1>7 DEF signed
  <2>3. /\ Len(<<"TAG", signed>>) = 2 /\ <<"TAG", signed>>[1] = "TAG"
        /\ <<"TAG", signed>>[2] = signed
    OBVIOUS
  <2>4. c + 2 <= Len(cells) /\ cells[c + 1].fmt = "TAG"
    <3>1. Len(a) \in Nat
      BY <1>5
    <3>2. c \in Nat /\ Len(cells) \in Nat /\ c + 2 + Len(a) <= Len(cells)
      BY <1>6
    <3>3. c + 2 <= Len(cells)
      BY <3>1, <3>2
    <3> QED
      BY <1>7, <3>3
  <2>5. \A k \in 1..2 : cells[c + k].fmt = <<"TAG", signed>>[k]
    <3>1. \A k \in 1..2 : k = 1 \/ k = 2
      OBVIOUS
    <3> QED
      BY <2>2, <2>3, <2>4, <3>1
  <2> QED
    BY <2>1, <2>3, <2>4, <2>5 DEF Holds
<1>14. RowRecord("ATTR", cells, c, r.attrs) = r
  BY <1>3, <1>7 DEF RowRecord
<1>15. /\ txnRead' = Append(txnRead, RowRecord("ATTR", cells, c, AttrsAt(cells, p)))
       /\ txnCur' = [txnCur EXCEPT ![Col.row] = p + 1 + 2 * cells[p + 1].val]
       /\ txnPhase' = txnPhase
  <2>1. p = c + Len(RowFormats("ATTR"))
    BY <1>8, <1>13
  <2>2. cells[c + 1].val = "ATTR" /\ Holds(cells, c, RowFormats("ATTR"))
    BY <1>7, <1>13
  <2>3. HoldsAttrs(cells, p, "ATTR", cells[c + 3].val)
    BY <1>10, <1>11
  <2> QED
    BY <1>1, <1>12, <2>1, <2>2, <2>3, RowReads
<1>16. p + 1 + 2 * cells[p + 1].val = c + Len(s)
  <2>1. PICK n \in Nat : n = Len(r.attrs)
    BY <1>5
  <2>2. c \in Nat /\ Len(a) = 1 + 2 * n /\ Len(s) = 2 + Len(a)
    BY <1>4, <1>5, <1>6, <2>1
  <2>3. cells[p + 1].val = n
    BY <1>11, <2>1
  <2>4. p + 1 + 2 * n = c + Len(s)
    BY <1>8, <2>2
  <2> QED
    BY <2>3, <2>4
<1> QED
  BY <1>1, <1>11, <1>14, <1>15, <1>16 DEF RowTaken

LEMMA ReadsFull ==
  ASSUME DecodeRow, NEW mark, NEW r, RowAhead(mark, r), r.tag = "FULL",
         NEW s, s = RowCells(mark, r)
  PROVE  RowTaken(Len(s), r)
<1>1. PICK cells, c : cells = txnCols[Col.row] /\ c = txnCur[Col.row]
  OBVIOUS
<1>2. PICK a : a = RowAttrs(r)
  OBVIOUS
<1>3. /\ r = [tag |-> r.tag, stream |-> r.stream, type |-> r.type, id |-> r.id,
              start |-> r.start, end |-> r.end, parent |-> r.parent, attrs |-> r.attrs]
      /\ r.id \in Int /\ r.start \in Int /\ r.end \in Int
      /\ r.attrs \in Seq([idx : Nat, val : Int])
  BY DEF RowAhead, RecordOK
<1>4. /\ Len(s) = 7 + Len(a)
      /\ s[1] = F("TAG", "FULL") /\ s[2] = U(r.stream) /\ s[3] = U(r.type)
      /\ s[4] = IdCell(mark, r) /\ s[5] = TimeCell(mark, r.start)
      /\ s[6] = EndCell(r) /\ s[7] = Plain(r.parent)
      /\ \A i \in 1..Len(a) : s[7 + i] = a[i]
  <2>1. r.attrs \in Seq([idx : Nat, val : Int])
    BY <1>3
  <2> QED
    BY <1>2, <2>1, FullRow
<1>5. Len(a) = 1 + 2 * Len(r.attrs) /\ Len(r.attrs) \in Nat
  BY <1>2, <1>3, RowAttrsAre
<1>6. /\ c \in Nat /\ Len(cells) \in Nat /\ c + 7 + Len(a) <= Len(cells)
      /\ \A i \in 1..7 + Len(a) : cells[c + i] = s[i]
  <2>1. CellsAhead(cells, c, s)
    BY <1>1 DEF RowAhead
  <2>2. Len(s) = 7 + Len(a) /\ Len(a) \in Nat
    BY <1>4, <1>5
  <2>3. /\ c \in Nat /\ Len(cells) \in Nat /\ c + Len(s) <= Len(cells)
        /\ \A i \in 1..Len(s) : cells[c + i] = s[i]
    BY <2>1 DEF CellsAhead
  <2> QED
    BY <2>2, <2>3
<1>7. /\ cells[c + 1] = s[1] /\ cells[c + 2] = s[2] /\ cells[c + 3] = s[3] /\ cells[c + 4] = s[4]
      /\ cells[c + 5] = s[5] /\ cells[c + 6] = s[6] /\ cells[c + 7] = s[7]
  BY <1>5, <1>6
<1>8. /\ cells[c + 1].fmt = "TAG" /\ cells[c + 1].val = "FULL"
      /\ cells[c + 2].fmt = "u" /\ cells[c + 2].val = r.stream
      /\ cells[c + 3].fmt = "u" /\ cells[c + 3].val = r.type
      /\ cells[c + 7].fmt = (IF txnBlk.delta THEN "u" ELSE "q") /\ cells[c + 7].val = r.parent
  BY <1>4, <1>7 DEF F, U, Q, Plain
<1>9. /\ ReadId(cells[c + 4].val) = r.id
      /\ cells[c + 4].fmt = IF txnBlk.delta THEN "s" ELSE "q"
  BY <1>3, <1>4, <1>7, ReadsId
<1>10. /\ ReadTime(cells[c + 5].val) = r.start
       /\ cells[c + 5].fmt = IF txnBlk.delta THEN "s" ELSE "q"
  <2>1. txnBlk.delta => Signed(r.start - mark.time)
    BY DEF RowAhead, Fits
  <2> QED
    BY <1>3, <1>4, <1>7, <2>1, ReadsTime
<1>11. /\ ReadEnd(r.start, cells[c + 6].val) = r.end
       /\ cells[c + 6].fmt = IF txnBlk.delta THEN "u" ELSE "q"
  <2>1. CASE txnBlk.delta
    <3>1. cells[c + 6].val = r.end - r.start /\ cells[c + 6].fmt = "u"
      BY <1>4, <1>7, <2>1 DEF EndCell, U
    <3> QED
      BY <1>3, <2>1, <3>1 DEF ReadEnd
  <2>2. CASE ~txnBlk.delta
    <3>1. cells[c + 6].val = r.end /\ cells[c + 6].fmt = "q"
      BY <1>4, <1>7, <2>2 DEF EndCell, Q
    <3> QED
      BY <2>2, <3>1 DEF ReadEnd
  <2> QED
    BY <2>1, <2>2
<1>12. PICK p : p = c + 7
  OBVIOUS
<1>13. CellsAhead(cells, p, a)
  <2>1. \A i \in 1..Len(a) : cells[p + i] = a[i]
    <3> TAKE i \in 1..Len(a)
    <3>1. 7 + i \in 1..7 + Len(a) /\ c + (7 + i) = p + i
      BY <1>5, <1>6, <1>12
    <3>2. cells[c + (7 + i)] = s[7 + i]
      BY <1>6, <3>1
    <3> QED
      BY <1>4, <3>1, <3>2
  <2>2. c \in Nat /\ Len(cells) \in Nat /\ c + 7 + Len(a) <= Len(cells) /\ Len(a) \in Nat
    <3>1. Len(a) \in Nat
      BY <1>5
    <3>2. c \in Nat /\ Len(cells) \in Nat /\ c + 7 + Len(a) <= Len(cells)
      BY <1>6
    <3> QED
      BY <3>1, <3>2
  <2>3. p \in Nat /\ p + Len(a) <= Len(cells)
    BY <1>12, <2>2
  <2> QED
    BY <2>1, <2>2, <2>3 DEF CellsAhead
<1>14. /\ HoldsAttrs(cells, p, "FULL", r.type) /\ AttrsAt(cells, p) = r.attrs
       /\ cells[p + 1].val = Len(r.attrs)
  <2>1. \A idx : AttrFormat(txnBlk.known, r.tag, r.type, idx) = AttrFormat(txnReg, r.tag, r.type, idx)
    BY DEF AttrFormat, RowAhead, SameFormats
  <2>2. r.attrs \in Seq([idx : Nat, val : Int])
    BY <1>3
  <2>3. /\ HoldsAttrs(cells, p, r.tag, r.type) /\ AttrsAt(cells, p) = r.attrs
        /\ cells[p + 1].val = Len(r.attrs)
    BY <1>2, <1>13, <2>1, <2>2, ReadsAttrs
  <2> QED
    BY <2>3
<1>15. Holds(cells, c, <<"TAG">>)
  BY <1>5, <1>6, <1>8 DEF Holds
<1>16. Len(RowFormats("FULL")) = 7 /\ Holds(cells, c, RowFormats("FULL"))
  <2> DEFINE signed == IF txnBlk.delta THEN "s" ELSE "q"
             plain == IF txnBlk.delta THEN "u" ELSE "q"
             f == RowFormats("FULL")
  <2>1. f = <<"TAG", "u", "u", signed, signed, plain, plain>>
    BY DEF RowFormats
  <2>2. /\ cells[c + 4].fmt = signed /\ cells[c + 5].fmt = signed
        /\ cells[c + 6].fmt = plain /\ cells[c + 7].fmt = plain
    BY <1>8, <1>9, <1>10, <1>11
  <2> HIDE DEF signed, plain, f
  <2>3. /\ Len(f) = 7 /\ f[1] = "TAG" /\ f[2] = "u" /\ f[3] = "u" /\ f[4] = signed
        /\ f[5] = signed /\ f[6] = plain /\ f[7] = plain
    BY <2>1
  <2>4. \A k \in 1..7 : cells[c + k].fmt = f[k]
    <3>1. \A k \in 1..7 : k = 1 \/ k = 2 \/ k = 3 \/ k = 4 \/ k = 5 \/ k = 6 \/ k = 7
      OBVIOUS
    <3> QED
      BY <1>8, <2>2, <2>3, <3>1
  <2>5. c + 7 <= Len(cells)
    <3>1. c \in Nat /\ Len(cells) \in Nat /\ c + 7 + Len(a) <= Len(cells) /\ Len(a) \in Nat
      <4>1. Len(a) \in Nat
        BY <1>5
      <4>2. c \in Nat /\ Len(cells) \in Nat /\ c + 7 + Len(a) <= Len(cells)
        BY <1>6
      <4> QED
        BY <4>1, <4>2
    <3> QED
      BY <3>1
  <2>6. Holds(cells, c, f)
    BY <2>3, <2>4, <2>5 DEF Holds
  <2> QED
    BY <2>3, <2>6 DEF f
<1>17. RowRecord("FULL", cells, c, r.attrs) = r
  BY <1>3, <1>8, <1>9, <1>10, <1>11 DEF RowRecord
<1>18. /\ txnRead' = Append(txnRead, RowRecord("FULL", cells, c, AttrsAt(cells, p)))
       /\ txnCur' = [txnCur EXCEPT ![Col.row] = p + 1 + 2 * cells[p + 1].val]
       /\ txnPhase' = txnPhase
  <2>1. p = c + Len(RowFormats("FULL"))
    BY <1>12, <1>16
  <2>2. cells[c + 1].val = "FULL" /\ Holds(cells, c, RowFormats("FULL"))
    BY <1>8, <1>16
  <2>3. HoldsAttrs(cells, p, "FULL", cells[c + 3].val)
    BY <1>8, <1>14
  <2> QED
    BY <1>1, <1>15, <2>1, <2>2, <2>3, RowReads
<1>19. p + 1 + 2 * cells[p + 1].val = c + Len(s)
  <2>1. PICK n \in Nat : n = Len(r.attrs)
    BY <1>5
  <2>2. c \in Nat /\ Len(a) = 1 + 2 * n /\ Len(s) = 7 + Len(a)
    BY <1>4, <1>5, <1>6, <2>1
  <2>3. cells[p + 1].val = n
    BY <1>14, <2>1
  <2>4. p + 1 + 2 * n = c + Len(s)
    BY <1>12, <2>2
  <2> QED
    BY <2>3, <2>4
<1> QED
  BY <1>1, <1>14, <1>17, <1>18, <1>19 DEF RowTaken

\* A reader at the row of a record, in the writer's state, reads the record.
LEMMA ReadsRow ==
  ASSUME DecodeRow, NEW mark, NEW r, RowAhead(mark, r)
  PROVE  RowTaken(Len(RowCells(mark, r)), r)
<1>1. PICK s : s = RowCells(mark, r)
  OBVIOUS
<1>2. RecordOK(r)
  BY DEF RowAhead
<1>3. r.tag \in {"FULL", "BEGIN", "ATTR", "END", "LINK", "META"}
  BY <1>2 DEF RecordOK
<1> QED
  BY <1>1, <1>3, ReadsFull, ReadsBegin, ReadsAttr, ReadsEnd, ReadsLink, ReadsMeta

-----------------------------------------------------------------------------
(* The running state *)

Timed(recs) == {k \in 1..Len(recs) : recs[k].tag \in {"FULL", "BEGIN", "END"}}
LastTimed(T) == CHOOSE k \in T : \A j \in T : j <= k
TimeAfter(recs) ==
  IF Timed(recs) = {} THEN 0 ELSE Advance(recs[LastTimed(Timed(recs))], 0).time

LEMMA ReachedIs ==
  ASSUME NEW recs
  PROVE  Reached(recs) = IF recs = << >> THEN [id |-> 0, time |-> 0]
                         ELSE Advance(recs[Len(recs)], TimeAfter(recs))
BY DEF Reached, TimeAfter, Timed, LastTimed

\* A record with a time gives it, whatever came before; one without leaves it.
LEMMA AdvanceTime ==
  ASSUME NEW r
  PROVE  /\ \A t : r.tag \notin {"FULL", "BEGIN", "END"} => Advance(r, t).time = t
         /\ \A t, u : r.tag \in {"FULL", "BEGIN", "END"} => Advance(r, t) = Advance(r, u)
BY DEF Advance

\* The time reached is that of the last record with one.
LEMMA ReachedTime ==
  ASSUME NEW R, NEW recs \in Seq(R)
  PROVE  Reached(recs).time = TimeAfter(recs)
<1>1. CASE recs = << >>
  <2>1. Timed(recs) = {} /\ Reached(recs) = [id |-> 0, time |-> 0]
    BY <1>1, ReachedIs DEF Timed
  <2> QED
    BY <2>1 DEF TimeAfter
<1>2. CASE recs # << >>
  <2>1. PICK n : n = Len(recs)
    OBVIOUS
  <2>2. n \in Nat /\ n >= 1
    BY <1>2, <2>1
  <2>3. Reached(recs) = Advance(recs[n], TimeAfter(recs))
    BY <1>2, <2>1, ReachedIs
  <2>4. CASE recs[n].tag \notin {"FULL", "BEGIN", "END"}
    BY <2>3, <2>4, AdvanceTime
  <2>5. CASE recs[n].tag \in {"FULL", "BEGIN", "END"}
    <3>1. PICK T : T = Timed(recs)
      OBVIOUS
    <3>2. n \in T /\ \A j \in T : j \in Nat /\ j <= n
      BY <2>1, <2>2, <2>5, <3>1 DEF Timed
    <3>3. LastTimed(T) \in T /\ \A j \in T : j <= LastTimed(T)
      BY <3>2 DEF LastTimed
    <3>4. LastTimed(T) = n
      <4>1. PICK m : m = LastTimed(T)
        OBVIOUS
      <4>2. m \in Nat /\ m <= n /\ n <= m
        BY <3>2, <3>3, <4>1
      <4> QED
        BY <2>2, <4>1, <4>2
    <3>5. TimeAfter(recs) = Advance(recs[n], 0).time
      BY <3>1, <3>2, <3>4 DEF TimeAfter
    <3>6. Advance(recs[n], TimeAfter(recs)) = Advance(recs[n], 0)
      BY <2>5, AdvanceTime
    <3> QED
      BY <2>3, <3>5, <3>6
  <2> QED
    BY <2>4, <2>5
<1> QED
  BY <1>1, <1>2

\* A record more moves the reader's running state as it moves the writer's.
LEMMA ReachedAppend ==
  ASSUME NEW R, NEW recs \in Seq(R), NEW r
  PROVE  Reached(Append(recs, r)) = Advance(r, Reached(recs).time)
<1>1. PICK q, n : n \in Nat /\ q = Append(recs, r) /\ n = Len(recs)
  <2>1. Len(recs) \in Nat
    OBVIOUS
  <2> QED
    BY <2>1
<1>2. /\ Len(q) = n + 1 /\ q # << >> /\ q[n + 1] = r
      /\ \A k \in 1..n : q[k] = recs[k]
  <2> DEFINE V == R \cup {r}
  <2>1. recs \in Seq(V) /\ r \in V
    OBVIOUS
  <2> HIDE DEF V
  <2> QED
    BY <1>1, <2>1
<1>3. Reached(q) = Advance(r, TimeAfter(q))
  BY <1>2, ReachedIs
<1>4. Reached(recs).time = TimeAfter(recs)
  BY ReachedTime
<1>5. CASE r.tag \in {"FULL", "BEGIN", "END"}
  BY <1>1, <1>3, <1>5, AdvanceTime
<1>6. CASE r.tag \notin {"FULL", "BEGIN", "END"}
  <2>1. \A k : k \in Timed(q) <=> k \in Timed(recs)
    <3>1. \A k \in 1..(n + 1) : k \in 1..n \/ k = n + 1
      BY <1>1
    <3>2. \A k \in 1..n : k \in 1..(n + 1)
      BY <1>1
    <3> QED
      BY <1>1, <1>2, <1>6, <3>1, <3>2 DEF Timed
  <2>2. Timed(q) = Timed(recs) /\ Timed(recs) \subseteq 1..n
    BY <1>1, <2>1 DEF Timed
  <2>3. TimeAfter(q) = TimeAfter(recs)
    <3>1. CASE Timed(recs) = {}
      BY <2>2, <3>1 DEF TimeAfter
    <3>2. CASE Timed(recs) # {}
      <4>1. PICK T : T = Timed(recs)
        OBVIOUS
      <4>2. T \subseteq 1..n /\ T # {} /\ \E m \in T : \A j \in T : j <= m
        <5>1. T \subseteq 1..n /\ T # {}
          BY <2>2, <3>2, <4>1
        <5>2. n \in Nat
          BY <1>1
        <5> QED
          BY <5>1, <5>2, LastOf
      <4>3. LastTimed(T) \in T
        BY <4>2 DEF LastTimed
      <4> QED
        BY <1>2, <2>2, <4>1, <4>2, <4>3 DEF TimeAfter
    <3> QED
      BY <3>1, <3>2
  <2> QED
    BY <1>1, <1>3, <1>4, <2>3
<1> QED
  BY <1>5, <1>6

-----------------------------------------------------------------------------
(* TxnInv is an invariant *)

\* What fits a word, and what the reader knows as the writer did, is said record by record.
LEMMA RepresentableRow ==
  ASSUME TxnInv, Representable, NEW k, k \in 1..(Len(txnMarks) - 1)
  PROVE  Fits(txnMarks[k], txnRecs[k]) /\ SameFormats(txnRecs[k])
<1>1. Fits(txnMarks[k], txnRecs[k])
  BY DEF Representable, Fits
<1>2. k \in 1..Len(txnRecs)
  <2>0. Len(txnRecs) \in Nat /\ Len(txnMarks) \in 1..(Len(txnRecs) + 1)
    BY DEF TxnInv, TxnProgress, TxnTypeOK
  <2>1. PICK m, n : m = Len(txnMarks) /\ n = Len(txnRecs) /\ n \in Nat /\ m \in 1..(n + 1)
    BY <2>0
  <2>2. k \in 1..(m - 1)
    BY <2>1
  <2>3. k \in 1..n
    BY <2>1, <2>2
  <2> QED
    BY <2>1, <2>3
<1>3. SameFormats(txnRecs[k])
  <2> SUFFICES ASSUME txnRecs[k].tag = "FULL", NEW idx
               PROVE  FieldType(txnBlk.known, txnRecs[k].type, idx) =
                        FieldType(txnReg, txnRecs[k].type, idx)
    BY DEF SameFormats
  <2>1. PICK t : t = txnRecs[k].type
    OBVIOUS
  <2>2. t \in DOMAIN txnReg => t \in DOMAIN txnBlk.known
    BY <1>2, <2>1 DEF Representable
  <2>3. \A i \in DOMAIN txnBlk.known : i \in DOMAIN txnReg /\ txnBlk.known[i] = txnReg[i]
    BY DEF TxnInv, TxnTypeOK, KnownOfRegistry
  <2> QED
    BY <2>1, <2>2, <2>3 DEF FieldType
<1> QED
  BY <1>1, <1>3

LEMMA NothingOf == \A s : SubSeq(s, 1, 0) = << >> /\ Len(<< >>) = 0
OBVIOUS

LEMMA TxnInitInv == TxnInit => TxnInv
<1> SUFFICES ASSUME TxnInit PROVE TxnInv
  OBVIOUS
<1> USE DEF TxnInit
<1>1. /\ Len(txnMarks) = 1 /\ txnMarks[1] = [id |-> 0, time |-> 0] /\ DOMAIN txnMarks = {1}
      /\ txnPhase = "closed" /\ txnRead = << >> /\ txnRecs = << >> /\ txnReg = << >>
      /\ Len(txnRecs) = 0 /\ Len(txnRead) = 0
  OBVIOUS
<1>2. TxnTypeOK
  <2>1. /\ txnBlk = [layout |-> txnBlk.layout, delta |-> txnBlk.delta,
                     column |-> txnBlk.column, known |-> txnBlk.known]
        /\ txnBlk.layout \in Layouts /\ txnBlk.delta \in BOOLEAN /\ txnBlk.column \in BOOLEAN
    OBVIOUS
  <2>2. \A k \in DOMAIN txnMarks : MarkOK(txnMarks[k])
    BY <1>1 DEF MarkOK
  <2>3. txnMarks \in Seq({txnMarks[k] : k \in DOMAIN txnMarks})
    BY <1>1
  <2>4. DOMAIN txnRecs = {} /\ DOMAIN txnRead = {}
    BY <1>1
  <2>5. Len(txnReg) \in Nat /\ txnReg = [i \in 1..Len(txnReg) |-> txnReg[i]]
    BY <1>1
  <2> QED
    BY <1>1, <2>1, <2>2, <2>3, <2>4, <2>5 DEF TxnTypeOK
<1>3. KnownOfRegistry
  <2>1. txnBlk.known = << >> /\ txnReg = << >> /\ Len(<< >>) = 0
    OBVIOUS
  <2>2. << >> = [i \in 1..0 |-> txnReg[i]]
    OBVIOUS
  <2> QED
    BY <2>1, <2>2 DEF KnownOfRegistry
<1>4. TxnProgress
  BY <1>1 DEF TxnProgress
<1>5. MarksFollow
  BY <1>1 DEF MarksFollow
<1>6. RowRead
  BY <1>1, NothingOf DEF RowRead, ReadsOn
<1> QED
  BY <1>1, <1>2, <1>3, <1>4, <1>5, <1>6 DEF TxnInv

\* Before the block is encoded, there are no rows, and nothing was read.
LEMMA BeforeEncoding ==
  ASSUME TxnInv, txnPhase \in {"closed", "open"}, txnPhase' \in {"closed", "open", "encoding"},
         UNCHANGED <<txnMarks, txnRead>>, Len(txnRecs') \in Nat
  PROVE  TxnProgress' /\ MarksFollow' /\ RowRead'
<1>1. Len(txnMarks) = 1 /\ txnRead = << >> /\ txnMarks[1] = [id |-> 0, time |-> 0]
  BY DEF TxnInv, TxnProgress, MarksFollow
<1>2. Len(txnMarks') = 1 /\ txnRead' = << >> /\ txnMarks'[1] = [id |-> 0, time |-> 0]
  BY <1>1
<1>3. TxnProgress'
  BY <1>2 DEF TxnProgress
<1>4. MarksFollow'
  BY <1>2 DEF MarksFollow
<1>5. RowRead'
  <2>1. txnRead' = SubSeq(txnRecs', 1, Len(txnRead')) /\ Len(txnRead') = 0
    BY <1>2, NothingOf
  <2> QED
    BY <2>1 DEF RowRead, ReadsOn
<1> QED
  BY <1>3, <1>4, <1>5

LEMMA DeclareSchemaInv ==
  ASSUME TxnInv, NEW fields, DeclareSchema(fields)
  PROVE  TxnInv'
<1>1. /\ txnPhase \in {"closed", "open"} /\ txnReg' = Append(txnReg, fields)
      /\ UNCHANGED <<txnBlk, txnRecs, txnCols, txnMarks, txnCur, txnRead, txnPhase>>
  BY DEF DeclareSchema
<1>2. TxnTypeOK /\ KnownOfRegistry
  BY DEF TxnInv
<1>3. /\ Len(txnReg) \in Nat /\ Len(txnReg') = Len(txnReg) + 1
      /\ txnReg' = [i \in 1..Len(txnReg') |-> txnReg'[i]]
      /\ \A i \in 1..Len(txnReg) : txnReg'[i] = txnReg[i]
  <2> DEFINE R == {txnReg[i] : i \in 1..Len(txnReg)} \cup {fields}
  <2>1. txnReg \in Seq(R) /\ fields \in R
    <3>1. Len(txnReg) \in Nat /\ txnReg = [i \in 1..Len(txnReg) |-> txnReg[i]]
      BY <1>2 DEF TxnTypeOK
    <3>2. [i \in 1..Len(txnReg) |-> txnReg[i]] \in Seq(R)
      BY <3>1
    <3> QED
      BY <3>1, <3>2
  <2> HIDE DEF R
  <2>2. PICK q : q = Append(txnReg, fields)
    OBVIOUS
  <2>3. /\ q \in Seq(R) /\ Len(q) = Len(txnReg) + 1 /\ Len(txnReg) \in Nat
        /\ \A i \in 1..Len(txnReg) : q[i] = txnReg[i]
    BY <2>1, <2>2
  <2>4. q = [i \in 1..Len(q) |-> q[i]]
    BY <2>3
  <2> QED
    BY <1>1, <2>2, <2>3, <2>4
<1>4. TxnTypeOK'
  BY <1>1, <1>2, <1>3 DEF TxnTypeOK
<1>5. KnownOfRegistry'
  <2>1. PICK n : n = Len(txnBlk.known)
    OBVIOUS
  <2>2. n \in Nat /\ n <= Len(txnReg) /\ txnBlk.known = [i \in 1..n |-> txnReg[i]]
    BY <1>2, <2>1 DEF KnownOfRegistry
  <2>3. \A i \in 1..n : txnReg'[i] = txnReg[i]
    BY <1>3, <2>2
  <2>4. txnBlk'.known = [i \in 1..n |-> txnReg'[i]] /\ n <= Len(txnReg') /\ n = Len(txnBlk'.known)
    BY <1>1, <1>3, <2>1, <2>2, <2>3
  <2> QED
    BY <2>2, <2>4 DEF KnownOfRegistry
<1>6. TxnProgress' /\ MarksFollow' /\ RowRead'
  <2>1. Len(txnRecs') \in Nat
    BY <1>4 DEF TxnTypeOK
  <2>2. txnPhase' \in {"closed", "open", "encoding"}
    BY <1>1
  <2> QED
    BY <1>1, <2>1, <2>2, BeforeEncoding
<1>7. txnPhase' \in {"closed", "open"}
  BY <1>1
<1> QED
  BY <1>4, <1>5, <1>6, <1>7 DEF TxnInv

LEMMA BeginTxnBlockInv == TxnInv /\ BeginTxnBlock => TxnInv'
<1> SUFFICES ASSUME TxnInv, BeginTxnBlock PROVE TxnInv'
  OBVIOUS
<1>1. /\ txnPhase = "closed" /\ txnPhase' = "open"
      /\ txnBlk' = [txnBlk EXCEPT !.known = txnReg]
      /\ UNCHANGED <<txnReg, txnRecs, txnCols, txnMarks, txnCur, txnRead>>
  BY DEF BeginTxnBlock
<1>2. TxnTypeOK
  BY DEF TxnInv
<1>3. /\ txnBlk' = [layout |-> txnBlk'.layout, delta |-> txnBlk'.delta,
                    column |-> txnBlk'.column, known |-> txnBlk'.known]
      /\ txnBlk'.layout = txnBlk.layout /\ txnBlk'.delta = txnBlk.delta
      /\ txnBlk'.column = txnBlk.column /\ txnBlk'.known = txnReg
  <2>1. txnBlk = [layout |-> txnBlk.layout, delta |-> txnBlk.delta,
                  column |-> txnBlk.column, known |-> txnBlk.known]
    BY <1>2 DEF TxnTypeOK
  <2> QED
    BY <1>1, <2>1
<1>4. TxnTypeOK'
  BY <1>1, <1>2, <1>3 DEF TxnTypeOK
<1>5. KnownOfRegistry'
  BY <1>1, <1>2, <1>3 DEF TxnTypeOK, KnownOfRegistry
<1>6. TxnProgress' /\ MarksFollow' /\ RowRead'
  <2>1. Len(txnRecs') \in Nat
    BY <1>4 DEF TxnTypeOK
  <2> QED
    BY <1>1, <2>1, BeforeEncoding
<1> QED
  BY <1>1, <1>4, <1>5, <1>6 DEF TxnInv

\* To record touches nothing that was encoded: nothing was.
LEMMA RecordTxnInv ==
  ASSUME TxnInv, NEW r, RecordOK(r), Record(r)
  PROVE  TxnInv'
<1>1. /\ txnPhase = "open" /\ txnRecs' = Append(txnRecs, r)
      /\ UNCHANGED <<txnReg, txnBlk, txnCols, txnMarks, txnCur, txnRead, txnPhase>>
  BY DEF Record
<1>2. TxnTypeOK /\ KnownOfRegistry
  BY DEF TxnInv
<1>3. TxnTypeOK'
  <2> DEFINE R == {txnRecs[k] : k \in DOMAIN txnRecs} \cup {r}
  <2>1. txnRecs \in Seq(R) /\ r \in R /\ \A s \in R : RecordOK(s)
    BY <1>2 DEF TxnTypeOK
  <2> HIDE DEF R
  <2>2. txnRecs' \in Seq(R) /\ \A k \in DOMAIN txnRecs' : txnRecs'[k] \in R
    BY <1>1, <2>1
  <2>3. txnRecs' \in Seq({txnRecs'[k] : k \in DOMAIN txnRecs'})
    BY <2>2, SeqOfElements
  <2>4. \A k \in DOMAIN txnRecs' : RecordOK(txnRecs'[k])
    BY <2>1, <2>2
  <2> QED
    BY <1>1, <1>2, <2>3, <2>4 DEF TxnTypeOK
<1>4. KnownOfRegistry'
  BY <1>1, <1>2 DEF KnownOfRegistry
<1>5. TxnProgress' /\ MarksFollow' /\ RowRead'
  <2>1. Len(txnRecs') \in Nat
    BY <1>3 DEF TxnTypeOK
  <2>2. txnPhase' \in {"closed", "open", "encoding"}
    BY <1>1
  <2> QED
    BY <1>1, <2>1, <2>2, BeforeEncoding
<1>6. txnPhase' = "open"
  BY <1>1
<1> QED
  BY <1>3, <1>4, <1>5, <1>6 DEF TxnInv

\* The records a client may give are well formed.
LEMMA ClientRecords ==
  ASSUME TxnInv, NEW id \in RecIds
  PROVE  /\ \A span \in Spans, attrs \in AttrLists, type \in TxnTypes :
              RecordFull(type, id, span, attrs) => TxnInv'
         /\ \A span \in Spans, type \in TxnTypes : RecordBegin(type, id, span) => TxnInv'
         /\ \A attrs \in AttrLists : RecordAttrs(id, attrs) => TxnInv'
         /\ \A span \in Spans : RecordEnd(id, span) => TxnInv'
         /\ RecordLink(id) \/ RecordMeta(id) => TxnInv'
<1>1. id \in Int /\ \A span \in Spans : span[1] \in Int /\ span[2] \in Int
  <2>1. Half \in Nat
    BY CodecsAssumption
  <2> QED
    BY <2>1, TxnDataAssumption
<1>0. \A attrs \in AttrLists : attrs \in Seq([idx : Nat, val : Int])
  BY TxnDataAssumption
<1>2. \A span \in Spans, attrs \in AttrLists, type \in TxnTypes :
        RecordOK([tag |-> "FULL", stream |-> 1, type |-> type, id |-> id, start |-> span[1],
                  end |-> span[2], parent |-> 2, attrs |-> attrs])
  BY <1>0, <1>1 DEF RecordOK
<1>3. \A span \in Spans, type \in TxnTypes :
        RecordOK([tag |-> "BEGIN", stream |-> 1, type |-> type, id |-> id, start |-> span[1],
                  parent |-> 3])
  BY <1>1 DEF RecordOK
<1>4. \A attrs \in AttrLists : RecordOK([tag |-> "ATTR", id |-> id, attrs |-> attrs])
  BY <1>0, <1>1 DEF RecordOK
<1>5. \A span \in Spans : RecordOK([tag |-> "END", id |-> id, end |-> span[2]])
  BY <1>1 DEF RecordOK
<1>6. RecordOK([tag |-> "LINK", link |-> 4, id |-> id, target |-> 5, label |-> 6])
  BY <1>1 DEF RecordOK
<1>7. RecordOK([tag |-> "META", id |-> id, key |-> 7, value |-> 8])
  BY <1>1 DEF RecordOK
<1>8. \A span \in Spans, attrs \in AttrLists, type \in TxnTypes :
        RecordFull(type, id, span, attrs) => TxnInv'
  BY <1>2, RecordTxnInv DEF RecordFull
<1>9. \A span \in Spans, type \in TxnTypes : RecordBegin(type, id, span) => TxnInv'
  BY <1>3, RecordTxnInv DEF RecordBegin
<1>10. \A attrs \in AttrLists : RecordAttrs(id, attrs) => TxnInv'
  BY <1>4, RecordTxnInv DEF RecordAttrs
<1>11. \A span \in Spans : RecordEnd(id, span) => TxnInv'
  BY <1>5, RecordTxnInv DEF RecordEnd
<1>12. RecordLink(id) \/ RecordMeta(id) => TxnInv'
  BY <1>6, <1>7, RecordTxnInv DEF RecordLink, RecordMeta
<1> QED
  BY <1>8, <1>9, <1>10, <1>11, <1>12

\* The block is encoded from its first record on, in one of the layouts tried.
LEMMA FlushTxnInv == TxnInv /\ FlushTxnBlock => TxnInv'
<1> SUFFICES ASSUME TxnInv, FlushTxnBlock PROVE TxnInv'
  OBVIOUS
<1>1. /\ txnPhase = "open" /\ txnPhase' = "encoding"
      /\ UNCHANGED <<txnReg, txnRecs, txnMarks, txnCur, txnRead>>
  BY DEF FlushTxnBlock
<1>2. PICK layout \in Tried :
        /\ txnBlk' = [txnBlk EXCEPT !.column = (layout = "column")]
        /\ txnCols' = [c \in {IF layout = "row" THEN Col.row ELSE Col.tag} |-> << >>]
  BY DEF FlushTxnBlock
<1>3. TxnTypeOK /\ KnownOfRegistry /\ TxnProgress
  BY DEF TxnInv
<1>4. layout \in {"row", "column"}
  <2>1. txnBlk.layout \in {"row", "column", "auto", "adaptive"}
    BY <1>3, TxnDataAssumption DEF TxnTypeOK
  <2> QED
    BY <2>1 DEF Tried
<1>5. /\ txnBlk' = [layout |-> txnBlk'.layout, delta |-> txnBlk'.delta,
                    column |-> txnBlk'.column, known |-> txnBlk'.known]
      /\ txnBlk'.layout = txnBlk.layout /\ txnBlk'.delta = txnBlk.delta
      /\ txnBlk'.column = (layout = "column") /\ txnBlk'.known = txnBlk.known
  <2>1. txnBlk = [layout |-> txnBlk.layout, delta |-> txnBlk.delta,
                  column |-> txnBlk.column, known |-> txnBlk.known]
    BY <1>3 DEF TxnTypeOK
  <2> QED
    BY <1>2, <2>1
<1>6. TxnTypeOK'
  BY <1>1, <1>3, <1>5 DEF TxnTypeOK
<1>7. KnownOfRegistry'
  BY <1>1, <1>3, <1>5 DEF KnownOfRegistry
<1>8. TxnProgress' /\ MarksFollow' /\ RowRead'
  <2>1. Len(txnRecs') \in Nat
    BY <1>6 DEF TxnTypeOK
  <2> QED
    BY <1>1, <2>1, BeforeEncoding
<1>9. ~ByColumn' => RowInOrder'
  <2> SUFFICES ASSUME ~ByColumn' PROVE RowInOrder'
    OBVIOUS
  <2>1. layout = "row"
    BY <1>4, <1>5 DEF ByColumn
  <2>2. /\ txnCols' = [c \in {Col.row} |-> << >>] /\ DOMAIN txnCols' = {Col.row}
        /\ txnCols'[Col.row] = << >>
    BY <1>2, <2>1
  <2>3. Len(txnMarks') = 1
    BY <1>1, <1>3 DEF TxnProgress
  <2> DEFINE at == [k \in 1..1 |-> 0]
  <2>4. at \in [1..1 -> 0..0] /\ at[1] = 0 /\ 1..(1 - 1) = {}
    OBVIOUS
  <2> HIDE DEF at
  <2>5. Len(<< >>) = 0 /\ << >> = [i \in 1..0 |-> << >>[i]]
    OBVIOUS
  <2> QED
    BY <1>1, <2>2, <2>3, <2>4, <2>5 DEF RowInOrder
<1> QED
  BY <1>1, <1>6, <1>7, <1>8, <1>9 DEF TxnInv

\* The reader starts where the writer did.
LEMMA OpenTxnInv == TxnInv /\ OpenTxnBlock => TxnInv'
<1> SUFFICES ASSUME TxnInv, OpenTxnBlock PROVE TxnInv'
  OBVIOUS
<1>1. /\ txnPhase = "encoding" /\ txnPhase' = "decoding" /\ Len(txnMarks) > Len(txnRecs)
      /\ txnCur' = [c \in DOMAIN txnCols |-> 0]
      /\ UNCHANGED <<txnReg, txnBlk, txnRecs, txnCols, txnMarks, txnRead>>
  BY DEF OpenTxnBlock
<1>2. TxnTypeOK /\ KnownOfRegistry /\ TxnProgress /\ MarksFollow
  BY DEF TxnInv
<1>3. Len(txnMarks) = Len(txnRecs) + 1 /\ txnRead = << >> /\ Len(txnRead) = 0 /\ Len(txnRecs) \in Nat
  BY <1>1, <1>2, NothingOf DEF TxnTypeOK, TxnProgress
<1>4. TxnTypeOK' /\ KnownOfRegistry' /\ TxnProgress' /\ MarksFollow'
  <2>1. TxnTypeOK'
    BY <1>1, <1>2 DEF TxnTypeOK
  <2>2. KnownOfRegistry'
    BY <1>1, <1>2 DEF KnownOfRegistry
  <2>3. TxnProgress'
    BY <1>1, <1>2, <1>3 DEF TxnProgress
  <2>4. MarksFollow'
    BY <1>1, <1>2 DEF MarksFollow
  <2> QED
    BY <2>1, <2>2, <2>3, <2>4
<1>5. RowRead'
  <2>1. txnRead' = SubSeq(txnRecs', 1, Len(txnRead')) /\ Len(txnRead') = 0
    BY <1>1, <1>3, NothingOf
  <2>2. Reached(txnRead') = txnMarks'[1]
    BY <1>1, <1>2, <1>3 DEF Reached, MarksFollow
  <2>3. Len(txnRead') <= Len(txnRecs') /\ txnMarks'[Len(txnRead') + 1] = txnMarks'[1]
    BY <1>1, <1>3
  <2> QED
    BY <1>1, <2>1, <2>2, <2>3 DEF RowRead, ReadsOn
<1>6. ~ByColumn' => RowInOrder'
  <2> SUFFICES ASSUME ~ByColumn PROVE RowInOrder'
    BY <1>1 DEF ByColumn
  <2>1. RowInOrder
    BY <1>1 DEF TxnInv
  <2>2. PICK at \in [1..Len(txnMarks) -> 0..Len(txnCols[Col.row])] :
          /\ at[1] = 0 /\ at[Len(txnMarks)] = Len(txnCols[Col.row])
          /\ \A k \in 1..(Len(txnMarks) - 1) : RowAt(at, k)
    BY <2>1 DEF RowInOrder
  <2>3. \A k \in 1..(Len(txnMarks) - 1) : RowAt(at, k)'
    <3>1. \A k : RowCells(txnMarks[k], txnRecs[k])' = RowCells(txnMarks[k], txnRecs[k])
      BY <1>1 DEF RowCells, RowAttrs, IdCell, TimeCell
    <3> QED
      BY <1>1, <2>2, <3>1 DEF RowAt
  <2>4. DOMAIN txnCols = {Col.row} /\ DOMAIN txnCur' = {Col.row} /\ txnCur'[Col.row] = 0
    BY <1>1, <2>1 DEF RowInOrder
  <2>5. txnCur'[Col.row] = at[Len(txnRead') + 1]
    BY <1>1, <1>3, <2>2, <2>4
  <2>6. /\ DOMAIN txnCols' = {Col.row} /\ Len(txnCols'[Col.row]) \in Nat
        /\ txnCols'[Col.row] = [i \in 1..Len(txnCols'[Col.row]) |-> txnCols'[Col.row][i]]
    BY <1>1, <2>1 DEF RowInOrder
  <2> QED
    BY <1>1, <2>2, <2>3, <2>4, <2>5, <2>6 DEF RowInOrder
<1> QED
  BY <1>4, <1>5, <1>6 DEF TxnInv

\* What was encoded stays where it is.
LEMMA RowStays ==
  ASSUME NEW at, NEW k, RowAt(at, k), UNCHANGED <<txnBlk, txnRecs, txnCols, txnMarks>>
  PROVE  RowAt(at, k)'
<1>1. RowCells(txnMarks[k], txnRecs[k])' = RowCells(txnMarks[k], txnRecs[k])
  BY DEF RowCells, RowAttrs, IdCell, TimeCell
<1> QED
  BY <1>1 DEF RowAt

LEMMA AdvanceTyped ==
  ASSUME NEW mark, MarkOK(mark), NEW r, RecordOK(r)
  PROVE  MarkOK(Advance(r, mark.time))
BY DEF MarkOK, RecordOK, Advance

\* A record the encoder raises on leaves what was encoded.
LEMMA RaisedInv ==
  ASSUME TxnInv, txnPhase = "encoding", txnPhase' = "raised",
         UNCHANGED <<txnReg, txnBlk, txnRecs, txnCols, txnMarks, txnCur, txnRead>>
  PROVE  TxnInv'
<1>1. TxnTypeOK /\ KnownOfRegistry /\ TxnProgress /\ MarksFollow
  BY DEF TxnInv
<1>2. TxnTypeOK' /\ KnownOfRegistry' /\ TxnProgress' /\ MarksFollow'
  <2>1. TxnTypeOK'
    BY <1>1 DEF TxnTypeOK
  <2>2. KnownOfRegistry'
    BY <1>1 DEF KnownOfRegistry
  <2>3. TxnProgress'
    BY <1>1 DEF TxnProgress
  <2>4. MarksFollow'
    BY <1>1 DEF MarksFollow
  <2> QED
    BY <2>1, <2>2, <2>3, <2>4
<1>3. RowRead'
  <2>1. txnRead = << >> /\ Len(txnRecs) \in Nat
    BY <1>1 DEF TxnProgress, TxnTypeOK
  <2> QED
    BY <2>1, NothingOf DEF RowRead, ReadsOn
<1>4. ~ByColumn' => RowInOrder'
  <2> SUFFICES ASSUME ~ByColumn PROVE RowInOrder'
    BY DEF ByColumn
  <2>1. RowInOrder
    BY DEF TxnInv
  <2>2. PICK at \in [1..Len(txnMarks) -> 0..Len(txnCols[Col.row])] :
          /\ at[1] = 0 /\ at[Len(txnMarks)] = Len(txnCols[Col.row])
          /\ \A k \in 1..(Len(txnMarks) - 1) : RowAt(at, k)
    BY <2>1 DEF RowInOrder
  <2>3. \A k \in 1..(Len(txnMarks) - 1) : RowAt(at, k)'
    BY <2>2, RowStays
  <2>4. /\ DOMAIN txnCols' = {Col.row} /\ Len(txnCols'[Col.row]) \in Nat
        /\ txnCols'[Col.row] = [i \in 1..Len(txnCols'[Col.row]) |-> txnCols'[Col.row][i]]
    BY <2>1 DEF RowInOrder
  <2> QED
    BY <2>2, <2>3, <2>4 DEF RowInOrder
<1> QED
  BY <1>2, <1>3, <1>4 DEF TxnInv

\* A record encoded moves the running state, in either layout.
LEMMA EncodeMarks ==
  ASSUME TxnInv, txnPhase = "encoding", NEW n, n = Len(txnMarks), n <= Len(txnRecs),
         txnMarks' = Append(txnMarks, Advance(txnRecs[n], txnMarks[n].time)),
         UNCHANGED <<txnReg, txnBlk, txnRecs, txnCur, txnRead, txnPhase>>
  PROVE  /\ TxnTypeOK' /\ KnownOfRegistry' /\ TxnProgress' /\ MarksFollow' /\ RowRead'
         /\ n \in Nat /\ n >= 1 /\ Len(txnMarks') = n + 1
         /\ \A k \in 1..n : txnMarks'[k] = txnMarks[k]
<1>1. TxnTypeOK /\ KnownOfRegistry /\ TxnProgress /\ MarksFollow
  BY DEF TxnInv
<1>2. n \in Nat /\ n >= 1 /\ Len(txnRecs) \in Nat
  BY <1>1 DEF TxnTypeOK, TxnProgress
<1>3. MarkOK(txnMarks[n]) /\ RecordOK(txnRecs[n])
  <2>1. DOMAIN txnMarks = 1..n /\ DOMAIN txnRecs = 1..Len(txnRecs)
    BY <1>1 DEF TxnTypeOK
  <2>2. n \in DOMAIN txnMarks /\ n \in DOMAIN txnRecs
    BY <1>2, <2>1
  <2> QED
    BY <1>1, <2>2 DEF TxnTypeOK
<1>4. PICK next : next = Advance(txnRecs[n], txnMarks[n].time) /\ MarkOK(next)
  BY <1>3, AdvanceTyped
<1>5. /\ txnMarks' \in Seq({txnMarks'[k] : k \in DOMAIN txnMarks'})
      /\ Len(txnMarks') = n + 1 /\ txnMarks'[n + 1] = next
      /\ \A k \in 1..n : txnMarks'[k] = txnMarks[k]
      /\ \A k \in DOMAIN txnMarks' : MarkOK(txnMarks'[k])
  <2> DEFINE R == {txnMarks[k] : k \in DOMAIN txnMarks} \cup {next}
  <2>1. txnMarks \in Seq(R) /\ next \in R /\ \A m \in R : MarkOK(m)
    BY <1>1, <1>4 DEF TxnTypeOK
  <2> HIDE DEF R
  <2>2. PICK q : q = Append(txnMarks, next)
    OBVIOUS
  <2>3. /\ q \in Seq(R) /\ Len(q) = n + 1 /\ q[n + 1] = next
        /\ \A k \in 1..n : q[k] = txnMarks[k]
    BY <1>2, <2>1, <2>2
  <2>4. q \in Seq({q[k] : k \in DOMAIN q}) /\ \A k \in DOMAIN q : q[k] \in R
    BY <2>3, SeqOfElements
  <2> QED
    BY <1>4, <2>1, <2>2, <2>3, <2>4
<1>6. TxnTypeOK'
  BY <1>1, <1>5 DEF TxnTypeOK
<1>7. KnownOfRegistry'
  BY <1>1 DEF KnownOfRegistry
<1>8. TxnProgress'
  BY <1>1, <1>2, <1>5 DEF TxnProgress
<1>9. MarksFollow'
  <2>1. txnMarks'[1] = [id |-> 0, time |-> 0]
    BY <1>1, <1>2, <1>5 DEF MarksFollow
  <2>2. ASSUME NEW k \in 1..n
        PROVE  txnMarks'[k + 1] = Advance(txnRecs[k], txnMarks[k].time)
    <3>1. CASE k = n
      BY <1>4, <1>5, <3>1
    <3>2. CASE k # n
      <4>1. k \in 1..(n - 1) /\ k + 1 \in 1..n
        BY <1>2, <3>2
      <4> QED
        BY <1>1, <1>5, <4>1 DEF MarksFollow
    <3> QED
      BY <3>1, <3>2
  <2>3. Len(txnMarks') - 1 = n
    BY <1>2, <1>5
  <2> QED
    BY <1>5, <2>1, <2>2, <2>3 DEF MarksFollow
<1>10. RowRead'
  <2>1. txnRead = << >>
    BY <1>1 DEF TxnProgress
  <2> QED
    BY <1>2, <2>1, NothingOf DEF RowRead, ReadsOn
<1> QED
  BY <1>2, <1>5, <1>6, <1>7, <1>8, <1>9, <1>10

\* In the row layout the numbers of the record come at the end of the row.
LEMMA EncodeRow ==
  ASSUME TxnInv, txnPhase = "encoding", ~ByColumn,
         NEW n, n = Len(txnMarks), n <= Len(txnRecs),
         NEW s, s = RowCells(txnMarks[n], txnRecs[n]),
         txnMarks' = Append(txnMarks, Advance(txnRecs[n], txnMarks[n].time)),
         txnCols' = [txnCols EXCEPT ![Col.row] = @ \o s],
         UNCHANGED <<txnReg, txnBlk, txnRecs, txnCur, txnRead, txnPhase>>
  PROVE  RowInOrder'
<1>1. /\ n \in Nat /\ n >= 1 /\ Len(txnMarks') = n + 1
      /\ \A k \in 1..n : txnMarks'[k] = txnMarks[k]
  BY EncodeMarks
<1>2. RowInOrder /\ TxnTypeOK
  BY DEF TxnInv
<1>3. \A k \in 1..n : MarkOK(txnMarks[k]) /\ RecordOK(txnRecs[k])
  <2>1. DOMAIN txnMarks = 1..n /\ DOMAIN txnRecs = 1..Len(txnRecs) /\ Len(txnRecs) \in Nat
    BY <1>2 DEF TxnTypeOK
  <2>2. \A k \in 1..n : k \in DOMAIN txnMarks /\ k \in DOMAIN txnRecs
    BY <1>1, <2>1
  <2> QED
    BY <1>2, <2>2 DEF TxnTypeOK
<1>4. IsSequence(s)
  <2>1. n \in 1..n
    BY <1>1
  <2> QED
    BY <1>3, <2>1, RowTyped
<1>5. PICK old : old = txnCols[Col.row]
  OBVIOUS
<1>6. IsSequence(old)
  BY <1>2, <1>5 DEF RowInOrder, IsSequence
<1>7. PICK row : row = old \o s
  OBVIOUS
<1>8. DOMAIN txnCols' = {Col.row} /\ txnCols'[Col.row] = row
  BY <1>2, <1>5, <1>7 DEF RowInOrder
<1>9. /\ IsSequence(row) /\ Len(row) = Len(old) + Len(s)
      /\ \A i \in 1..Len(old) : row[i] = old[i]
      /\ \A i \in 1..Len(s) : row[Len(old) + i] = s[i]
  BY <1>4, <1>6, <1>7, SequencesJoined
<1>10. Len(old) \in Nat /\ Len(s) \in Nat /\ Len(row) \in Nat
  BY <1>4, <1>6, <1>9 DEF IsSequence
<1>11. PICK at \in [1..n -> 0..Len(old)] :
         /\ at[1] = 0 /\ at[n] = Len(old)
         /\ \A k \in 1..(n - 1) : RowAt(at, k)
  BY <1>2, <1>5 DEF RowInOrder
<1>12. PICK to : to = [k \in 1..(n + 1) |-> IF k = n + 1 THEN Len(row) ELSE at[k]]
  OBVIOUS
<1>13. /\ to[n + 1] = Len(row) /\ \A k \in 1..n : to[k] = at[k]
       /\ to = [k \in 1..(n + 1) |-> to[k]]
  BY <1>1, <1>12
<1>14. to \in [1..(n + 1) -> 0..Len(row)]
  <2>1. \A k \in 1..n : at[k] \in 0..Len(old)
    BY <1>11
  <2>2. \A k \in 1..(n + 1) : to[k] \in 0..Len(row)
    <3> TAKE k \in 1..(n + 1)
    <3>1. CASE k = n + 1
      BY <1>10, <1>13, <3>1
    <3>2. CASE k # n + 1
      <4>1. k \in 1..n
        BY <1>1, <3>2
      <4>2. to[k] = at[k] /\ at[k] \in 0..Len(old)
        BY <1>13, <2>1, <4>1
      <4> QED
        BY <1>9, <1>10, <4>2
    <3> QED
      BY <3>1, <3>2
  <2> QED
    BY <1>13, <2>2
<1>16. \A k \in 1..n : RowCells(txnMarks[k], txnRecs[k])' = RowCells(txnMarks[k], txnRecs[k])
  <2> TAKE k \in 1..n
  <2>1. txnMarks'[k] = txnMarks[k] /\ txnRecs'[k] = txnRecs[k]
    BY <1>1
  <2> QED
    BY <2>1 DEF RowCells, RowAttrs, IdCell, TimeCell
<1>17. ASSUME NEW k \in 1..(n - 1) PROVE RowAt(to, k)'
  <2>1. k \in 1..n /\ k + 1 \in 1..n
    BY <1>1
  <2>2. PICK c : c = RowCells(txnMarks[k], txnRecs[k])
    OBVIOUS
  <2>3. at[k + 1] = at[k] + Len(c) /\ \A i \in 1..Len(c) : old[at[k] + i] = c[i]
    BY <1>5, <1>11, <2>2 DEF RowAt
  <2>4. to[k] = at[k] /\ to[k + 1] = at[k + 1]
    BY <1>13, <2>1
  <2>5. Len(c) \in Nat
    BY <1>3, <2>1, <2>2, RowTyped DEF IsSequence
  <2>6. at[k] \in 0..Len(old) /\ at[k + 1] \in 0..Len(old)
    BY <1>11, <2>1
  <2>7. \A i \in 1..Len(c) : at[k] + i \in 1..Len(old)
    BY <1>10, <2>3, <2>5, <2>6
  <2>8. \A i \in 1..Len(c) : row[to[k] + i] = c[i]
    BY <1>9, <2>3, <2>4, <2>7
  <2>9. to[k + 1] = to[k] + Len(c)
    BY <2>3, <2>4
  <2>10. RowCells(txnMarks[k], txnRecs[k])' = c
    BY <1>16, <2>1, <2>2
  <2> QED
    BY <1>8, <2>8, <2>9, <2>10 DEF RowAt
<1>18. RowAt(to, n)'
  <2>1. n \in 1..n
    BY <1>1
  <2>2. to[n] = Len(old) /\ to[n + 1] = to[n] + Len(s)
    BY <1>9, <1>11, <1>13, <2>1
  <2>3. \A i \in 1..Len(s) : row[to[n] + i] = s[i]
    BY <1>9, <2>2
  <2>4. RowCells(txnMarks[n], txnRecs[n])' = s
    BY <1>16, <2>1
  <2> QED
    BY <1>8, <2>2, <2>3, <2>4 DEF RowAt
<1>19. \A k \in 1..(Len(txnMarks') - 1) : RowAt(to, k)'
  <2>1. \A k \in 1..(Len(txnMarks') - 1) : k \in 1..(n - 1) \/ k = n
    BY <1>1
  <2> QED
    BY <1>17, <1>18, <2>1
<1>20. to[1] = 0 /\ to[Len(txnMarks')] = Len(row)
  <2>1. 1 \in 1..n
    BY <1>1
  <2> QED
    BY <1>1, <1>11, <1>13, <2>1
<1>21. row = [i \in 1..Len(row) |-> row[i]]
  BY <1>9 DEF IsSequence
<1>22. to \in [1..Len(txnMarks') -> 0..Len(txnCols'[Col.row])]
  BY <1>1, <1>8, <1>14
<1> QED
  BY <1>8, <1>10, <1>19, <1>20, <1>21, <1>22 DEF RowInOrder

LEMMA EncodeTxnInv == TxnInv /\ EncodeRecord => TxnInv'
<1> SUFFICES ASSUME TxnInv, EncodeRecord PROVE TxnInv'
  OBVIOUS
<1>1. PICK n : n = Len(txnMarks)
  OBVIOUS
<1>2. /\ txnPhase = "encoding" /\ n <= Len(txnRecs)
      /\ UNCHANGED <<txnReg, txnBlk, txnRecs, txnCur, txnRead>>
      /\ \/ txnPhase' = "raised" /\ UNCHANGED <<txnCols, txnMarks>>
         \/ /\ txnCols' = IF ByColumn THEN Scatter(ColumnCells(txnMarks[n], txnRecs[n]))
                          ELSE [txnCols EXCEPT ![Col.row] =
                                  @ \o RowCells(txnMarks[n], txnRecs[n])]
            /\ txnMarks' = Append(txnMarks, Advance(txnRecs[n], txnMarks[n].time))
            /\ UNCHANGED txnPhase
  BY <1>1, Zenon DEF EncodeRecord, Mark
<1>3. CASE txnPhase' = "raised" /\ UNCHANGED <<txnCols, txnMarks>>
  BY <1>2, <1>3, RaisedInv
<1>4. CASE /\ txnCols' = IF ByColumn THEN Scatter(ColumnCells(txnMarks[n], txnRecs[n]))
                         ELSE [txnCols EXCEPT ![Col.row] =
                                 @ \o RowCells(txnMarks[n], txnRecs[n])]
           /\ txnMarks' = Append(txnMarks, Advance(txnRecs[n], txnMarks[n].time))
           /\ UNCHANGED txnPhase
  <2>1. TxnTypeOK' /\ KnownOfRegistry' /\ TxnProgress' /\ MarksFollow' /\ RowRead'
    BY <1>1, <1>2, <1>4, EncodeMarks
  <2>2. ~ByColumn' => RowInOrder'
    <3> SUFFICES ASSUME ~ByColumn PROVE RowInOrder'
      BY <1>2 DEF ByColumn
    <3>1. PICK s : s = RowCells(txnMarks[n], txnRecs[n])
      OBVIOUS
    <3>2. txnCols' = [txnCols EXCEPT ![Col.row] = @ \o s]
      BY <1>4, <3>1
    <3>3. UNCHANGED <<txnReg, txnBlk, txnRecs, txnCur, txnRead, txnPhase>>
      BY <1>2, <1>4
    <3>4. txnMarks' = Append(txnMarks, Advance(txnRecs[n], txnMarks[n].time))
      BY <1>4
    <3> QED
      BY <1>1, <1>2, <3>1, <3>2, <3>3, <3>4, EncodeRow
  <2> QED
    BY <2>1, <2>2 DEF TxnInv
<1> QED
  BY <1>2, <1>3, <1>4

\* Whatever the reader makes of the cells, it is at most one record more or astray.
LEMMA DecodeOneRecord ==
  ASSUME DecodeRecord
  PROVE  /\ txnRead' = txnRead \/ \E r : txnRead' = Append(txnRead, r)
         /\ txnPhase = "decoding" /\ txnPhase' \in {"decoding", "astray"}
         /\ Len(txnRead) < Len(txnRecs)
         /\ UNCHANGED <<txnReg, txnBlk, txnRecs, txnCols, txnMarks>>
<1>1. /\ txnPhase = "decoding" /\ Len(txnRead) < Len(txnRecs)
      /\ DecodeColumns \/ DecodeRow
      /\ UNCHANGED <<txnReg, txnBlk, txnRecs, txnCols, txnMarks>>
  BY DEF DecodeRecord
<1>2. \/ (\E r : txnRead' = Append(txnRead, r)) /\ txnPhase' = txnPhase
      \/ txnRead' = txnRead /\ txnPhase' = "astray"
  <2>1. CASE DecodeColumns
    BY <2>1, Zenon DEF DecodeColumns
  <2>2. CASE DecodeRow
    BY <2>2, Zenon DEF DecodeRow
  <2> QED
    BY <1>1, <2>1, <2>2
<1> QED
  BY <1>1, <1>2

\* The next row is read as the record that it was, when that fits.
LEMMA ReadsNext ==
  ASSUME TxnInv, DecodeRecord, ~ByColumn, Representable, NEW k, k = Len(txnRead) + 1
  PROVE  /\ RowTaken(Len(RowCells(txnMarks[k], txnRecs[k])), txnRecs[k])
         /\ Reached(txnRead) = txnMarks[k]
<1>1. /\ txnPhase = "decoding" /\ Len(txnRead) < Len(txnRecs)
  BY DecodeOneRecord
<1>2. TxnTypeOK /\ TxnProgress /\ RowInOrder /\ RowRead
  BY <1>1 DEF TxnInv
<1>3. /\ Len(txnRead) \in Nat /\ Len(txnRecs) \in Nat /\ Len(txnMarks) = Len(txnRecs) + 1
  BY <1>1, <1>2 DEF TxnTypeOK, TxnProgress
<1>4. k \in 1..Len(txnRecs) /\ k \in 1..Len(txnMarks) /\ k \in 1..(Len(txnMarks) - 1)
      /\ k + 1 \in 1..Len(txnMarks)
  BY <1>1, <1>3
<1>5. RecordOK(txnRecs[k]) /\ MarkOK(txnMarks[k])
  <2>1. DOMAIN txnMarks = 1..Len(txnMarks) /\ DOMAIN txnRecs = 1..Len(txnRecs)
    BY <1>2 DEF TxnTypeOK
  <2> QED
    BY <1>2, <1>4, <2>1 DEF TxnTypeOK
<1>6. Fits(txnMarks[k], txnRecs[k]) /\ SameFormats(txnRecs[k])
  BY <1>4, RepresentableRow
<1>7. Reached(txnRead) = txnMarks[k]
  BY <1>1, <1>2 DEF RowRead
<1>8. CellsAhead(txnCols[Col.row], txnCur[Col.row], RowCells(txnMarks[k], txnRecs[k]))
  <2>1. PICK cells, s : cells = txnCols[Col.row] /\ s = RowCells(txnMarks[k], txnRecs[k])
    OBVIOUS
  <2>2. PICK at \in [1..Len(txnMarks) -> 0..Len(cells)] :
          RowAt(at, k) /\ txnCur[Col.row] = at[k]
    BY <1>1, <1>2, <1>4, <2>1 DEF RowInOrder
  <2>3. at[k + 1] = at[k] + Len(s) /\ \A i \in 1..Len(s) : cells[at[k] + i] = s[i]
    BY <2>1, <2>2 DEF RowAt
  <2>4. at[k] \in 0..Len(cells) /\ at[k + 1] \in 0..Len(cells)
    BY <1>4, <2>2
  <2>5. Len(cells) \in Nat
    BY <1>2, <2>1 DEF RowInOrder
  <2>6. at[k] \in Nat /\ at[k] + Len(s) <= Len(cells)
    BY <2>3, <2>4, <2>5
  <2>7. CellsAhead(cells, at[k], s)
    BY <2>3, <2>5, <2>6 DEF CellsAhead
  <2> QED
    BY <2>1, <2>2, <2>7
<1>9. txnBlk.delta \in BOOLEAN
  BY <1>2 DEF TxnTypeOK
<1>10. RowAhead(txnMarks[k], txnRecs[k])
  BY <1>5, <1>6, <1>7, <1>8, <1>9 DEF RowAhead
<1>11. DecodeRow
  BY DEF DecodeRecord
<1> QED
  BY <1>7, <1>10, <1>11, ReadsRow

LEMMA DecodeTxnInv == TxnInv /\ DecodeRecord => TxnInv'
<1> SUFFICES ASSUME TxnInv, DecodeRecord PROVE TxnInv'
  OBVIOUS
<1>1. /\ txnRead' = txnRead \/ \E r : txnRead' = Append(txnRead, r)
      /\ txnPhase = "decoding" /\ txnPhase' \in {"decoding", "astray"}
      /\ Len(txnRead) < Len(txnRecs)
      /\ UNCHANGED <<txnReg, txnBlk, txnRecs, txnCols, txnMarks>>
  BY DecodeOneRecord
<1>2. TxnTypeOK /\ KnownOfRegistry /\ TxnProgress /\ MarksFollow
  BY DEF TxnInv
<1>3. /\ Len(txnMarks) = Len(txnRecs) + 1 /\ Len(txnRecs) \in Nat /\ Len(txnRead) \in Nat
  BY <1>1, <1>2 DEF TxnTypeOK, TxnProgress
<1>4. TxnTypeOK'
  <2>1. txnRead' \in Seq({txnRead'[k] : k \in DOMAIN txnRead'})
    <3>1. CASE txnRead' = txnRead
      BY <1>2, <3>1 DEF TxnTypeOK
    <3>2. ASSUME NEW r, txnRead' = Append(txnRead, r)
          PROVE  txnRead' \in Seq({txnRead'[k] : k \in DOMAIN txnRead'})
      <4> DEFINE R == {txnRead[k] : k \in DOMAIN txnRead} \cup {r}
      <4>1. txnRead \in Seq(R) /\ r \in R
        BY <1>2 DEF TxnTypeOK
      <4> HIDE DEF R
      <4>2. txnRead' \in Seq(R)
        BY <3>2, <4>1
      <4> QED
        BY <4>2, SeqOfElements
    <3> QED
      BY <1>1, <3>1, <3>2
  <2> QED
    BY <1>1, <1>2, <2>1 DEF TxnTypeOK
<1>5. KnownOfRegistry'
  BY <1>1, <1>2 DEF KnownOfRegistry
<1>6. TxnProgress'
  BY <1>1, <1>2, <1>3 DEF TxnProgress
<1>7. MarksFollow'
  BY <1>1, <1>2 DEF MarksFollow
<1>8. Representable' <=> Representable
  BY <1>1 DEF Representable
<1>9. ByColumn' <=> ByColumn
  BY <1>1 DEF ByColumn
<1>10. PICK k : k = Len(txnRead) + 1
  OBVIOUS
<1>11. k \in 1..Len(txnRecs) /\ k \in 1..(Len(txnMarks) - 1) /\ k \in Nat
  BY <1>1, <1>3, <1>10
<1>12. PICK s : s = RowCells(txnMarks[k], txnRecs[k])
  OBVIOUS
<1>13. Representable /\ ~ByColumn =>
         /\ txnRead' = Append(txnRead, txnRecs[k]) /\ Len(txnRead') = k
         /\ txnCur' = [txnCur EXCEPT ![Col.row] = txnCur[Col.row] + Len(s)]
         /\ txnPhase' = "decoding"
         /\ Reached(txnRead') = txnMarks[k + 1]
  <2> SUFFICES ASSUME Representable, ~ByColumn
               PROVE  /\ txnRead' = Append(txnRead, txnRecs[k]) /\ Len(txnRead') = k
                      /\ txnCur' = [txnCur EXCEPT ![Col.row] = txnCur[Col.row] + Len(s)]
                      /\ txnPhase' = "decoding"
                      /\ Reached(txnRead') = txnMarks[k + 1]
    OBVIOUS
  <2>1. RowTaken(Len(s), txnRecs[k]) /\ Reached(txnRead) = txnMarks[k]
    BY <1>10, <1>12, ReadsNext
  <2> DEFINE R == {txnRead[i] : i \in DOMAIN txnRead}
  <2>2. txnRead \in Seq(R)
    BY <1>2 DEF TxnTypeOK
  <2> HIDE DEF R
  <2>3. Len(Append(txnRead, txnRecs[k])) = k
    BY <1>10, <2>2
  <2>4. Reached(Append(txnRead, txnRecs[k])) = Advance(txnRecs[k], Reached(txnRead).time)
    BY <2>2, ReachedAppend
  <2>5. txnMarks[k + 1] = Advance(txnRecs[k], txnMarks[k].time)
    BY <1>2, <1>11 DEF MarksFollow
  <2> QED
    BY <1>1, <2>1, <2>3, <2>4, <2>5 DEF RowTaken
<1>14. ~ByColumn' => RowRead'
  <2> SUFFICES ASSUME Representable, ~ByColumn
               PROVE  /\ txnPhase' # "astray" /\ txnRead' = SubSeq(txnRecs', 1, Len(txnRead'))
                      /\ Len(txnRead') <= Len(txnRecs')
                      /\ Reached(txnRead') = txnMarks'[Len(txnRead') + 1]
    BY <1>8, <1>9 DEF RowRead, ReadsOn
  <2>1. txnRead = SubSeq(txnRecs, 1, Len(txnRead))
    BY DEF TxnInv, RowRead, ReadsOn
  <2> DEFINE R == {txnRecs[i] : i \in DOMAIN txnRecs}
  <2>2. txnRecs \in Seq(R)
    BY <1>2 DEF TxnTypeOK
  <2> HIDE DEF R
  <2>3. Append(SubSeq(txnRecs, 1, k - 1), txnRecs[k]) = SubSeq(txnRecs, 1, k)
    BY <1>11, <2>2
  <2>4. Len(txnRead) = k - 1
    BY <1>3, <1>10
  <2>5. txnRead' = SubSeq(txnRecs, 1, k) /\ Len(txnRead') = k
    BY <1>13, <2>1, <2>3, <2>4
  <2>6. k <= Len(txnRecs)
    BY <1>11, <1>3
  <2> QED
    BY <1>1, <1>13, <2>5, <2>6
<1>15. ~ByColumn' => RowInOrder'
  <2> SUFFICES ASSUME ~ByColumn PROVE RowInOrder'
    BY <1>9
  <2>1. RowInOrder
    BY <1>1 DEF TxnInv
  <2>2. PICK at \in [1..Len(txnMarks) -> 0..Len(txnCols[Col.row])] :
          /\ at[1] = 0 /\ at[Len(txnMarks)] = Len(txnCols[Col.row])
          /\ \A i \in 1..(Len(txnMarks) - 1) : RowAt(at, i)
          /\ Representable => txnCur[Col.row] = at[k]
    BY <1>1, <1>10, <2>1 DEF RowInOrder
  <2>3. \A i \in 1..(Len(txnMarks) - 1) : RowAt(at, i)'
    BY <1>1, <2>2, RowStays
  <2>4. at[k + 1] = at[k] + Len(s)
    BY <1>11, <1>12, <2>2 DEF RowAt
  <2>5. txnPhase' = "decoding" => DOMAIN txnCur' = {Col.row}
    <3>1. DOMAIN txnCur = {Col.row}
      BY <1>1, <2>1 DEF RowInOrder
    <3>2. DecodeRow
      BY DEF DecodeRecord
    <3>3. txnPhase' = "astray" \/ \E n : txnCur' = [txnCur EXCEPT ![Col.row] = n]
      BY <3>2, Zenon DEF DecodeRow
    <3> QED
      BY <3>1, <3>3
  <2>6. Representable => txnCur'[Col.row] = at[Len(txnRead') + 1]
    <3>1. DOMAIN txnCur = {Col.row}
      BY <1>1, <2>1 DEF RowInOrder
    <3>2. Representable => txnCur'[Col.row] = txnCur[Col.row] + Len(s) /\ Len(txnRead') = k
      BY <1>13, <3>1
    <3> QED
      BY <2>2, <2>4, <3>2
  <2>7. /\ DOMAIN txnCols' = {Col.row} /\ Len(txnCols'[Col.row]) \in Nat
        /\ txnCols'[Col.row] = [i \in 1..Len(txnCols'[Col.row]) |-> txnCols'[Col.row][i]]
    BY <1>1, <2>1 DEF RowInOrder
  <2> QED
    BY <1>1, <1>8, <2>2, <2>3, <2>5, <2>6, <2>7 DEF RowInOrder
<1> QED
  BY <1>4, <1>5, <1>6, <1>7, <1>14, <1>15 DEF TxnInv

LEMMA TxnStutterInv == TxnInv /\ UNCHANGED txnVars => TxnInv'
<1> SUFFICES ASSUME TxnInv, UNCHANGED txnVars PROVE TxnInv'
  OBVIOUS
<1> USE DEF txnVars
<1>1. Representable' <=> Representable
  BY DEF Representable
<1>2. TxnTypeOK' /\ KnownOfRegistry' /\ TxnProgress' /\ MarksFollow'
  <2>1. TxnTypeOK'
    BY DEF TxnInv, TxnTypeOK
  <2>2. KnownOfRegistry'
    BY DEF TxnInv, KnownOfRegistry
  <2>3. TxnProgress'
    BY DEF TxnInv, TxnProgress
  <2>4. MarksFollow'
    BY DEF TxnInv, MarksFollow
  <2> QED
    BY <2>1, <2>2, <2>3, <2>4
<1>3. RowRead' <=> RowRead
  BY <1>1 DEF RowRead, ReadsOn
<1>4. RowInOrder => RowInOrder'
  <2>1. \A at, k : RowAt(at, k) => RowAt(at, k)'
    BY RowStays
  <2> QED
    BY <1>1, <2>1 DEF RowInOrder
<1> QED
  BY <1>2, <1>3, <1>4 DEF TxnInv, ByColumn

-----------------------------------------------------------------------------
(* Theorems about transactions *)

\* TxnInv holds in every reachable state.
THEOREM TxnInvariant == TxnSpec => []TxnInv
<1>1. TxnInit => TxnInv
  BY TxnInitInv
<1>2. TxnInv /\ [TxnNext]_txnVars => TxnInv'
  <2> SUFFICES ASSUME TxnInv, [TxnNext]_txnVars PROVE TxnInv'
    OBVIOUS
  <2>1. CASE \E fields \in FieldLists : DeclareSchema(fields)
    BY <2>1, DeclareSchemaInv
  <2>2. CASE BeginTxnBlock
    BY <2>2, BeginTxnBlockInv
  <2>3. CASE \E type \in TxnTypes, id \in RecIds, span \in Spans :
               RecordBegin(type, id, span) \/ \E attrs \in AttrLists : RecordFull(type, id, span, attrs)
    BY <2>3, ClientRecords
  <2>4. CASE \E id \in RecIds : RecordLink(id) \/ RecordMeta(id)
    BY <2>4, ClientRecords
  <2>5. CASE \E id \in RecIds, attrs \in AttrLists : RecordAttrs(id, attrs)
    BY <2>5, ClientRecords
  <2>6. CASE \E id \in RecIds, span \in Spans : RecordEnd(id, span)
    BY <2>6, ClientRecords
  <2>7. CASE FlushTxnBlock
    BY <2>7, FlushTxnInv
  <2>8. CASE EncodeRecord
    BY <2>8, EncodeTxnInv
  <2>9. CASE OpenTxnBlock
    BY <2>9, OpenTxnInv
  <2>10. CASE DecodeRecord
    BY <2>10, DecodeTxnInv
  <2>11. CASE UNCHANGED txnVars
    BY <2>11, TxnStutterInv
  <2> QED
    BY <2>1, <2>2, <2>3, <2>4, <2>5, <2>6, <2>7, <2>8, <2>9, <2>10, <2>11 DEF TxnNext
<1> QED
  BY <1>1, <1>2, PTL DEF TxnSpec

\* In the row layout every record reads back as it was written, for any number of
\* records, any declared schemas and any attributes, whatever was declared since the block
\* was begun: the reader's running state is the writer's at the same record, and it finds
\* the end of every list of attributes.
THEOREM RowsReadBack == TxnSpec => []RowReadsBack
<1>1. TxnInv => RowReadsBack
  BY DEF TxnInv, RowReadsBack, RowRead
<1> QED
  BY <1>1, TxnInvariant, PTL
=============================================================================
