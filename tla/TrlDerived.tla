------------------------------ MODULE TrlDerived -----------------------------
(***************************************************************************)
(* Derived signals (_derived.py): an expression over other signals is       *)
(* compiled to bytecode in post-order, and evaluated by a stack machine     *)
(* when one of its inputs changes.                                          *)
(*                                                                          *)
(* A number is the set of its one bits.  -1 in it stands for all bits from  *)
(* TopBit on, so that a complement is a number here as it is in Python; no  *)
(* number of a run reaches TopBit.  Varints and the aux block around a      *)
(* definition are TrlCodecs' and TrlWriter's.                               *)
(***************************************************************************)
EXTENDS Integers, FiniteSets, SequencesExt

CONSTANTS
  Inputs,        \* number of input signals
  Constants,     \* constants of expressions
  Amounts,       \* shifts and widths in expressions
  OutWidths,     \* declared widths; 0 stands for a word
  InputValues, InputTimes,
  TopBit, WordBits,
  MaxExprNodes, MaxInputChanges

ASSUME DerivedAssumption ==
  /\ Inputs \in Nat
  /\ Amounts \cup OutWidths \cup InputTimes \subseteq Nat
  /\ \A value \in Constants \cup InputValues : value \subseteq 0..(TopBit - 1)
  /\ WordBits \in 0..TopBit
  /\ MaxExprNodes \in Nat
  /\ MaxInputChanges \in Nat

VARIABLES
  exprNodes,     \* the expression: nodes, operands before operators, the root last
  exprCode,      \* the definition stored: bytecode and width
  inputChanges,  \* of each input, times and values
  derivedOut,    \* the derived signal's changes
  derivedPhase   \* "building", "recording" or "evaluated"

derivedVars == <<exprNodes, exprCode, inputChanges, derivedOut, derivedPhase>>

Unary == {"NOT", "LNOT"}
Binary2 == {"AND", "OR", "XOR", "EQ", "NE"}
WithAmount == {"SHL", "SHR", "RED_AND", "RED_OR"}

DerivedInit ==
  /\ exprNodes = << >>
  /\ exprCode = << >>
  /\ inputChanges = [i \in 1..Inputs |-> << >>]
  /\ derivedOut = << >>
  /\ derivedPhase = "building"

-----------------------------------------------------------------------------
(* Expressions *)

\* A node of the tree: an opcode, its immediates, and its operands' nodes.
AddNode(op, imm, kids) ==
  /\ derivedPhase = "building"
  /\ Len(exprNodes) < MaxExprNodes
  /\ exprNodes' = Append(exprNodes, [op |-> op, imm |-> imm, kids |-> kids])
  /\ UNCHANGED <<exprCode, inputChanges, derivedOut, derivedPhase>>

\* The builders of Expr.
BuildExpr ==
  LET at == 1..Len(exprNodes)
  IN  \/ \E i \in 1..Inputs : AddNode("INPUT", <<i>>, << >>)
      \/ \E c \in Constants : AddNode("CONST", <<c>>, << >>)
      \/ \E op \in Unary, a \in at : AddNode(op, << >>, <<a>>)
      \/ \E op \in Binary2, a, b \in at : AddNode(op, << >>, <<a, b>>)
      \/ \E op \in WithAmount, k \in Amounts, a \in at : AddNode(op, <<k>>, <<a>>)
      \/ \E lo, w \in Amounts, a \in at : AddNode("SLICE", <<lo, w>>, <<a>>)
      \/ \E w \in Amounts, a, b \in at : AddNode("CONCAT", <<w>>, <<a, b>>)

\* compile_expr: the operands' code in order, then the operator with its
\* immediates.
Compile(nodes) ==
  LET Emit[n \in 1..Len(nodes)] ==
        FlattenSeq([k \in 1..Len(nodes[n].kids) |-> Emit[nodes[n].kids[k]]])
        \o <<[op |-> nodes[n].op, imm |-> nodes[n].imm]>>
  IN  Emit[Len(nodes)]

\* TrlWriter.add_derived_signal: what the root does not reach is not part of the
\* expression.
DefineDerived(width) ==
  /\ derivedPhase = "building"
  /\ exprNodes # << >>
  /\ \A n \in 1..(Len(exprNodes) - 1) :
       \E m \in (n + 1)..Len(exprNodes) : Contains(exprNodes[m].kids, n)
  /\ exprCode' = [code |-> Compile(exprNodes), width |-> width]
  /\ derivedPhase' = "recording"
  /\ UNCHANGED <<exprNodes, inputChanges, derivedOut>>

-----------------------------------------------------------------------------
(* The stack machine *)

Bits == -1..(TopBit - 1)
Mask(width) == 0..(width - 1)
Truth(b) == IF b THEN {0} ELSE {}

ShiftLeft(v, k) == {b + k : b \in v \ {-1}} \cup (v \cap {-1})
ShiftRight(v, k) ==
  {b - k : b \in {c \in v : c >= k}} \cup IF -1 \in v THEN -1..(TopBit - 1) \ Mask(TopBit - k) ELSE {}

\* What an operator makes of its operands.
Apply(op, imm, args) ==
  LET a == args[1]
      b == args[2]
  IN  CASE op = "NOT" -> Bits \ a
        [] op = "AND" -> a \cap b
        [] op = "OR" -> a \cup b
        [] op = "XOR" -> (a \ b) \cup (b \ a)
        [] op = "LNOT" -> Truth(a = {})
        [] op = "EQ" -> Truth(a = b)
        [] op = "NE" -> Truth(a # b)
        [] op = "SHL" -> ShiftLeft(a, imm[1])
        [] op = "SHR" -> ShiftRight(a, imm[1])
        [] op = "RED_AND" -> Truth(Mask(imm[1]) \subseteq a)
        [] op = "RED_OR" -> Truth(Mask(imm[1]) \cap a # {})
        [] op = "SLICE" -> ShiftRight(a, imm[1]) \cap Mask(imm[2])
        [] op = "CONCAT" -> ShiftLeft(a, imm[1]) \cup (b \cap Mask(imm[1]))

\* Operands an opcode takes off the stack.
Arity(op) ==
  CASE op \in {"INPUT", "CONST"} -> 0
    [] op \in Unary \cup WithAmount \cup {"SLICE"} -> 1
    [] op \in Binary2 \cup {"CONCAT"} -> 2

CutTo(value, width) == value \cap Mask(IF width = 0 THEN WordBits ELSE width)

\* eval_bytecode
Evaluate(inputs) ==
  LET Step(stack, t) ==
        LET rest == SubSeq(stack, 1, Len(stack) - Arity(t.op))
            args == SubSeq(stack, Len(rest) + 1, Len(stack))
        IN  CASE t.op = "INPUT" -> Append(stack, inputs[t.imm[1]])
              [] t.op = "CONST" -> Append(stack, t.imm[1])
              [] OTHER -> Append(rest, Apply(t.op, t.imm, args))
      stack == FoldLeft(Step, << >>, exprCode.code)
  IN  CutTo(stack[1], exprCode.width)

-----------------------------------------------------------------------------
(* Evaluation over time *)

\* A change of an input, not before the input's last.
InputChange(i, time, value) ==
  /\ derivedPhase = "recording"
  /\ FoldLeft(LAMBDA n, list : n + Len(list), 0, inputChanges) < MaxInputChanges
  /\ inputChanges[i] # << >> => inputChanges[i][Len(inputChanges[i])].time <= time
  /\ inputChanges' = [inputChanges EXCEPT ![i] = Append(@, [time |-> time, value |-> value])]
  /\ UNCHANGED <<exprNodes, exprCode, derivedOut, derivedPhase>>

\* The times at which some input changes, in order.
ChangeTimes ==
  SetToSortSeq(UNION {{inputChanges[i][k].time : k \in 1..Len(inputChanges[i])} : i \in 1..Inputs},
               LAMBDA s, t : s < t)

\* Mutant of Passed: one change of an input at most is taken at a time.
PassedOne(list, cursor, time) ==
  cursor + IF cursor < Len(list) /\ list[cursor + 1].time <= time THEN 1 ELSE 0

\* The cursor of an input moves past all its changes up to the time.
Passed(list, cursor, time) ==
  cursor + Len(SelectSeq(SubSeq(list, cursor + 1, Len(list)), LAMBDA c : c.time <= time))

\* evaluate_changes: at each of the times, the value if it is another than before.
EvaluateChanges ==
  /\ derivedPhase = "recording"
  /\ LET Step(st, t) ==
           LET cursors == [i \in 1..Inputs |-> Passed(inputChanges[i], st.cursors[i], t)]
               current == [i \in 1..Inputs |->
                             IF cursors[i] = 0 THEN {} ELSE inputChanges[i][cursors[i]].value]
               value == Evaluate(current)
           IN  [cursors |-> cursors,
                out |-> IF st.out # << >> /\ st.out[Len(st.out)].value = value THEN st.out
                        ELSE Append(st.out, [time |-> t, value |-> value])]
     IN  derivedOut' = FoldLeft(Step, [cursors |-> [i \in 1..Inputs |-> 0], out |-> << >>],
                                ChangeTimes).out
  /\ derivedPhase' = "evaluated"
  /\ UNCHANGED <<exprNodes, exprCode, inputChanges>>

DerivedNext ==
  \/ BuildExpr
  \/ \E width \in OutWidths : DefineDerived(width)
  \/ \E i \in 1..Inputs, time \in InputTimes, value \in InputValues : InputChange(i, time, value)
  \/ EvaluateChanges

DerivedSpec == DerivedInit /\ [][DerivedNext]_derivedVars

-----------------------------------------------------------------------------
(* Properties *)

\* What the expression tree says, of given inputs.
Meaning(inputs) ==
  LET Of[n \in 1..Len(exprNodes)] ==
        LET node == exprNodes[n]
        IN  CASE node.op = "INPUT" -> inputs[node.imm[1]]
              [] node.op = "CONST" -> node.imm[1]
              [] OTHER -> Apply(node.op, node.imm, [k \in 1..Len(node.kids) |-> Of[node.kids[k]]])
  IN  CutTo(Of[Len(exprNodes)], exprCode.width)

\* The value a list of changes has at a time: the last one by then, or 0.
ValueAt(list, time) ==
  LET by == {k \in 1..Len(list) : list[k].time <= time}
  IN  IF by = {} THEN {} ELSE list[Max(by)].value

\* From the first change of an input on, the derived signal has at every time
\* the value its expression has of the inputs' values then, and it only changes
\* to another value.
DerivedAgrees ==
  derivedPhase = "evaluated" =>
    /\ \A t \in {ChangeTimes[k] : k \in 1..Len(ChangeTimes)} :
         ValueAt(derivedOut, t) = Meaning([i \in 1..Inputs |-> ValueAt(inputChanges[i], t)])
    /\ \A k \in 2..Len(derivedOut) :
         derivedOut[k - 1].time < derivedOut[k].time /\ derivedOut[k - 1].value # derivedOut[k].value
=============================================================================
