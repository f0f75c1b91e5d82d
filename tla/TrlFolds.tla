------------------------------ MODULE TrlFolds ------------------------------
(***************************************************************************)
(* A fold from the left, of the community modules, taken step by step: what  *)
(* it has made of each beginning of a sequence.  The proofs about a fold of  *)
(* the model instantiate this module with its step and its base.            *)
(***************************************************************************)
EXTENDS TrlLemmas, SequencesExt

CONSTANTS Step(_, _), Base

Fold(seq) == FoldLeft(Step, Base, seq)

\* The function by which the fold is defined, on sets of places.
Solves(g, seq, k) ==
  g = [T \in SUBSET (1..k) |->
        IF T = {} THEN Base ELSE Step(g[T \ {Max(T)}], seq[Max(T)])]

LEMMA FoldIs ==
  ASSUME NEW seq, DOMAIN seq = 1..Len(seq)
  PROVE  Fold(seq) = (CHOOSE g : Solves(g, seq, Len(seq)))[1..Len(seq)]
BY DEF Fold, FoldLeft, MapThenFoldSet, Solves

\* The last place of a set of places.
LEMMA MaxIs ==
  ASSUME NEW k \in Nat, NEW T \in SUBSET (1..k), T # {}
  PROVE  Max(T) \in T /\ \A j \in T : j <= Max(T)
<1>1. PICK m \in T : \A j \in T : j <= m
  BY LastOf
<1>2. \A j \in T : m >= j
  <2>1. \A j \in T : j \in Int
    OBVIOUS
  <2> QED
    BY <1>1, <2>1
<1>3. Max(T) \in T /\ \A j \in T : Max(T) >= j
  BY <1>2 DEF Max
<1>4. \A j \in T : j \in Int
  OBVIOUS
<1> QED
  BY <1>3, <1>4

LEMMA MaxWith ==
  ASSUME NEW k \in Nat, NEW T \in SUBSET (1..(k + 1)), k + 1 \in T
  PROVE  Max(T) = k + 1
<1>1. k + 1 \in Nat /\ T # {}
  OBVIOUS
<1>2. PICK m : m = Max(T)
  OBVIOUS
<1>3. m \in T /\ k + 1 <= m
  BY <1>1, <1>2, MaxIs
<1>4. m \in Int /\ m <= k + 1
  BY <1>3
<1> QED
  BY <1>2, <1>3, <1>4

\* There is such a function, for every length.
LEMMA SolvesFurther ==
  ASSUME NEW seq, NEW k \in Nat, NEW g, Solves(g, seq, k)
  PROVE  \E h : Solves(h, seq, k + 1)
<1> DEFINE h == [T \in SUBSET (1..(k + 1)) |->
                  IF k + 1 \in T THEN Step(g[T \ {k + 1}], seq[k + 1]) ELSE g[T]]
<1>1. ASSUME NEW T \in SUBSET (1..(k + 1))
      PROVE  h[T] = IF T = {} THEN Base ELSE Step(h[T \ {Max(T)}], seq[Max(T)])
  <2>1. CASE k + 1 \in T
    <3>1. Max(T) = k + 1
      BY <2>1, MaxWith
    <3>2. k + 1 \notin T \ {k + 1} /\ T \ {k + 1} \in SUBSET (1..(k + 1))
      OBVIOUS
    <3>3. h[T \ {k + 1}] = g[T \ {k + 1}]
      BY <3>2
    <3>4. h[T] = Step(g[T \ {k + 1}], seq[k + 1])
      BY <2>1
    <3> QED
      BY <2>1, <3>1, <3>3, <3>4
  <2>2. CASE k + 1 \notin T
    <3>1. T \in SUBSET (1..k)
      <4>1. \A j \in T : j \in 1..(k + 1) /\ j # k + 1
        BY <2>2
      <4> QED
        BY <4>1
    <3>2. h[T] = g[T]
      BY <2>2
    <3>3. g[T] = IF T = {} THEN Base ELSE Step(g[T \ {Max(T)}], seq[Max(T)])
      BY <3>1 DEF Solves
    <3>4. h[T \ {Max(T)}] = g[T \ {Max(T)}]
      BY <2>2
    <3> QED
      BY <3>2, <3>3, <3>4
  <2> QED
    BY <2>1, <2>2
<1>2. h = [T \in SUBSET (1..(k + 1)) |-> h[T]]
  OBVIOUS
<1>3. PICK f : f = h
  OBVIOUS
<1> HIDE DEF h
<1>4. f = [T \in SUBSET (1..(k + 1)) |->
            IF T = {} THEN Base ELSE Step(f[T \ {Max(T)}], seq[Max(T)])]
  BY <1>1, <1>2, <1>3
<1> QED
  BY <1>4 DEF Solves

LEMMA Solvable ==
  ASSUME NEW seq, NEW n \in Nat
  PROVE  \E g : Solves(g, seq, n)
<1> DEFINE Fails(k) == ~\E g : Solves(g, seq, k)
           S == {k \in Nat : Fails(k)}
<1>1. SUFFICES ASSUME S # {} PROVE FALSE
  OBVIOUS
<1>2. PICK k \in S : \A m \in S : k <= m
  BY <1>1, LeastNumber
<1>3. CASE k = 0
  <2>1. PICK g : g = [T \in SUBSET (1..0) |-> Base]
    OBVIOUS
  <2>2. SUBSET (1..0) = {{}}
    OBVIOUS
  <2>3. Solves(g, seq, 0)
    BY <2>1, <2>2 DEF Solves
  <2> QED
    BY <1>3, <2>3
<1>4. CASE k # 0
  <2>1. k - 1 \in Nat /\ k - 1 \notin S
    BY <1>2, <1>4
  <2>2. PICK g : Solves(g, seq, k - 1)
    BY <2>1
  <2>3. \E h : Solves(h, seq, (k - 1) + 1)
    BY <2>1, <2>2, SolvesFurther
  <2> QED
    BY <2>3
<1> QED
  BY <1>3, <1>4

\* What it is on the beginnings of the sequence.
LEMMA SolvesSteps ==
  ASSUME NEW seq, NEW n \in Nat, NEW g, Solves(g, seq, n)
  PROVE  /\ g[{}] = Base
         /\ \A j \in 1..n : g[1..j] = Step(g[1..(j - 1)], seq[j])
<1>1. g[{}] = Base
  BY DEF Solves
<1>2. ASSUME NEW j \in 1..n
      PROVE  g[1..j] = Step(g[1..(j - 1)], seq[j])
  <2>1. PICK T : T = 1..j
    OBVIOUS
  <2>2. T \in SUBSET (1..n) /\ T # {} /\ T \ {j} = 1..(j - 1)
    BY <2>1
  <2>3. Max(T) = j
    <3>1. j - 1 \in Nat /\ (j - 1) + 1 = j /\ T \in SUBSET (1..j) /\ j \in T
      BY <2>1
    <3> QED
      BY <3>1, MaxWith
  <2>4. g[T] = Step(g[T \ {Max(T)}], seq[Max(T)])
    BY <2>2 DEF Solves
  <2> QED
    BY <2>1, <2>2, <2>3, <2>4
<1> QED
  BY <1>1, <1>2

\* What the fold has made of the first j members is acc[j].
THEOREM FoldSteps ==
  ASSUME NEW seq, NEW n \in Nat, n = Len(seq), DOMAIN seq = 1..n
  PROVE  \E acc : /\ acc = [j \in 0..n |-> acc[j]]
                  /\ acc[0] = Base /\ acc[n] = Fold(seq)
                  /\ \A j \in 1..n : acc[j] = Step(acc[j - 1], seq[j])
<1>1. PICK g : g = (CHOOSE h : Solves(h, seq, n))
  OBVIOUS
<1>2. Solves(g, seq, n)
  BY <1>1, Solvable
<1>3. Fold(seq) = g[1..n]
  BY <1>1, FoldIs
<1>4. PICK acc : acc = [j \in 0..n |-> g[1..j]]
  OBVIOUS
<1>5. acc[0] = Base /\ acc[n] = Fold(seq)
  <2>1. 1..0 = {}
    OBVIOUS
  <2> QED
    BY <1>2, <1>3, <1>4, <2>1, SolvesSteps
<1>6. \A j \in 1..n : acc[j] = Step(acc[j - 1], seq[j])
  <2> TAKE j \in 1..n
  <2>1. acc[j] = g[1..j] /\ acc[j - 1] = g[1..(j - 1)]
    BY <1>4
  <2> QED
    BY <1>2, <2>1, SolvesSteps
<1>7. acc = [j \in 0..n |-> acc[j]]
  BY <1>4
<1> QED
  BY <1>5, <1>6, <1>7
=============================================================================
