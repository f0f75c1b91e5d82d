----------------------------- MODULE TrlLemmas -----------------------------
(***************************************************************************)
(* Facts about numbers, finite sets and sequences that the proofs about      *)
(* several components rest on.  A set of naturals has a least member; this   *)
(* is the induction principle used: the least number that a claim fails for  *)
(* has a predecessor that it holds for.                                      *)
(***************************************************************************)
EXTENDS Integers, Sequences, TLAPS, FiniteSetTheorems, WellFoundedInduction, NaturalsInduction

\* Pairs of naturals, the first below the second.
LessOnNat == {ss \in Nat \X Nat : ss[1] < ss[2]}

\* A set of naturals that is not empty has a least member.
LEMMA LeastNumber ==
  ASSUME NEW T \in SUBSET Nat, T # {}
  PROVE  \E n \in T : \A m \in T : n <= m
<1>1. IsWellFoundedOn(LessOnNat, Nat)
  BY NatLessThanWellFounded DEF OpToRel, LessOnNat
<1>2. PICK x \in T : \A y \in T : ~(<<y, x>> \in LessOnNat)
  BY <1>1, WFMin
<1>3. \A y \in Nat : y < x => <<y, x>> \in LessOnNat
  BY DEF LessOnNat
<1>4. ASSUME NEW y \in T PROVE x <= y
  <2>1. x \in Nat /\ y \in Nat
    OBVIOUS
  <2>2. ~(y < x)
    BY <2>1, <1>2, <1>3
  <2> QED
    BY <2>1, <2>2
<1> QED
  BY <1>2, <1>4

\* A set of numbers with a bound has a last one.
LEMMA LastOf ==
  ASSUME NEW n \in Nat, NEW T, T \subseteq 1..n, T # {}
  PROVE  \E m \in T : \A j \in T : j <= m
<1> DEFINE L == {n - j : j \in T}
<1>1. L \in SUBSET Nat /\ L # {}
  <2>1. \A j \in T : j \in 1..n
    OBVIOUS
  <2>2. \A j \in 1..n : n - j \in Nat
    OBVIOUS
  <2> QED
    BY <2>1, <2>2
<1>2. PICK l \in L : \A i \in L : l <= i
  BY <1>1, LeastNumber
<1>3. PICK m \in T : l = n - m
  OBVIOUS
<1>4. \A j \in T : n - m <= n - j
  BY <1>2, <1>3
<1>5. \A j \in T : j \in Int
  OBVIOUS
<1>6. \A j \in T : j <= m
  BY <1>4, <1>5
<1> QED
  BY <1>6

\* order lists the members of S from the least to the greatest.
IsAscending(order, S) ==
  /\ order \in [1..Cardinality(S) -> S]
  /\ \A x \in S : \E i \in 1..Cardinality(S) : order[i] = x
  /\ \A i, j \in 1..Cardinality(S) : i < j => order[i] < order[j]

\* Every finite set of naturals can be listed in ascending order.
LEMMA AscendingExists ==
  ASSUME NEW S \in SUBSET Nat, IsFiniteSet(S)
  PROVE  \E order : IsAscending(order, S)
<1> DEFINE Fails(n) == \E R \in SUBSET Nat :
             IsFiniteSet(R) /\ Cardinality(R) = n /\ ~\E order : IsAscending(order, R)
           T == {n \in Nat : Fails(n)}
<1>1. SUFFICES ASSUME T # {} PROVE FALSE
  <2>1. Cardinality(S) \in Nat
    BY FS_CardinalityType
  <2> QED
    BY <2>1
<1>2. PICK n \in T : \A m \in T : n <= m
  <2> HIDE DEF Fails
  <2> QED
    BY <1>1, LeastNumber
<1>3. PICK R \in SUBSET Nat :
        IsFiniteSet(R) /\ Cardinality(R) = n /\ ~\E order : IsAscending(order, R)
  OBVIOUS
<1>4. CASE R = {}
  <2>1. n = 0
    BY <1>3, <1>4, FS_EmptySet
  <2>2. IsAscending([i \in 1..0 |-> 0], R)
    BY <1>3, <1>4, <2>1 DEF IsAscending
  <2> QED
    BY <1>3, <2>2
<1>5. CASE R # {}
  <2>1. PICK least \in R : \A m \in R : least <= m
    BY <1>5, LeastNumber
  <2> DEFINE Q == R \ {least}
  <2>2. IsFiniteSet(Q) /\ Cardinality(Q) = n - 1 /\ Q \in SUBSET Nat
    BY <1>3, FS_RemoveElement
  <2>3. n - 1 \in Nat
    BY <2>2, FS_CardinalityType
  <2>4. n - 1 \notin T
    <3>1. n \in Nat /\ ~(n <= n - 1)
      OBVIOUS
    <3> HIDE DEF T
    <3> QED
      BY <3>1, <1>2
  <2>5. PICK rest : IsAscending(rest, Q)
    BY <2>2, <2>3, <2>4
  <2> DEFINE order == [i \in 1..n |-> IF i = 1 THEN least ELSE rest[i - 1]]
  <2>6. n \in Nat /\ n # 0
    BY <2>3
  <2>7. rest \in [1..(n - 1) -> Q] /\ (\A x \in Q : \E i \in 1..(n - 1) : rest[i] = x)
        /\ (\A i, j \in 1..(n - 1) : i < j => rest[i] < rest[j])
    BY <2>2, <2>5 DEF IsAscending
  <2>8. \A i \in 1..n : i # 1 => i - 1 \in 1..(n - 1)
    BY <2>6
  <2>9. order \in [1..n -> R]
    BY <2>7, <2>8
  <2>10. ASSUME NEW x \in R PROVE \E i \in 1..n : order[i] = x
    <3>1. CASE x = least
      BY <3>1, <2>6
    <3>2. CASE x # least
      <4>1. PICK i \in 1..(n - 1) : rest[i] = x
        BY <3>2, <2>7
      <4>2. i + 1 \in 1..n /\ i + 1 # 1 /\ (i + 1) - 1 = i
        BY <2>6
      <4> QED
        BY <4>1, <4>2
    <3> QED
      BY <3>1, <3>2
  <2>11. ASSUME NEW i \in 1..n, NEW j \in 1..n, i < j PROVE order[i] < order[j]
    <3>1. j # 1 /\ j - 1 \in 1..(n - 1)
      BY <2>6, <2>11
    <3>2. CASE i = 1
      <4>1. rest[j - 1] \in R /\ rest[j - 1] # least
        BY <2>7, <3>1
      <4>2. least <= rest[j - 1] /\ least \in Nat /\ rest[j - 1] \in Nat
        BY <4>1, <2>1
      <4>3. order[i] = least /\ order[j] = rest[j - 1]
        BY <3>1, <3>2
      <4> QED
        BY <4>1, <4>2, <4>3
    <3>3. CASE i # 1
      <4>1. i - 1 \in 1..(n - 1) /\ i - 1 < j - 1
        BY <2>6, <2>11, <3>3
      <4> QED
        BY <4>1, <3>1, <3>3, <2>7
    <3> QED
      BY <3>2, <3>3
  <2>12. IsAscending(order, R)
    BY <2>9, <2>10, <2>11, <1>3 DEF IsAscending
  <2> QED
    BY <2>12, <1>3
<1> QED
  BY <1>4, <1>5

\* q is a sequence.
IsSequence(q) == Len(q) \in Nat /\ q = [i \in 1..Len(q) |-> q[i]]

\* A sequence is one of its own elements.
LEMMA SeqOfElements ==
  ASSUME NEW R, NEW q \in Seq(R)
  PROVE  q \in Seq({q[k] : k \in DOMAIN q})
<1>1. Len(q) \in Nat /\ DOMAIN q = 1..Len(q) /\ q = [k \in 1..Len(q) |-> q[k]]
  OBVIOUS
<1>2. [k \in 1..Len(q) |-> q[k]] \in Seq({q[k] : k \in DOMAIN q})
  BY <1>1
<1> QED
  BY <1>1, <1>2

\* One sequence after another.
LEMMA SequencesJoined ==
  ASSUME NEW p, IsSequence(p), NEW q, IsSequence(q)
  PROVE  LET s == p \o q
         IN  /\ IsSequence(s) /\ Len(s) = Len(p) + Len(q)
             /\ \A i \in 1..Len(p) : s[i] = p[i]
             /\ \A i \in 1..Len(q) : s[Len(p) + i] = q[i]
<1> DEFINE s == p \o q
<1> DEFINE R == {p[i] : i \in 1..Len(p)} \cup {q[i] : i \in 1..Len(q)}
<1>1. (\A i \in 1..Len(p) : p[i] \in R) /\ (\A i \in 1..Len(q) : q[i] \in R)
  OBVIOUS
<1> HIDE DEF R
<1>2. [i \in 1..Len(p) |-> p[i]] \in Seq(R) /\ [i \in 1..Len(q) |-> q[i]] \in Seq(R)
  BY <1>1 DEF IsSequence
<1>3. p \in Seq(R) /\ q \in Seq(R)
  BY <1>2 DEF IsSequence
<1>4. s \in Seq(R) /\ Len(s) = Len(p) + Len(q)
  BY <1>3
<1> HIDE DEF s
<1>5. IsSequence(s)
  <2>1. \A t \in Seq(R) : IsSequence(t)
    BY DEF IsSequence
  <2> QED
    BY <1>4, <2>1
<1> QED
  BY <1>3, <1>4, <1>5 DEF s

\* From cursor c on, cells are those of s.
CellsAhead(cells, c, s) ==
  /\ c \in Nat /\ Len(cells) \in Nat /\ c + Len(s) <= Len(cells)
  /\ \A i \in 1..Len(s) : cells[c + i] = s[i]

\* The places of what is left of a sequence.
LEMMA RestIs ==
  ASSUME NEW s, IsSequence(s), NEW j \in 0..Len(s)
  PROVE  LET r == SubSeq(s, j + 1, Len(s))
         IN  IsSequence(r) /\ Len(r) = Len(s) - j /\ \A i \in 1..Len(s) - j : r[i] = s[j + i]
<1>0. Len(s) \in Nat /\ s = [i \in 1..Len(s) |-> s[i]]
  BY DEF IsSequence
<1> DEFINE R == {s[i] : i \in 1..Len(s)}
<1>1. \A i \in 1..Len(s) : s[i] \in R
  OBVIOUS
<1> HIDE DEF R
<1>2. [i \in 1..Len(s) |-> s[i]] \in Seq(R)
  BY <1>0, <1>1
<1>3. s \in Seq(R)
  BY <1>0, <1>2
<1>4. PICK r : r = SubSeq(s, j + 1, Len(s))
  OBVIOUS
<1>5. Len(r) = Len(s) - j
  BY <1>0, <1>3, <1>4
<1>6. \A i \in 1..Len(s) - j : r[i] = s[j + i]
  BY <1>0, <1>3, <1>4, <1>5
<1>7. IsSequence(r)
  <2>1. r \in Seq(R)
    BY <1>0, <1>3, <1>4
  <2>2. \A t \in Seq(R) : IsSequence(t)
    BY DEF IsSequence
  <2> QED
    BY <2>1, <2>2
<1> QED
  BY <1>4, <1>5, <1>6, <1>7

\* The places of a sequence set between two before and one after it.
LEMMA SetBetween ==
  ASSUME NEW R, NEW q \in Seq(R), NEW x, NEW y, NEW z, NEW s, s = <<x, y>> \o q \o <<z>>
  PROVE  /\ Len(s) = Len(q) + 3 /\ s \in Seq(R \cup {x, y, z})
         /\ s[1] = x /\ s[2] = y /\ s[Len(q) + 3] = z
         /\ \A i \in 1..Len(q) : s[2 + i] = q[i]
<1> DEFINE T == R \cup {x, y, z}
           r == <<x, y>> \o q
<1>1. <<x, y>> \in Seq(T) /\ q \in Seq(T) /\ <<z>> \in Seq(T) /\ Len(q) \in Nat
  OBVIOUS
<1> HIDE DEF T
<1>2. /\ r \in Seq(T) /\ Len(r) = Len(q) + 2 /\ r[1] = x /\ r[2] = y
      /\ \A i \in 1..Len(q) : r[2 + i] = q[i]
  BY <1>1
<1> HIDE DEF r
<1>3. /\ r \o <<z>> \in Seq(T) /\ Len(r \o <<z>>) = Len(q) + 3
      /\ \A i \in 1..Len(q) + 2 : (r \o <<z>>)[i] = r[i]
      /\ (r \o <<z>>)[Len(q) + 3] = z
  BY <1>1, <1>2
<1>4. s = r \o <<z>>
  BY DEF r
<1>5. \A i \in 1..Len(q) : 2 + i \in 1..Len(q) + 2
  BY <1>1
<1>6. 1 \in 1..Len(q) + 2 /\ 2 \in 1..Len(q) + 2
  BY <1>1
<1> QED
  BY <1>2, <1>3, <1>4, <1>5, <1>6 DEF T

\* A list of n numbers below n that ascends is the list of all of them.
LEMMA AscendingFills ==
  ASSUME NEW n \in Nat, NEW g \in [1..n -> 0..n - 1],
         \A i, j \in 1..n : i < j => g[i] < g[j]
  PROVE  \A i \in 1..n : g[i] = i - 1
<1>0. \A i \in 1..n : g[i] \in Int /\ 0 <= g[i] /\ g[i] <= n - 1
  OBVIOUS
<1>1. \A i \in 1..n : g[i] >= i - 1
  <2> DEFINE T == {i \in 1..n : g[i] < i - 1}
  <2>1. ASSUME T # {} PROVE FALSE
    <3>1. PICK i \in T : \A m \in T : i <= m
      <4>1. T \in SUBSET Nat
        OBVIOUS
      <4> HIDE DEF T
      <4> QED
        BY <2>1, <4>1, LeastNumber
    <3>2. i \in 1..n /\ g[i] < i - 1
      OBVIOUS
    <3>3. i # 1 /\ i - 1 \in 1..n /\ ~(i <= i - 1)
      BY <1>0, <3>2
    <3>4. i - 1 \notin T
      <4> HIDE DEF T
      <4> QED
        BY <3>1, <3>3
    <3>5. g[i - 1] < g[i]
      BY <3>2, <3>3
    <3>6. ~(g[i - 1] < (i - 1) - 1)
      BY <3>3, <3>4
    <3> HIDE DEF T
    <3> QED
      BY <1>0, <3>2, <3>3, <3>5, <3>6
  <2>2. \A i \in 1..n : ~(g[i] < i - 1)
    BY <2>1
  <2> HIDE DEF T
  <2> QED
    BY <2>2, <1>0
<1>2. \A i \in 1..n : g[i] <= i - 1
  <2> DEFINE T == {m \in 0..n - 1 : g[n - m] > n - m - 1}
  <2>1. ASSUME T # {} PROVE FALSE
    <3>1. PICK m \in T : \A k \in T : m <= k
      <4>1. T \in SUBSET Nat
        OBVIOUS
      <4> HIDE DEF T
      <4> QED
        BY <2>1, <4>1, LeastNumber
    <3>2. m \in 0..n - 1 /\ n - m \in 1..n /\ g[n - m] > n - m - 1
      OBVIOUS
    <3>3. m # 0 /\ m - 1 \in 0..n - 1 /\ ~(m <= m - 1)
      BY <1>0, <3>2
    <3>4. m - 1 \notin T
      <4> HIDE DEF T
      <4> QED
        BY <3>1, <3>3
    <3>5. ~(g[n - (m - 1)] > n - (m - 1) - 1)
      BY <3>3, <3>4
    <3>6. n - (m - 1) \in 1..n /\ n - m < n - (m - 1)
      BY <3>2, <3>3
    <3>7. g[n - m] < g[n - (m - 1)]
      BY <3>2, <3>6
    <3> HIDE DEF T
    <3> QED
      BY <1>0, <3>2, <3>5, <3>6, <3>7
  <2>2. ASSUME NEW i \in 1..n PROVE g[i] <= i - 1
    <3>1. n - i \in 0..n - 1 /\ n - (n - i) = i
      OBVIOUS
    <3>2. ~(g[n - (n - i)] > n - (n - i) - 1)
      BY <2>1, <3>1
    <3> HIDE DEF T
    <3> QED
      BY <1>0, <3>1, <3>2
  <2> HIDE DEF T
  <2> QED
    BY <2>2
<1> QED
  BY <1>0, <1>1, <1>2

\* A list of naturals that ascends lists its members in ascending order.
LEMMA ListAscends ==
  ASSUME NEW n \in Nat, NEW s \in [1..n -> Nat], \A i, j \in 1..n : i < j => s[i] < s[j],
         NEW S, \A i \in 1..n : s[i] \in S, \A x \in S : \E i \in 1..n : s[i] = x
  PROVE  IsFiniteSet(S) /\ Cardinality(S) = n /\ IsAscending(s, S)
<1>1. s \in [1..n -> S]
  OBVIOUS
<1>2. \A i, j \in 1..n : s[i] = s[j] => i = j
  <2>1. TAKE i, j \in 1..n
  <2>2. HAVE s[i] = s[j]
  <2>3. ~(i < j) /\ ~(j < i)
    BY <2>2
  <2> QED
    BY <2>3
<1>3. IsFiniteSet(1..n) /\ Cardinality(1..n) = n
  BY FS_Interval
<1>4. s \in Bijection(1..n, S)
  BY <1>1, <1>2 DEF Bijection, Injection, Surjection, IsInjective
<1>5. ExistsBijection(1..n, S)
  BY <1>4 DEF ExistsBijection
<1>6. IsFiniteSet(S) /\ Cardinality(S) = n
  BY <1>3, <1>5, FS_Bijection
<1> QED
  BY <1>1, <1>6 DEF IsAscending

\* There is one such list.
LEMMA AscendingUnique ==
  ASSUME NEW S \in SUBSET Nat, Cardinality(S) \in Nat,
         NEW o, IsAscending(o, S), NEW p, IsAscending(p, S)
  PROVE  o = p
<1>1. PICK n \in Nat : n = Cardinality(S)
  OBVIOUS
<1>2. /\ o \in [1..n -> S] /\ \A x \in S : \E i \in 1..n : o[i] = x
      /\ \A i, j \in 1..n : i < j => o[i] < o[j]
      /\ p \in [1..n -> S] /\ \A i, j \in 1..n : i < j => p[i] < p[j]
  BY <1>1 DEF IsAscending
<1> DEFINE place == [i \in 1..n |-> CHOOSE k \in 1..n : o[k] = p[i]]
           g == [i \in 1..n |-> place[i] - 1]
<1>3. \A i \in 1..n : place[i] \in 1..n /\ o[place[i]] = p[i]
  <2>1. TAKE i \in 1..n
  <2>2. p[i] \in S
    BY <1>2
  <2>3. \E k \in 1..n : o[k] = p[i]
    BY <1>2, <2>2
  <2> QED
    BY <2>3
<1> HIDE DEF place
<1>4. g \in [1..n -> 0..n - 1]
  BY <1>3
<1>5. \A i, j \in 1..n : i < j => g[i] < g[j]
  <2>1. TAKE i, j \in 1..n
  <2>2. HAVE i < j
  <2>3. o[place[i]] < o[place[j]] /\ o[place[i]] \in Nat /\ o[place[j]] \in Nat
    BY <1>2, <1>3, <2>2
  <2>4. ~(place[j] < place[i]) /\ place[i] # place[j]
    <3>1. place[j] < place[i] => o[place[j]] < o[place[i]]
      BY <1>2, <1>3
    <3> QED
      BY <2>3, <3>1
  <2> QED
    BY <1>3, <2>4
<1>6. \A i \in 1..n : g[i] = i - 1
  <2> HIDE DEF g
  <2> QED
    BY <1>4, <1>5, AscendingFills
<1>7. \A i \in 1..n : place[i] = i
  BY <1>3, <1>6
<1>8. \A i \in 1..n : o[i] = p[i]
  BY <1>3, <1>7
<1> QED
  BY <1>2, <1>8
=============================================================================
