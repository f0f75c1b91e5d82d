---------------------------- MODULE TrlVpiProofs ----------------------------
(***************************************************************************)
(* Proofs about the VPI plug-in, for all sets of signals and scopes, flush   *)
(* intervals and numbers of synchronisation points and tasks.                *)
(*                                                                          *)
(* The argument: every step does at most two things to the blocks, taken     *)
(* together with the block at work.  It rearranges them, as a flush does     *)
(* that divides what is pending by scope: each place of the new blocks comes *)
(* from a place of the old ones and the places of one signal stay in order.  *)
(* And it extends the last block, by values of the present time, each of     *)
(* another signal.  What the properties say survives both.                   *)
(***************************************************************************)
EXTENDS TrlVpi, TrlLemmas

-----------------------------------------------------------------------------
(* Blocks, their rearrangement and their extension *)

\* Two records were written at unlike synchronisation points.
Apart(a, b) == a # b /\ a # 0 /\ b # 0

\* The blocks bs are well-formed, in order, without repetition in a block but at unlike
\* synchronisation points, and hold nothing younger than t or the synchronisation point W.
Sound(bs, t, W) ==
  /\ \A p \in Places(bs) : p \in Nat \X Nat /\ Change(bs, p) \in Changes
  /\ \A p \in Places(bs) :
       /\ bs[p[1]].start <= Change(bs, p).time /\ Change(bs, p).time <= t
       /\ Change(bs, p).by <= W
  /\ \A p, q \in Places(bs) :
       Before(p, q) /\ Change(bs, p).sig = Change(bs, q).sig =>
         Change(bs, p).time <= Change(bs, q).time
  /\ \A p, q \in Places(bs) :
       /\ p[1] = q[1]
       /\ Change(bs, p).sig = Change(bs, q).sig
       /\ Change(bs, p).time = Change(bs, q).time
       => p = q \/ Apart(Change(bs, p).by, Change(bs, q).by)

\* Each place of cs comes from a place of bs; blocks are divided, never joined, and the places
\* of a signal stay in order.
Rearranges(g, cs, bs) ==
  /\ g \in [Places(cs) -> Places(bs)]
  /\ \A p \in Places(cs) :
       /\ p \in Nat \X Nat
       /\ Change(cs, p) = Change(bs, g[p])
       /\ cs[p[1]].start = bs[g[p][1]].start
  /\ \A p, q \in Places(cs) :
       /\ p[1] = q[1] => g[p][1] = g[q][1]
       /\ Before(p, q) /\ Change(cs, p).sig = Change(cs, q).sig => Before(g[p], g[q])

\* No place is lost, or none after one of the same signal that is kept.
Covers(g, cs, bs) == \A q \in Places(bs) : \E p \in Places(cs) : g[p] = q
KeepsLater(g, cs, bs) ==
  \A p \in Places(cs), q \in Places(bs) :
    Change(bs, q).sig = Change(cs, p).sig /\ Before(g[p], q) => \E r \in Places(cs) : g[r] = q

\* cs is bs with the changes of fresh behind place m of its last block, n.
Extends(cs, bs, n, m, fresh) ==
  /\ n \in Nat /\ m \in Nat
  /\ Places(cs) = Places(bs) \cup {<<n, m + i>> : i \in 1..Len(fresh)}
  /\ \A p \in Places(bs) :
       /\ p[1] < n \/ (p[1] = n /\ p[2] <= m)
       /\ Change(cs, p) = Change(bs, p)
       /\ cs[p[1]].start = bs[p[1]].start
  /\ \A i \in 1..Len(fresh) : Change(cs, <<n, m + i>>) = fresh[i]

\* Two places differ in one direction.
LEMMA BeforeOrder ==
  ASSUME NEW p \in Nat \X Nat, NEW q \in Nat \X Nat
  PROVE  /\ p = q \/ Before(p, q) \/ Before(q, p)
         /\ ~(Before(p, q) /\ Before(q, p))
         /\ ~Before(p, p)
<1>1. PICK a \in Nat, b \in Nat : p = <<a, b>>
  OBVIOUS
<1>2. PICK c \in Nat, d \in Nat : q = <<c, d>>
  OBVIOUS
<1> QED
  BY <1>1, <1>2 DEF Before

\* A rearrangement of sound blocks is sound.
LEMMA RearrangedSound ==
  ASSUME NEW bs, NEW cs, NEW g, NEW t, NEW W, Sound(bs, t, W), Rearranges(g, cs, bs)
  PROVE  Sound(cs, t, W)
<1>1. ASSUME NEW p \in Places(cs)
      PROVE  /\ p \in Nat \X Nat /\ g[p] \in Places(bs) /\ Change(cs, p) = Change(bs, g[p])
             /\ Change(cs, p) \in Changes
             /\ cs[p[1]].start <= Change(cs, p).time /\ Change(cs, p).time <= t
             /\ Change(cs, p).by <= W
  BY DEF Sound, Rearranges
<1>2. ASSUME NEW p \in Places(cs), NEW q \in Places(cs), Before(p, q),
             Change(cs, p).sig = Change(cs, q).sig
      PROVE  Before(g[p], g[q]) /\ Change(cs, p).time <= Change(cs, q).time
  <2>1. Before(g[p], g[q])
    BY <1>2 DEF Rearranges
  <2> QED
    BY <2>1, <1>1, <1>2 DEF Sound
<1>3. ASSUME NEW p \in Places(cs), NEW q \in Places(cs), p[1] = q[1],
             Change(cs, p).sig = Change(cs, q).sig, Change(cs, p).time = Change(cs, q).time,
             ~Apart(Change(cs, p).by, Change(cs, q).by)
      PROVE  p = q
  <2>1. g[p][1] = g[q][1]
    BY <1>3 DEF Rearranges
  <2>2. g[p] = g[q]
    BY <2>1, <1>1, <1>3 DEF Sound
  <2>3. ~Before(g[p], g[q]) /\ ~Before(g[q], g[p])
    <3>1. g[p] \in Nat \X Nat
      BY <1>1 DEF Sound
    <3> QED
      BY <3>1, <2>2, BeforeOrder
  <2>4. ~Before(p, q) /\ ~Before(q, p)
    BY <2>3, <1>2, <1>3
  <2> QED
    BY <2>4, <1>1, BeforeOrder
<1> QED
  BY <1>1, <1>2, <1>3 DEF Sound

\* What is recorded last of a signal is so after a rearrangement that loses nothing behind it.
LEMMA RearrangedLast ==
  ASSUME NEW bs, NEW cs, NEW g, NEW t, NEW W, NEW s, NEW v, Sound(bs, t, W), Rearranges(g, cs, bs),
         KeepsLater(g, cs, bs), LastPlace(bs, s, v), NEW p \in Places(cs), Change(cs, p).sig = s
  PROVE  LastPlace(cs, s, v)
<1>1. PICK last \in Places(bs) :
        /\ Change(bs, last).sig = s /\ Change(bs, last).value = v
        /\ \A q \in Places(bs) : Change(bs, q).sig = s => q = last \/ Before(q, last)
  BY DEF LastPlace
<1>2. \A q \in Places(cs) : g[q] \in Places(bs) /\ Change(cs, q) = Change(bs, g[q])
  BY DEF Rearranges
<1>3. PICK r \in Places(cs) : g[r] = last
  <2>1. g[p] = last \/ Before(g[p], last)
    BY <1>1, <1>2
  <2> QED
    BY <2>1, <1>1 DEF KeepsLater
<1>4. ASSUME NEW q \in Places(cs), Change(cs, q).sig = s PROVE q = r \/ Before(q, r)
  <2>1. g[q] = last \/ Before(g[q], last)
    BY <1>1, <1>2, <1>4
  <2>2. g[q] \in Nat \X Nat /\ last \in Nat \X Nat /\ q \in Nat \X Nat /\ r \in Nat \X Nat
    BY <1>2 DEF Sound, Rearranges
  <2>3. ~Before(last, g[q])
    BY <2>1, <2>2, BeforeOrder
  <2>4. Change(cs, r).sig = s
    BY <1>1, <1>2, <1>3
  <2>5. ~Before(r, q)
    BY <2>3, <2>4, <1>3, <1>4 DEF Rearranges
  <2> QED
    BY <2>2, <2>5, BeforeOrder
<1> QED
  BY <1>1, <1>2, <1>3, <1>4 DEF LastPlace

\* Values of the present time, each of another signal, extend sound blocks.
LEMMA ExtendedSound ==
  ASSUME NEW bs, NEW cs, NEW n, NEW m, NEW fresh \in Seq(Changes), NEW t \in Nat,
         NEW W \in Nat, NEW X \in Nat, NEW b,
         Sound(bs, t, W), Extends(cs, bs, n, m, fresh), W <= X, b <= X,
         Len(fresh) > 0 => cs[n].start <= t,
         \A i \in 1..Len(fresh) : fresh[i].time = t /\ fresh[i].by = b,
         \A i, j \in 1..Len(fresh) : fresh[i].sig = fresh[j].sig => i = j,
         \A p \in Places(bs) : p[1] = n => Apart(Change(bs, p).by, b)
  PROVE  Sound(cs, t, X)
<1> DEFINE New == {<<n, m + i>> : i \in 1..Len(fresh)}
<1>1. Places(cs) = Places(bs) \cup New
  BY DEF Extends
<1>2. ASSUME NEW p \in Places(bs)
      PROVE  /\ p \in Nat \X Nat /\ (p[1] < n \/ (p[1] = n /\ p[2] <= m))
             /\ Change(cs, p) = Change(bs, p) /\ cs[p[1]].start = bs[p[1]].start
             /\ Change(cs, p) \in Changes
             /\ cs[p[1]].start <= Change(cs, p).time /\ Change(cs, p).time <= t
             /\ Change(cs, p).by <= X
  <2>1. Change(bs, p).by <= W /\ Change(bs, p).by \in Nat
    BY DEF Sound, Changes
  <2> QED
    BY <2>1 DEF Sound, Extends
<1>3. ASSUME NEW p \in New
      PROVE  \E i \in 1..Len(fresh) : /\ p = <<n, m + i>> /\ p[1] = n /\ p[2] = m + i
                                      /\ p \in Nat \X Nat
                                      /\ Change(cs, p) = fresh[i] /\ fresh[i] \in Changes
                                      /\ fresh[i].time = t /\ cs[n].start <= t
                                      /\ fresh[i].by = b
  <2>1. PICK i \in 1..Len(fresh) : p = <<n, m + i>>
    OBVIOUS
  <2>2. n \in Nat /\ m \in Nat /\ i \in Nat /\ Len(fresh) > 0 /\ fresh[i] \in Changes
    BY DEF Extends
  <2> QED
    BY <2>1, <2>2 DEF Extends
<1>4. \A p \in Places(bs), q \in New : ~Before(q, p) /\ p # q
  <2> SUFFICES ASSUME NEW p \in Places(bs), NEW q \in New PROVE ~Before(q, p) /\ p # q
    OBVIOUS
  <2>1. PICK i \in 1..Len(fresh) : q[1] = n /\ q[2] = m + i
    BY <1>3
  <2>2. n \in Nat /\ m \in Nat /\ i \in Nat /\ i > 0 /\ p[1] \in Nat /\ p[2] \in Nat
    BY <1>2 DEF Extends
  <2> QED
    BY <2>1, <2>2, <1>2 DEF Before
<1>5. ASSUME NEW p \in New, NEW q \in New, Change(cs, p).sig = Change(cs, q).sig PROVE p = q
  <2>1. PICK i \in 1..Len(fresh) : p = <<n, m + i>> /\ Change(cs, p) = fresh[i]
    BY <1>3
  <2>2. PICK j \in 1..Len(fresh) : q = <<n, m + j>> /\ Change(cs, q) = fresh[j]
    BY <1>3
  <2> QED
    BY <2>1, <2>2, <1>5
<1>6. \A p \in Places(cs) : /\ p \in Nat \X Nat /\ Change(cs, p) \in Changes
                            /\ cs[p[1]].start <= Change(cs, p).time
                            /\ Change(cs, p).time <= t /\ Change(cs, p).by <= X
  <2>1. ASSUME NEW p \in New
        PROVE  /\ p \in Nat \X Nat /\ Change(cs, p) \in Changes
               /\ cs[p[1]].start <= Change(cs, p).time /\ Change(cs, p).time <= t
               /\ Change(cs, p).by <= X
    BY <1>3
  <2> QED
    BY <2>1, <1>1, <1>2
<1>7. ASSUME NEW p \in Places(cs), NEW q \in Places(cs), Before(p, q),
             Change(cs, p).sig = Change(cs, q).sig
      PROVE  Change(cs, p).time <= Change(cs, q).time
  <2>1. CASE q \in New
    <3>1. Change(cs, q).time = t
      BY <2>1, <1>3
    <3> QED
      BY <3>1, <1>6
  <2>2. CASE q \in Places(bs)
    <3>1. p \in Places(bs)
      BY <2>2, <1>1, <1>4, <1>7
    <3>2. Change(cs, p) = Change(bs, p) /\ Change(cs, q) = Change(bs, q)
      BY <3>1, <2>2, <1>2
    <3> QED
      BY <3>1, <3>2, <2>2, <1>7 DEF Sound
  <2> QED
    BY <2>1, <2>2, <1>1
<1>8. ASSUME NEW p \in Places(cs), NEW q \in Places(cs), p[1] = q[1],
             Change(cs, p).sig = Change(cs, q).sig, Change(cs, p).time = Change(cs, q).time
      PROVE  p = q \/ Apart(Change(cs, p).by, Change(cs, q).by)
  <2>1. CASE p \in Places(bs) /\ q \in Places(bs)
    <3>1. Change(cs, p) = Change(bs, p) /\ Change(cs, q) = Change(bs, q)
      BY <2>1, <1>2
    <3> QED
      BY <3>1, <2>1, <1>8 DEF Sound
  <2>2. CASE p \in New /\ q \in New
    BY <2>2, <1>5, <1>8
  <2>3. CASE p \in Places(bs) /\ q \in New
    <3>1. q[1] = n /\ Change(cs, q).by = b
      BY <2>3, <1>3
    <3> QED
      BY <3>1, <2>3, <1>2, <1>8
  <2>4. CASE p \in New /\ q \in Places(bs)
    <3>1. p[1] = n /\ Change(cs, p).by = b
      BY <2>4, <1>3
    <3> QED
      BY <3>1, <2>4, <1>2, <1>8 DEF Apart
  <2> QED
    BY <2>1, <2>2, <2>3, <2>4, <1>1
<1> QED
  BY <1>6, <1>7, <1>8 DEF Sound

\* What is on blocks, as a set.
Held(bs) == {Change(bs, p) : p \in Places(bs)}

\* The last value of a signal, after an extension.
LEMMA ExtendedLast ==
  ASSUME NEW bs, NEW cs, NEW n, NEW m, NEW fresh \in Seq(Changes), NEW t, NEW W, NEW s, NEW v,
         Sound(bs, t, W), Extends(cs, bs, n, m, fresh),
         \A i, j \in 1..Len(fresh) : fresh[i].sig = fresh[j].sig => i = j,
         \A i \in 1..Len(fresh) : fresh[i].sig = s => fresh[i].value = v,
         \/ \E i \in 1..Len(fresh) : fresh[i].sig = s
         \/ LastPlace(bs, s, v)
  PROVE  LastPlace(cs, s, v)
<1> DEFINE New == {<<n, m + i>> : i \in 1..Len(fresh)}
<1>1. Places(cs) = Places(bs) \cup New
  BY DEF Extends
<1>2. n \in Nat /\ m \in Nat
  BY DEF Extends
<1>3. CASE \E i \in 1..Len(fresh) : fresh[i].sig = s
  <2>1. PICK i \in 1..Len(fresh) : fresh[i].sig = s
    BY <1>3
  <2> DEFINE last == <<n, m + i>>
  <2>2. last \in Places(cs) /\ Change(cs, last) = fresh[i]
    BY <1>1 DEF Extends
  <2>3. ASSUME NEW q \in Places(bs) PROVE Before(q, last)
    BY <1>2 DEF Extends, Before, Sound
  <2>4. ASSUME NEW q \in New, Change(cs, q).sig = s PROVE q = last
    <3>1. PICK j \in 1..Len(fresh) : q = <<n, m + j>>
      OBVIOUS
    <3>2. Change(cs, q) = fresh[j]
      BY <3>1 DEF Extends
    <3> QED
      BY <3>1, <3>2, <2>1, <2>4
  <2> HIDE DEF last
  <2> QED
    BY <2>1, <2>2, <2>3, <2>4, <1>1 DEF LastPlace
<1>4. CASE LastPlace(bs, s, v) /\ ~\E i \in 1..Len(fresh) : fresh[i].sig = s
  <2>1. PICK last \in Places(bs) :
          /\ Change(bs, last).sig = s /\ Change(bs, last).value = v
          /\ \A q \in Places(bs) : Change(bs, q).sig = s => q = last \/ Before(q, last)
    BY <1>4 DEF LastPlace
  <2>2. \A q \in Places(bs) : Change(cs, q) = Change(bs, q)
    BY DEF Extends
  <2>3. \A q \in New : Change(cs, q).sig # s
    BY <1>4 DEF Extends
  <2> QED
    BY <2>1, <2>2, <2>3, <1>1 DEF LastPlace
<1> QED
  BY <1>3, <1>4

\* An extension holds what there was and the changes behind it.
LEMMA ExtendedHeld ==
  ASSUME NEW bs, NEW cs, NEW n, NEW m, NEW fresh \in Seq(Changes), Extends(cs, bs, n, m, fresh)
  PROVE  Held(cs) = Held(bs) \cup {fresh[i] : i \in 1..Len(fresh)}
<1> DEFINE New == {<<n, m + i>> : i \in 1..Len(fresh)}
<1>1. Places(cs) = Places(bs) \cup New
  BY DEF Extends
<1>2. \A p \in Places(bs) : Change(cs, p) = Change(bs, p)
  BY DEF Extends
<1>3. \A i \in 1..Len(fresh) : <<n, m + i>> \in Places(cs) /\ Change(cs, <<n, m + i>>) = fresh[i]
  BY <1>1 DEF Extends
<1>4. ASSUME NEW e \in Held(cs) PROVE e \in Held(bs) \cup {fresh[i] : i \in 1..Len(fresh)}
  <2>1. PICK p \in Places(cs) : e = Change(cs, p)
    BY DEF Held
  <2>2. CASE p \in Places(bs)
    BY <2>1, <2>2, <1>2 DEF Held
  <2>3. CASE p \in New
    BY <2>1, <2>3, <1>3
  <2> QED
    BY <2>2, <2>3, <1>1
<1>5. ASSUME NEW e \in Held(bs) PROVE e \in Held(cs)
  BY <1>1, <1>2 DEF Held
<1>6. \A i \in 1..Len(fresh) : fresh[i] \in Held(cs)
  BY <1>3 DEF Held
<1> QED
  BY <1>4, <1>5, <1>6

\* cs is a rearrangement of bs that loses no change.
Reordered(cs, bs) == \E g : Rearranges(g, cs, bs) /\ Covers(g, cs, bs)

\* Such blocks are as sound, hold the same changes and have the same last values.
LEMMA ReorderedBlocks ==
  ASSUME NEW bs, NEW cs, NEW t, NEW W, Sound(bs, t, W), Reordered(cs, bs)
  PROVE  /\ Sound(cs, t, W)
         /\ Held(cs) = Held(bs)
         /\ \A s, v : LastPlace(bs, s, v) => LastPlace(cs, s, v)
<1>1. PICK g : Rearranges(g, cs, bs) /\ Covers(g, cs, bs)
  BY DEF Reordered
<1>2. Sound(cs, t, W)
  BY <1>1, RearrangedSound
<1>3. Held(cs) = Held(bs)
  <2>1. \A p \in Places(cs) : g[p] \in Places(bs) /\ Change(cs, p) = Change(bs, g[p])
    BY <1>1 DEF Rearranges
  <2>2. \A q \in Places(bs) : \E p \in Places(cs) : g[p] = q
    BY <1>1 DEF Covers
  <2> QED
    BY <2>1, <2>2 DEF Held
<1>4. KeepsLater(g, cs, bs)
  BY <1>1 DEF KeepsLater, Covers
<1>5. ASSUME NEW s, NEW v, LastPlace(bs, s, v) PROVE LastPlace(cs, s, v)
  <2>1. PICK q \in Places(bs) : Change(bs, q).sig = s
    BY <1>5 DEF LastPlace
  <2>2. PICK p \in Places(cs) : g[p] = q
    BY <1>1 DEF Covers
  <2>3. Change(cs, p).sig = s
    BY <1>1, <2>1, <2>2 DEF Rearranges
  <2> QED
    BY <1>1, <1>4, <1>5, <2>3, RearrangedLast
<1> QED
  BY <1>2, <1>3, <1>5

-----------------------------------------------------------------------------
(* Blocks of a file *)

\* A sequence of blocks on file: their changes are at places of what was pending.
OnFile(bs) ==
  /\ bs \in Seq({bs[k] : k \in DOMAIN bs})
  /\ \A k \in DOMAIN bs :
       /\ bs[k].start \in Nat /\ DOMAIN bs[k].entries \subseteq Nat
       /\ \A i \in DOMAIN bs[k].entries : bs[k].entries[i] \in Changes

Block(start, entries) == [start |-> start, entries |-> entries]

\* The places of ds are those of bs and, behind, those of cs.
Joins(ds, bs, cs) ==
  /\ Len(bs) \in Nat /\ OnFile(ds)
  /\ Places(ds) = Places(bs) \cup {<<Len(bs) + p[1], p[2]>> : p \in Places(cs)}
  /\ \A p \in Places(bs) : p \in Nat \X Nat /\ p[1] \in 1..Len(bs) /\ ds[p[1]] = bs[p[1]]
  /\ \A p \in Places(cs) : p \in Nat \X Nat /\ p[1] \in 1..Len(cs)
                           /\ ds[Len(bs) + p[1]] = cs[p[1]]

\* The places of cs are those of bs and those of a last block, n.
Appends(cs, bs, n, start, entries) ==
  /\ n \in Nat /\ n # 0 /\ OnFile(cs) /\ cs = Append(bs, Block(start, entries))
  /\ cs[n] = Block(start, entries)
  /\ Places(cs) = Places(bs) \cup {<<n, i>> : i \in DOMAIN entries}
  /\ \A p \in Places(bs) : p \in Nat \X Nat /\ p[1] < n /\ p[1] # n
                           /\ cs[p[1]] = bs[p[1]] /\ Change(cs, p) = Change(bs, p)
  /\ \A i \in DOMAIN entries : Change(cs, <<n, i>>) = entries[i]

\* The places of a concatenation.
LEMMA PlacesConcat ==
  ASSUME NEW bs, OnFile(bs), NEW cs, OnFile(cs)
  PROVE  Joins(bs \o cs, bs, cs)
<1> DEFINE R == {bs[k] : k \in DOMAIN bs} \cup {cs[k] : k \in DOMAIN cs}
           new == bs \o cs
<1>1. bs \in Seq(R) /\ cs \in Seq(R)
  <2>1. bs \in Seq({bs[k] : k \in DOMAIN bs}) /\ cs \in Seq({cs[k] : k \in DOMAIN cs})
    BY DEF OnFile
  <2> QED
    BY <2>1
<1>2. /\ new \in Seq(R) /\ Len(bs) \in Nat /\ Len(cs) \in Nat /\ Len(new) = Len(bs) + Len(cs)
      /\ DOMAIN bs = 1..Len(bs) /\ DOMAIN cs = 1..Len(cs) /\ DOMAIN new = 1..(Len(bs) + Len(cs))
      /\ \A k \in 1..Len(bs) : new[k] = bs[k]
      /\ \A k \in 1..Len(cs) : new[Len(bs) + k] = cs[k]
  BY <1>1
<1>3. ASSUME NEW k \in DOMAIN new
      PROVE  \/ k \in 1..Len(bs) /\ new[k] = bs[k]
             \/ k - Len(bs) \in 1..Len(cs) /\ k = Len(bs) + (k - Len(bs))
                /\ new[k] = cs[k - Len(bs)]
  <2>1. CASE k <= Len(bs)
    BY <2>1, <1>2
  <2>2. CASE k > Len(bs)
    <3>1. k - Len(bs) \in 1..Len(cs) /\ k = Len(bs) + (k - Len(bs))
      BY <2>2, <1>2
    <3> QED
      BY <3>1, <1>2
  <2> QED
    BY <2>1, <2>2, <1>2
<1>4. OnFile(new)
  <2>1. new \in Seq({new[k] : k \in DOMAIN new})
    <3> HIDE DEF new, R
    <3> QED
      BY <1>2, SeqOfElements
  <2>2. ASSUME NEW k \in DOMAIN new
        PROVE  /\ new[k].start \in Nat /\ DOMAIN new[k].entries \subseteq Nat
               /\ \A i \in DOMAIN new[k].entries : new[k].entries[i] \in Changes
    BY <1>2, <1>3 DEF OnFile
  <2> QED
    BY <2>1, <2>2 DEF OnFile
<1>5. \A p \in Places(bs) : p \in Nat \X Nat /\ p[1] \in 1..Len(bs) /\ new[p[1]] = bs[p[1]]
                            /\ p[2] \in DOMAIN bs[p[1]].entries
  BY <1>2 DEF Places, OnFile
<1>6. \A p \in Places(cs) : p \in Nat \X Nat /\ p[1] \in 1..Len(cs)
                            /\ new[Len(bs) + p[1]] = cs[p[1]]
                            /\ p[2] \in DOMAIN cs[p[1]].entries
  BY <1>2 DEF Places, OnFile
<1>7. ASSUME NEW p \in Places(new)
      PROVE  p \in Places(bs) \cup {<<Len(bs) + q[1], q[2]>> : q \in Places(cs)}
  <2>1. PICK k \in DOMAIN new : \E i \in DOMAIN new[k].entries : p = <<k, i>>
    BY DEF Places
  <2>2. CASE k \in 1..Len(bs) /\ new[k] = bs[k]
    BY <2>1, <2>2, <1>2 DEF Places
  <2>3. CASE k - Len(bs) \in 1..Len(cs) /\ k = Len(bs) + (k - Len(bs))
             /\ new[k] = cs[k - Len(bs)]
    <3>1. PICK i \in DOMAIN new[k].entries : p = <<k, i>>
      BY <2>1
    <3>2. <<k - Len(bs), i>> \in Places(cs)
      BY <3>1, <2>3, <1>2 DEF Places
    <3> QED
      BY <3>1, <3>2, <2>3
  <2> QED
    BY <2>2, <2>3, <1>3
<1>8. ASSUME NEW p \in Places(bs) PROVE p \in Places(new)
  <2>1. p = <<p[1], p[2]>> /\ p[1] \in DOMAIN new /\ p[2] \in DOMAIN new[p[1]].entries
    BY <1>2, <1>5
  <2> QED
    BY <2>1 DEF Places
<1>9. ASSUME NEW q \in Places(cs) PROVE <<Len(bs) + q[1], q[2]>> \in Places(new)
  <2>1. Len(bs) + q[1] \in DOMAIN new /\ q[2] \in DOMAIN new[Len(bs) + q[1]].entries
    BY <1>2, <1>6
  <2> QED
    BY <2>1 DEF Places
<1>10. Places(new) = Places(bs) \cup {<<Len(bs) + q[1], q[2]>> : q \in Places(cs)}
  BY <1>7, <1>8, <1>9
<1> QED
  BY <1>2, <1>4, <1>5, <1>6, <1>10 DEF Joins

\* The places of blocks with one more block behind them.
LEMMA PlacesAppend ==
  ASSUME NEW bs, OnFile(bs), NEW start \in Nat, NEW entries,
         DOMAIN entries \subseteq Nat, \A i \in DOMAIN entries : entries[i] \in Changes
  PROVE  Appends(bs \o <<Block(start, entries)>>, bs, Len(bs) + 1, start, entries)
<1> DEFINE one == <<Block(start, entries)>>
           cs  == bs \o one
           n   == Len(bs) + 1
<1>1. OnFile(one)
  BY DEF OnFile, Block
<1>2. Places(one) = {<<1, i>> : i \in DOMAIN entries}
  BY DEF Places, Block
<1>3. Joins(cs, bs, one)
  BY <1>1, PlacesConcat
<1>4. bs \in Seq({bs[k] : k \in DOMAIN bs} \cup {Block(start, entries)})
  <2>1. bs \in Seq({bs[k] : k \in DOMAIN bs})
    BY DEF OnFile
  <2> QED
    BY <2>1
<1>5. cs[n] = Block(start, entries) /\ cs = Append(bs, Block(start, entries))
  BY <1>3, <1>4 DEF Joins
<1>6. {<<Len(bs) + p[1], p[2]>> : p \in Places(one)} = {<<n, i>> : i \in DOMAIN entries}
  <2>1. \A p \in Places(one) : \E i \in DOMAIN entries : p[1] = 1 /\ p[2] = i
    BY <1>2
  <2>2. ASSUME NEW i \in DOMAIN entries PROVE \E p \in Places(one) : p[1] = 1 /\ p[2] = i
    <3>1. <<1, i>> \in Places(one)
      BY <1>2
    <3>2. <<1, i>>[1] = 1 /\ <<1, i>>[2] = i
      OBVIOUS
    <3> HIDE DEF one
    <3> QED
      BY <3>1, <3>2
  <2> HIDE DEF one
  <2> QED
    BY <2>1, <2>2
<1> HIDE DEF one, cs
<1>7. \A p \in Places(bs) : p[1] < n /\ p[1] # n /\ Change(cs, p) = Change(bs, p)
  BY <1>3 DEF Change, Joins
<1>8. \A i \in DOMAIN entries : Change(cs, <<n, i>>) = entries[i]
  BY <1>5 DEF Change, Block
<1>9. Appends(cs, bs, n, start, entries)
  BY <1>3, <1>5, <1>6, <1>7, <1>8 DEF Appends, Joins
<1> QED
  BY <1>9 DEF cs, one

\* Blocks with the same changes at the same places are the same but for empty ones.
LEMMA SamePlaces ==
  ASSUME NEW bs, NEW cs, Places(cs) = Places(bs),
         \A p \in Places(cs) : p \in Nat \X Nat /\ Change(cs, p) = Change(bs, p)
                               /\ cs[p[1]].start = bs[p[1]].start
  PROVE  Reordered(cs, bs)
<1> DEFINE g == [p \in Places(cs) |-> p]
<1>1. g \in [Places(cs) -> Places(bs)] /\ \A p \in Places(cs) : g[p] = p
  OBVIOUS
<1> HIDE DEF g
<1>2. Rearranges(g, cs, bs) /\ Covers(g, cs, bs)
  BY <1>1 DEF Rearranges, Covers
<1> QED
  BY <1>2 DEF Reordered

\* A block that is empty can be put behind, and begin at any time.
LEMMA EmptyBehind ==
  ASSUME NEW bs, OnFile(bs), NEW start \in Nat, NEW other \in Nat
  PROVE  /\ Reordered(bs \o <<Block(start, << >>)>>, bs)
         /\ Reordered(bs \o <<Block(start, << >>)>>, bs \o <<Block(other, << >>)>>)
<1> DEFINE none == << >>
           cs   == bs \o <<Block(start, none)>>
           ds   == bs \o <<Block(other, none)>>
           n    == Len(bs) + 1
<1>1. DOMAIN none = {}
  OBVIOUS
<1> HIDE DEF none
<1>2. Appends(cs, bs, n, start, none) /\ Appends(ds, bs, n, other, none)
  BY <1>1, PlacesAppend
<1> HIDE DEF cs, ds, n
<1>3. /\ Places(cs) = Places(bs) /\ Places(ds) = Places(bs)
      /\ \A p \in Places(bs) : p \in Nat \X Nat /\ cs[p[1]] = bs[p[1]] /\ ds[p[1]] = bs[p[1]]
                               /\ Change(cs, p) = Change(bs, p) /\ Change(ds, p) = Change(bs, p)
  BY <1>1, <1>2 DEF Appends
<1>4. Reordered(cs, bs)
  BY <1>3, SamePlaces
<1>5. Reordered(cs, ds)
  BY <1>3, SamePlaces
<1> QED
  BY <1>4, <1>5 DEF cs, ds, none

\* Changes put behind those of the last block extend the blocks.
LEMMA ExtendBlock ==
  ASSUME NEW bs, OnFile(bs), NEW start \in Nat,
         NEW entries \in Seq(Changes), NEW fresh \in Seq(Changes)
  PROVE  /\ Extends(bs \o <<Block(start, entries \o fresh)>>, bs \o <<Block(start, entries)>>,
                    Len(bs) + 1, Len(entries), fresh)
         /\ (bs \o <<Block(start, entries \o fresh)>>)[Len(bs) + 1].start = start
<1> DEFINE new == entries \o fresh
           n   == Len(bs) + 1
           cs  == bs \o <<Block(start, new)>>
           ds  == bs \o <<Block(start, entries)>>
<1>1. /\ new \in Seq(Changes) /\ Len(entries) \in Nat /\ Len(fresh) \in Nat
      /\ DOMAIN entries = 1..Len(entries) /\ DOMAIN new = 1..(Len(entries) + Len(fresh))
      /\ \A i \in DOMAIN new : new[i] \in Changes
      /\ \A i \in DOMAIN entries : entries[i] \in Changes /\ new[i] = entries[i] /\ i <= Len(entries)
      /\ \A i \in 1..Len(fresh) : new[Len(entries) + i] = fresh[i] /\ Len(entries) + i \in DOMAIN new
      /\ DOMAIN new \subseteq Nat /\ DOMAIN entries \subseteq Nat
  OBVIOUS
<1>2. DOMAIN new = DOMAIN entries \cup {Len(entries) + i : i \in 1..Len(fresh)}
  <2>1. ASSUME NEW k \in DOMAIN new, k \notin DOMAIN entries
        PROVE  k \in {Len(entries) + i : i \in 1..Len(fresh)}
    <3>1. k - Len(entries) \in 1..Len(fresh) /\ k = Len(entries) + (k - Len(entries))
      BY <1>1, <2>1
    <3> QED
      BY <3>1
  <2> QED
    BY <2>1, <1>1
<1> HIDE DEF new
<1>3. Appends(cs, bs, n, start, new) /\ Appends(ds, bs, n, start, entries)
  BY <1>1, PlacesAppend
<1> HIDE DEF n, cs, ds
<1>4. /\ n \in Nat /\ cs[n] = Block(start, new) /\ ds[n] = Block(start, entries)
      /\ Places(cs) = Places(bs) \cup {<<n, i>> : i \in DOMAIN new}
      /\ Places(ds) = Places(bs) \cup {<<n, i>> : i \in DOMAIN entries}
      /\ \A p \in Places(bs) : /\ p[1] < n /\ cs[p[1]] = bs[p[1]] /\ Change(cs, p) = Change(bs, p)
                               /\ ds[p[1]] = bs[p[1]] /\ Change(ds, p) = Change(bs, p)
      /\ \A i \in DOMAIN new : Change(cs, <<n, i>>) = new[i]
      /\ \A i \in DOMAIN entries : Change(ds, <<n, i>>) = entries[i]
  BY <1>3 DEF Appends
<1>5. Places(cs) = Places(ds) \cup {<<n, Len(entries) + i>> : i \in 1..Len(fresh)}
  BY <1>2, <1>3, <1>4
<1>6. ASSUME NEW p \in Places(ds)
      PROVE  /\ p[1] < n \/ (p[1] = n /\ p[2] <= Len(entries))
             /\ Change(cs, p) = Change(ds, p) /\ cs[p[1]].start = ds[p[1]].start
  <2>1. CASE p \in Places(bs)
    BY <2>1, <1>3, <1>4
  <2>2. CASE p \in {<<n, i>> : i \in DOMAIN entries}
    <3>1. PICK i \in DOMAIN entries : p = <<n, i>>
      BY <2>2
    <3>2. p[1] = n /\ p[2] = i
      BY <3>1
    <3>3. Change(cs, p) = Change(ds, p)
      BY <3>1, <1>1, <1>3, <1>4
    <3>4. cs[p[1]].start = ds[p[1]].start
      BY <3>2, <1>3, <1>4 DEF Block
    <3> QED
      BY <3>2, <3>3, <3>4, <1>1
  <2> QED
    BY <2>1, <2>2, <1>4
<1>7. \A i \in 1..Len(fresh) : Change(cs, <<n, Len(entries) + i>>) = fresh[i]
  BY <1>1, <1>4
<1>8. Extends(cs, ds, n, Len(entries), fresh)
  BY <1>1, <1>4, <1>5, <1>6, <1>7 DEF Extends
<1>9. cs[n].start = start
  BY <1>4 DEF Block
<1> QED
  BY <1>8, <1>9 DEF n, cs, ds, new

-----------------------------------------------------------------------------
(* Samples and the division by scope *)

\* The loop over indices meets each once.
LEMMA AscendingFacts ==
  ASSUME NEW S \in SUBSET Nat, IsFiniteSet(S)
  PROVE  /\ Cardinality(S) \in Nat /\ IsAscending(Ascending(S), S)
         /\ \A i, j \in 1..Cardinality(S) : Ascending(S)[i] = Ascending(S)[j] => i = j
<1>1. Cardinality(S) \in Nat
  BY FS_CardinalityType
<1>2. PICK order : IsAscending(order, S)
  BY AscendingExists
<1>3. IsAscending(Ascending(S), S)
  <2>1. \E o \in [1..Cardinality(S) -> S] :
           /\ \A x \in S : \E i \in 1..Cardinality(S) : o[i] = x
           /\ \A i, j \in 1..Cardinality(S) : i < j => o[i] < o[j]
    BY <1>2 DEF IsAscending
  <2> QED
    BY <2>1, Zenon DEF IsAscending, Ascending
<1>4. ASSUME NEW i \in 1..Cardinality(S), NEW j \in 1..Cardinality(S), i # j
      PROVE  Ascending(S)[i] # Ascending(S)[j]
  <2>1. Ascending(S)[i] \in Nat /\ Ascending(S)[j] \in Nat
    BY <1>3 DEF IsAscending
  <2>2. i < j \/ j < i
    BY <1>1, <1>4
  <2>3. Ascending(S)[i] < Ascending(S)[j] \/ Ascending(S)[j] < Ascending(S)[i]
    BY <2>2, <1>3 DEF IsAscending
  <2> QED
    BY <2>1, <2>3
<1> QED
  BY <1>1, <1>3, <1>4

\* write_signal_value gives each signal of the set once, with its value and the present time.
LEMMA SamplesFacts ==
  ASSUME NEW S \in SUBSET Signals, NEW by \in Nat, now \in Nat, value \in [Signals -> Values]
  PROVE  /\ Samples(S, by) \in Seq(Changes) /\ Len(Samples(S, by)) = Cardinality(S)
         /\ Cardinality(S) \in Nat
         /\ \A i \in 1..Len(Samples(S, by)) :
              /\ Samples(S, by)[i].time = now /\ Samples(S, by)[i].sig \in S
              /\ Samples(S, by)[i].value = value[Samples(S, by)[i].sig]
              /\ Samples(S, by)[i].by = by
         /\ \A i, j \in 1..Len(Samples(S, by)) : Samples(S, by)[i].sig = Samples(S, by)[j].sig => i = j
         /\ \A s \in S : \E i \in 1..Len(Samples(S, by)) : Samples(S, by)[i].sig = s
<1>1. S \in SUBSET Nat /\ IsFiniteSet(S)
  BY VpiAssumption, FS_Subset
<1> DEFINE n     == Cardinality(S)
           order == Ascending(S)
           new   == Samples(S, by)
<1>2. /\ n \in Nat /\ order \in [1..n -> S]
      /\ \A x \in S : \E i \in 1..n : order[i] = x
      /\ \A i, j \in 1..n : order[i] = order[j] => i = j
  BY <1>1, AscendingFacts DEF IsAscending
<1>3. new = [i \in 1..n |->
               [sig |-> order[i], time |-> now, value |-> value[order[i]], by |-> by]]
  BY DEF Samples
<1> HIDE DEF n, order, new
<1>4. \A i \in 1..n : /\ new[i] = [sig |-> order[i], time |-> now, value |-> value[order[i]],
                                   by |-> by]
                      /\ order[i] \in S /\ order[i] \in Signals /\ value[order[i]] \in Values
  BY <1>2, <1>3
<1>5. ASSUME NEW i \in 1..n
      PROVE  /\ new[i] \in Changes /\ new[i].time = now /\ new[i].sig = order[i]
             /\ new[i].value = value[order[i]] /\ new[i].by = by /\ order[i] \in S
  <2> DEFINE s == order[i]
             v == value[s]
  <2>1. new[i] = [sig |-> s, time |-> now, value |-> v, by |-> by]
    BY <1>4
  <2>2. s \in Signals /\ s \in S /\ v \in Values
    BY <1>4
  <2> HIDE DEF s, v
  <2>3. /\ new[i] \in Changes /\ new[i].time = now /\ new[i].sig = s /\ new[i].value = v
        /\ new[i].by = by
    BY <2>1, <2>2 DEF Changes
  <2> QED
    BY <2>2, <2>3 DEF s, v
<1>6. new \in Seq(Changes) /\ Len(new) = n
  <2>1. new = [i \in 1..n |-> new[i]]
    BY <1>3
  <2>2. [i \in 1..n |-> new[i]] \in Seq(Changes)
    BY <1>2, <1>5
  <2>3. Len(new) = n
    BY <1>2, <1>3
  <2> QED
    BY <2>1, <2>2, <2>3
<1>7. \A i, j \in 1..n : new[i].sig = new[j].sig => i = j
  BY <1>2, <1>5
<1>8. \A s \in S : \E i \in 1..n : new[i].sig = s
  BY <1>2, <1>5
<1> QED
  BY <1>2, <1>5, <1>6, <1>7, <1>8 DEF n, order, new

\* The scopes of pending changes can be listed.
LEMMA ScopesFacts ==
  ASSUME NEW entries \in Seq(Changes)
  PROVE  /\ ScopesOf(entries) \in SUBSET Nat /\ IsFiniteSet(ScopesOf(entries))
         /\ \A i \in DOMAIN entries : ScopeOf[entries[i].sig] \in ScopesOf(entries)
<1> DEFINE S == ScopesOf(entries)
           f == [i \in 1..Len(entries) |-> ScopeOf[entries[i].sig]]
<1>1. /\ Len(entries) \in Nat /\ DOMAIN entries = 1..Len(entries)
      /\ \A i \in DOMAIN entries : entries[i] \in Changes
  OBVIOUS
<1>2. \A i \in DOMAIN entries : ScopeOf[entries[i].sig] \in Nat /\ ScopeOf[entries[i].sig] \in S
  BY <1>1, VpiAssumption DEF Changes, ScopesOf
<1>3. S \in SUBSET Nat
  BY <1>2 DEF ScopesOf
<1>4. f \in Surjection(1..Len(entries), S)
  <2>1. f \in [1..Len(entries) -> S]
    BY <1>1, <1>2
  <2>2. \A s \in S : \E i \in 1..Len(entries) : f[i] = s
    BY <1>1 DEF ScopesOf
  <2> HIDE DEF f, S
  <2> QED
    BY <2>1, <2>2 DEF Surjection
<1>5. IsFiniteSet(S)
  <2> HIDE DEF f, S
  <2>1. ExistsSurjection(1..Len(entries), S)
    BY <1>4 DEF ExistsSurjection
  <2> QED
    BY <2>1, <1>1, FS_NatSurjection
<1> QED
  BY <1>2, <1>3, <1>5

\* trlog_vpi_flush_pending makes a block of each scope, with the changes of the scope.
LEMMA ScopeBlocksFacts ==
  ASSUME NEW entries \in Seq(Changes), NEW start \in Nat
  PROVE  LET bs    == ScopeBlocks(start, entries)
             order == Ascending(ScopesOf(entries))
             n     == Cardinality(ScopesOf(entries))
         IN  /\ OnFile(bs) /\ n \in Nat /\ DOMAIN bs = 1..n
             /\ \A k \in 1..n :
                  /\ bs[k].start = start
                  /\ DOMAIN bs[k].entries =
                       {i \in DOMAIN entries : ScopeOf[entries[i].sig] = order[k]}
                  /\ \A i \in DOMAIN bs[k].entries : bs[k].entries[i] = entries[i]
             /\ \A k, l \in 1..n : order[k] = order[l] => k = l
             /\ \A i \in DOMAIN entries : \E k \in 1..n : order[k] = ScopeOf[entries[i].sig]
<1> DEFINE S     == ScopesOf(entries)
           bs    == ScopeBlocks(start, entries)
           order == Ascending(S)
           n     == Cardinality(S)
<1>1. n \in Nat /\ IsAscending(order, S) /\ \A k, l \in 1..n : order[k] = order[l] => k = l
  BY ScopesFacts, AscendingFacts
<1>2. /\ Len(entries) \in Nat /\ DOMAIN entries = 1..Len(entries)
      /\ \A i \in DOMAIN entries : entries[i] \in Changes
  OBVIOUS
<1>3. /\ bs = [k \in 1..n |-> [start |-> start, entries |-> InScope(entries, order[k])]]
  BY DEF ScopeBlocks
<1>4. \A i \in DOMAIN entries : \E k \in 1..n : order[k] = ScopeOf[entries[i].sig]
  BY <1>1, ScopesFacts DEF IsAscending
<1> HIDE DEF S, order, n, bs
<1>5. \A k \in 1..n : /\ bs[k].start = start
                      /\ bs[k].entries = InScope(entries, order[k])
  BY <1>3
<1>6. ASSUME NEW k \in 1..n
      PROVE  /\ DOMAIN bs[k].entries =
                  {i \in DOMAIN entries : ScopeOf[entries[i].sig] = order[k]}
             /\ \A i \in DOMAIN bs[k].entries : bs[k].entries[i] = entries[i]
  BY <1>5 DEF InScope
<1>7. OnFile(bs)
  <2>1. bs \in Seq({bs[k] : k \in DOMAIN bs})
    <3>1. DOMAIN bs = 1..n /\ bs = [k \in 1..n |-> bs[k]]
      BY <1>3
    <3>2. [k \in 1..n |-> bs[k]] \in Seq({bs[k] : k \in DOMAIN bs})
      BY <1>1, <3>1
    <3> QED
      BY <3>1, <3>2
  <2>2. ASSUME NEW k \in 1..n
        PROVE  /\ bs[k].start \in Nat /\ DOMAIN bs[k].entries \subseteq Nat
               /\ \A i \in DOMAIN bs[k].entries : bs[k].entries[i] \in Changes
    BY <1>2, <1>5, <1>6
  <2>3. DOMAIN bs = 1..n
    BY <1>3
  <2> QED
    BY <2>1, <2>2, <2>3 DEF OnFile
<1>8. DOMAIN bs = 1..n
  BY <1>3
<1> QED
  BY <1>1, <1>4, <1>5, <1>6, <1>7, <1>8 DEF S, order, n, bs

\* A flush by scope puts each pending change behind the file, in the order of its signal.
LEMMA SplitByScope ==
  ASSUME NEW bs, OnFile(bs), NEW entries \in Seq(Changes), NEW start \in Nat
  PROVE  /\ OnFile(bs \o ScopeBlocks(start, entries))
         /\ Reordered(bs \o ScopeBlocks(start, entries), bs \o <<Block(start, entries)>>)
<1> DEFINE S     == ScopesOf(entries)
           sb    == ScopeBlocks(start, entries)
           order == Ascending(S)
           n     == Cardinality(S)
           cs    == bs \o sb
           ds    == bs \o <<Block(start, entries)>>
           L     == Len(bs) + 1
           g     == [p \in Places(cs) |-> IF p[1] < L THEN p ELSE <<L, p[2]>>]
<1>1. /\ OnFile(sb) /\ n \in Nat /\ DOMAIN sb = 1..n
      /\ \A k \in 1..n :
           /\ sb[k].start = start
           /\ DOMAIN sb[k].entries =
                {i \in DOMAIN entries : ScopeOf[entries[i].sig] = order[k]}
           /\ \A i \in DOMAIN sb[k].entries : sb[k].entries[i] = entries[i]
      /\ \A k, l \in 1..n : order[k] = order[l] => k = l
      /\ \A i \in DOMAIN entries : \E k \in 1..n : order[k] = ScopeOf[entries[i].sig]
  BY ScopeBlocksFacts
<1>2. DOMAIN entries \subseteq Nat /\ \A i \in DOMAIN entries : entries[i] \in Changes
  OBVIOUS
<1> HIDE DEF S, order, n, sb
<1>3. Joins(cs, bs, sb) /\ Appends(ds, bs, L, start, entries)
  BY <1>1, <1>2, PlacesConcat, PlacesAppend
<1>4. L \in Nat /\ Len(bs) \in Nat /\ L = Len(bs) + 1
  BY <1>3 DEF Joins
<1> HIDE DEF cs, ds, L
<1>5. /\ Places(cs) = Places(bs) \cup {<<Len(bs) + p[1], p[2]>> : p \in Places(sb)}
      /\ \A p \in Places(bs) : /\ p \in Nat \X Nat /\ p[1] < L
                               /\ cs[p[1]] = bs[p[1]] /\ Change(cs, p) = Change(bs, p)
                               /\ ds[p[1]] = bs[p[1]] /\ Change(ds, p) = Change(bs, p)
      /\ ds[L] = Block(start, entries)
      /\ Places(ds) = Places(bs) \cup {<<L, i>> : i \in DOMAIN entries}
      /\ \A i \in DOMAIN entries : Change(ds, <<L, i>>) = entries[i]
  BY <1>3, <1>4 DEF Joins, Appends, Change
\* What a place behind the file is.
<1>6. ASSUME NEW p \in Places(cs), p \notin Places(bs)
      PROVE  \E k \in 1..n : \E i \in DOMAIN entries :
               /\ p = <<Len(bs) + k, i>> /\ p[1] = Len(bs) + k /\ p[2] = i /\ ~(p[1] < L)
               /\ ScopeOf[entries[i].sig] = order[k]
               /\ Change(cs, p) = entries[i] /\ cs[p[1]].start = start
  <2>1. PICK q \in Places(sb) : p = <<Len(bs) + q[1], q[2]>>
    BY <1>5, <1>6
  <2>2. /\ q \in Nat \X Nat /\ q[1] \in 1..n /\ q[2] \in DOMAIN sb[q[1]].entries
        /\ cs[Len(bs) + q[1]] = sb[q[1]]
    BY <1>1, <1>3 DEF Joins, Places
  <2>3. q[2] \in DOMAIN entries /\ ScopeOf[entries[q[2]].sig] = order[q[1]]
        /\ sb[q[1]].entries[q[2]] = entries[q[2]] /\ sb[q[1]].start = start
    BY <1>1, <2>2
  <2>4. p[1] = Len(bs) + q[1] /\ p[2] = q[2] /\ ~(p[1] < L)
    BY <1>1, <1>4, <2>1, <2>2
  <2>5. Change(cs, p) = entries[q[2]] /\ cs[p[1]].start = start
    BY <2>2, <2>3, <2>4 DEF Change
  <2> QED
    BY <2>1, <2>2, <2>3, <2>4, <2>5
<1>7. ASSUME NEW i \in DOMAIN entries
      PROVE  \E p \in Places(cs) : p \notin Places(bs) /\ p[2] = i
  <2>1. PICK k \in 1..n : order[k] = ScopeOf[entries[i].sig]
    BY <1>1
  <2>2. i \in DOMAIN sb[k].entries
    BY <1>1, <2>1
  <2>3. <<k, i>> \in Places(sb)
    BY <1>1, <2>2 DEF Places
  <2>4. <<Len(bs) + k, i>> \in Places(cs)
    BY <1>5, <2>3
  <2>5. <<Len(bs) + k, i>> \notin Places(bs)
    BY <1>1, <1>4, <1>5
  <2> QED
    BY <2>4, <2>5
<1>8. \A p \in Places(cs) :
        /\ p \in Places(bs) => g[p] = p
        /\ p \notin Places(bs) => g[p] = <<L, p[2]>> /\ g[p][1] = L /\ g[p][2] = p[2]
  <2>1. \A p \in Places(cs) : g[p] = IF p \in Places(bs) THEN p ELSE <<L, p[2]>>
    BY <1>5, <1>6
  <2> HIDE DEF g
  <2>2. ASSUME NEW p \in Places(cs), p \notin Places(bs)
        PROVE  g[p] = <<L, p[2]>> /\ g[p][1] = L /\ g[p][2] = p[2]
    <3> DEFINE i == p[2]
    <3>1. g[p] = <<L, i>>
      BY <2>1, <2>2
    <3> HIDE DEF i
    <3>2. g[p] = <<L, i>> /\ g[p][1] = L /\ g[p][2] = i
      BY <3>1
    <3> QED
      BY <3>2 DEF i
  <2> QED
    BY <2>1, <2>2
<1> HIDE DEF g
<1>9. ASSUME NEW p \in Places(cs)
      PROVE  /\ g[p] \in Places(ds) /\ p \in Nat \X Nat /\ g[p] \in Nat \X Nat
             /\ Change(cs, p) = Change(ds, g[p]) /\ cs[p[1]].start = ds[g[p][1]].start
             /\ g[p][2] = p[2]
  <2>1. CASE p \in Places(bs)
    BY <2>1, <1>5, <1>8
  <2>2. CASE p \notin Places(bs)
    <3>1. PICK k \in 1..n : \E i \in DOMAIN entries :
               /\ p = <<Len(bs) + k, i>> /\ p[1] = Len(bs) + k /\ p[2] = i /\ ~(p[1] < L)
               /\ ScopeOf[entries[i].sig] = order[k]
               /\ Change(cs, p) = entries[i] /\ cs[p[1]].start = start
      BY <2>2, <1>6
    <3>2. PICK i \in DOMAIN entries :
               /\ p = <<Len(bs) + k, i>> /\ p[2] = i
               /\ Change(cs, p) = entries[i] /\ cs[p[1]].start = start
      BY <3>1
    <3>3. g[p] = <<L, i>> /\ g[p][1] = L /\ g[p][2] = i
      BY <3>2, <2>2, <1>8
    <3>4. g[p] \in Places(ds) /\ Change(ds, g[p]) = entries[i] /\ ds[g[p][1]].start = start
      BY <3>3, <1>5 DEF Block
    <3>5. p \in Nat \X Nat /\ g[p] \in Nat \X Nat
      BY <3>2, <3>3, <1>1, <1>2, <1>4
    <3> QED
      BY <3>2, <3>3, <3>4, <3>5
  <2> QED
    BY <2>1, <2>2
<1>10. ASSUME NEW p \in Places(cs), NEW q \in Places(cs), p[1] = q[1] PROVE g[p][1] = g[q][1]
  <2>1. p \in Places(bs) <=> q \in Places(bs)
    BY <1>5, <1>6, <1>10
  <2> QED
    BY <2>1, <1>8, <1>10
<1>11. ASSUME NEW p \in Places(cs), NEW q \in Places(cs), Before(p, q),
              Change(cs, p).sig = Change(cs, q).sig
       PROVE  Before(g[p], g[q])
  <2>1. CASE p \in Places(bs) /\ q \in Places(bs)
    BY <2>1, <1>8, <1>11
  <2>2. CASE p \in Places(bs) /\ q \notin Places(bs)
    <3>1. g[p][1] < L /\ g[q][1] = L
      BY <2>2, <1>5, <1>8
    <3> QED
      BY <3>1 DEF Before
  <2>3. CASE p \notin Places(bs) /\ q \in Places(bs)
    <3>1. q[1] < L /\ ~(p[1] < L) /\ q[1] \in Nat /\ p[1] \in Nat
      BY <2>3, <1>5, <1>6, <1>9
    <3> QED
      BY <3>1, <1>4, <1>11 DEF Before
  <2>4. CASE p \notin Places(bs) /\ q \notin Places(bs)
    <3>1. PICK k \in 1..n : \E i \in DOMAIN entries :
               /\ p[1] = Len(bs) + k
               /\ ScopeOf[entries[i].sig] = order[k] /\ Change(cs, p) = entries[i]
      BY <2>4, <1>6
    <3>2. PICK l \in 1..n : \E i \in DOMAIN entries :
               /\ q[1] = Len(bs) + l
               /\ ScopeOf[entries[i].sig] = order[l] /\ Change(cs, q) = entries[i]
      BY <2>4, <1>6
    <3>3. k = l
      BY <3>1, <3>2, <1>1, <1>11
    <3>4. p[2] < q[2]
      BY <3>1, <3>2, <3>3, <1>1, <1>4, <1>11 DEF Before
    <3>5. g[p][1] = L /\ g[q][1] = L
      BY <2>4, <1>8
    <3> QED
      BY <3>4, <3>5, <1>9 DEF Before
  <2> QED
    BY <2>1, <2>2, <2>3, <2>4
<1>12. Rearranges(g, cs, ds)
  <2>1. g \in [Places(cs) -> Places(ds)]
    BY <1>9 DEF g
  <2> QED
    BY <2>1, <1>9, <1>10, <1>11 DEF Rearranges
<1>13. Covers(g, cs, ds)
  <2> SUFFICES ASSUME NEW q \in Places(ds) PROVE \E p \in Places(cs) : g[p] = q
    BY DEF Covers
  <2>1. CASE q \in Places(bs)
    BY <2>1, <1>5, <1>8
  <2>2. CASE q \in {<<L, i>> : i \in DOMAIN entries}
    <3>1. PICK i \in DOMAIN entries : q = <<L, i>>
      BY <2>2
    <3>2. PICK p \in Places(cs) : p \notin Places(bs) /\ p[2] = i
      BY <1>7
    <3> QED
      BY <3>1, <3>2, <1>8
  <2> QED
    BY <2>1, <2>2, <1>5
<1>14. OnFile(cs) /\ Reordered(cs, ds)
  BY <1>3, <1>12, <1>13 DEF Joins, Reordered
<1> QED
  BY <1>14 DEF cs, ds, sb

-----------------------------------------------------------------------------
(* The steps on the blocks *)

\* Blocks that hold what bs did, as soundly, with the same last values.
AsGood(cs, bs, t, W) ==
  /\ Sound(cs, t, W) /\ Held(cs) = Held(bs)
  /\ \A s, v : LastPlace(bs, s, v) => LastPlace(cs, s, v)

\* Blocks that hold what bs did and the changes of fresh.
Records(cs, bs, t, W, fresh) ==
  /\ Sound(cs, t, W) /\ Held(cs) = Held(bs) \cup {fresh[i] : i \in 1..Len(fresh)}
  /\ \A s, v :
       /\ (\E i \in 1..Len(fresh) : fresh[i].sig = s) \/ LastPlace(bs, s, v)
       /\ \A i \in 1..Len(fresh) : fresh[i].sig = s => fresh[i].value = v
       => LastPlace(cs, s, v)

\* A list of changes that a callback or a snapshot may write.
Writable(fresh, t, b) ==
  /\ fresh \in Seq(Changes)
  /\ \A i \in 1..Len(fresh) : fresh[i].time = t /\ fresh[i].by = b
  /\ \A i, j \in 1..Len(fresh) : fresh[i].sig = fresh[j].sig => i = j

\* What an extension behind the changes of a block records.
LEMMA ExtendedRecords ==
  ASSUME NEW bs, OnFile(bs), NEW start \in Nat, NEW entries \in Seq(Changes),
         NEW t \in Nat, NEW fresh, NEW b, Writable(fresh, t, b),
         NEW W \in Nat, NEW X \in Nat, W <= X, b <= X,
         Sound(bs \o <<Block(start, entries)>>, t, W),
         start <= t, \A i \in DOMAIN entries : Apart(entries[i].by, b)
  PROVE  Records(bs \o <<Block(start, entries \o fresh)>>, bs \o <<Block(start, entries)>>,
                 t, X, fresh)
<1> DEFINE cs == bs \o <<Block(start, entries \o fresh)>>
           ds == bs \o <<Block(start, entries)>>
           n  == Len(bs) + 1
<1>1. fresh \in Seq(Changes)
  BY DEF Writable
<1>2. Extends(cs, ds, n, Len(entries), fresh) /\ cs[n].start = start
  BY <1>1, ExtendBlock
<1>3. Appends(ds, bs, n, start, entries)
  BY PlacesAppend
<1> HIDE DEF cs, ds, n
<1>4. ASSUME NEW p \in Places(ds), p[1] = n PROVE Apart(Change(ds, p).by, b)
  <2>1. p \in {<<n, i>> : i \in DOMAIN entries}
    BY <1>3, <1>4 DEF Appends
  <2>2. PICK i \in DOMAIN entries : p = <<n, i>>
    BY <2>1
  <2>3. Change(ds, p) = entries[i]
    BY <2>2, <1>3 DEF Appends
  <2> QED
    BY <2>3, <1>4
<1>5. Sound(cs, t, X)
  <2>1. \A i \in 1..Len(fresh) : fresh[i].time = t /\ fresh[i].by = b
    BY DEF Writable
  <2>2. \A i, j \in 1..Len(fresh) : fresh[i].sig = fresh[j].sig => i = j
    BY DEF Writable
  <2>3. Sound(ds, t, W)
    BY DEF ds
  <2> QED
    BY <1>1, <1>2, <1>4, <2>1, <2>2, <2>3, ExtendedSound
<1>6. Held(cs) = Held(ds) \cup {fresh[i] : i \in 1..Len(fresh)}
  BY <1>1, <1>2, ExtendedHeld
<1>7. ASSUME NEW s, NEW v, (\E i \in 1..Len(fresh) : fresh[i].sig = s) \/ LastPlace(ds, s, v),
             \A i \in 1..Len(fresh) : fresh[i].sig = s => fresh[i].value = v
      PROVE  LastPlace(cs, s, v)
  <2>1. Sound(ds, t, W)
    BY DEF ds
  <2>2. \A i, j \in 1..Len(fresh) : fresh[i].sig = fresh[j].sig => i = j
    BY DEF Writable
  <2> QED
    BY <1>1, <1>2, <1>7, <2>1, <2>2, ExtendedLast
<1> QED
  BY <1>5, <1>6, <1>7 DEF Records, cs, ds

\* A step that rearranges, extends the last block and rearranges again.
LEMMA WrittenRecords ==
  ASSUME NEW from, NEW bs, OnFile(bs), NEW start \in Nat, NEW entries \in Seq(Changes),
         NEW t \in Nat, NEW fresh, NEW b, Writable(fresh, t, b),
         NEW W \in Nat, NEW X \in Nat, W <= X, b <= X,
         AsGood(bs \o <<Block(start, entries)>>, from, t, W),
         start <= t, \A i \in DOMAIN entries : Apart(entries[i].by, b),
         NEW to, to = bs \o <<Block(start, entries \o fresh)>>
                 \/ Reordered(to, bs \o <<Block(start, entries \o fresh)>>)
  PROVE  Records(to, from, t, X, fresh)
<1> DEFINE cs == bs \o <<Block(start, entries \o fresh)>>
           ds == bs \o <<Block(start, entries)>>
<1>1. Sound(ds, t, W)
  BY DEF AsGood
<1>2. Records(cs, ds, t, X, fresh)
  BY <1>1, ExtendedRecords
<1> HIDE DEF cs, ds
<1>3. AsGood(ds, from, t, W) /\ (to = cs \/ Reordered(to, cs))
  BY DEF cs, ds
<1>4. Records(cs, from, t, X, fresh)
  BY <1>2, <1>3 DEF Records, AsGood
<1>5. AsGood(to, cs, t, X)
  <2>1. Sound(cs, t, X)
    BY <1>2 DEF Records
  <2>2. CASE to = cs
    BY <2>1, <2>2 DEF AsGood
  <2>3. CASE Reordered(to, cs)
    BY <2>1, <2>3, ReorderedBlocks DEF AsGood
  <2> QED
    BY <2>2, <2>3, <1>3
<1> QED
  BY <1>4, <1>5 DEF Records, AsGood

\* What the invariant says of the blocks.
LEMMA BlocksFacts ==
  ASSUME VpiTypeOK, AtWorkCounted
  PROVE  /\ OnFile(file) /\ OnFile(Blocks)
         /\ grouped => /\ AtWork = <<Block(vcStart, pending)>>
                       /\ Blocks = file \o <<Block(vcStart, pending)>>
         /\ ~grouped /\ vcActive =>
              /\ AtWork = <<block>> /\ Blocks = file \o <<block>> /\ Blocks = Append(file, block)
         /\ ~grouped /\ ~vcActive => AtWork = << >> /\ Blocks = file
         /\ block = Block(block.start, block.entries)
         /\ block.start \in Nat /\ block.entries \in Seq(Changes)
<1>1. OnFile(file)
  BY DEF VpiTypeOK, OnFile
<1>2. block = Block(block.start, block.entries)
      /\ block.start \in Nat /\ block.entries \in Seq(Changes)
  BY DEF VpiTypeOK, Block
<1>3. CASE grouped
  <2>1. AtWork = <<Block(vcStart, pending)>> /\ Blocks = file \o <<Block(vcStart, pending)>>
    BY <1>3 DEF AtWork, Blocks, Block
  <2>2. /\ DOMAIN pending \subseteq Nat /\ \A i \in DOMAIN pending : pending[i] \in Changes
        /\ vcStart \in Nat
    BY DEF VpiTypeOK
  <2>3. OnFile(Blocks)
    BY <1>1, <2>1, <2>2, PlacesAppend DEF Appends
  <2> QED
    BY <1>1, <1>2, <1>3, <2>1, <2>3
<1>4. CASE ~grouped /\ vcActive
  <2>1. AtWork = <<block>> /\ Blocks = file \o <<block>>
    BY <1>4 DEF AtWork, Blocks
  <2> DEFINE st == block.start
             en == block.entries
  <2>2. DOMAIN en \subseteq Nat /\ \A i \in DOMAIN en : en[i] \in Changes
    BY <1>2
  <2> HIDE DEF st, en
  <2>3. Appends(file \o <<Block(st, en)>>, file, Len(file) + 1, st, en)
    BY <1>1, <1>2, <2>2, PlacesAppend DEF st
  <2>4. OnFile(Blocks) /\ Blocks = Append(file, block)
    BY <1>2, <2>1, <2>3 DEF Appends, st, en
  <2> QED
    BY <1>1, <1>2, <1>4, <2>1, <2>4
<1>5. CASE ~grouped /\ ~vcActive
  <2>1. AtWork = << >> /\ Blocks = file \o << >>
    BY <1>5 DEF AtWork, Blocks
  <2>2. Blocks = file
    BY <1>1, <2>1 DEF OnFile
  <2> QED
    BY <1>1, <1>2, <1>5, <2>1, <2>2
<1> QED
  BY <1>3, <1>4, <1>5

LEMMA OnFileTyped ==
  ASSUME NEW bs, OnFile(bs), NEW p \in Places(bs)
  PROVE  p \in Nat \X Nat /\ Change(bs, p) \in Changes
<1>1. PICK k \in DOMAIN bs : \E i \in DOMAIN bs[k].entries : p = <<k, i>>
  BY DEF Places
<1>2. PICK i \in DOMAIN bs[k].entries : p = <<k, i>>
  BY <1>1
<1>3. DOMAIN bs \subseteq Nat
  BY DEF OnFile
<1> QED
  BY <1>2, <1>3 DEF OnFile, Change

\* What is at work is recorded.
LEMMA AtWorkRecorded ==
  ASSUME VpiTypeOK, AtWorkCounted, NEW k \in DOMAIN AtWork, NEW i \in DOMAIN AtWork[k].entries
  PROVE  AtWork[k].entries[i] \in Changes /\ AtWork[k].entries[i] \in Recorded
<1> DEFINE st == AtWork[k].start
           en == AtWork[k].entries
<1>1. k \in {1} /\ st \in Nat /\ en \in Seq(Changes) /\ AtWork = <<AtWork[k]>>
      /\ AtWork[k] = Block(st, en)
  BY DEF VpiTypeOK, AtWork, Block
<1>2. OnFile(file) /\ Blocks = file \o <<Block(st, en)>>
  BY <1>1, BlocksFacts DEF Blocks
<1>3. DOMAIN en \subseteq Nat /\ \A j \in DOMAIN en : en[j] \in Changes
  BY <1>1
<1>4. st \in Nat /\ i \in DOMAIN en
  BY <1>1
<1> HIDE DEF st, en
<1>5. Appends(Blocks, file, Len(file) + 1, st, en)
  BY <1>2, <1>3, <1>4, PlacesAppend
<1>6. <<Len(file) + 1, i>> \in Places(Blocks) /\ Change(Blocks, <<Len(file) + 1, i>>) = en[i]
  BY <1>4, <1>5 DEF Appends
<1> QED
  BY <1>3, <1>4, <1>6 DEF Recorded, en

LEMMA BlocksSound ==
  ASSUME VpiInv
  PROVE  Sound(Blocks, now, synchs) /\ Recorded = Held(Blocks) /\ AsGood(Blocks, Blocks, now, synchs)
<1>1. OnFile(Blocks)
  BY BlocksFacts DEF VpiInv
<1>2. \A p \in Places(Blocks) : p \in Nat \X Nat /\ Change(Blocks, p) \in Changes
  BY <1>1, OnFileTyped
<1>3. \A p \in Places(Blocks) : Change(Blocks, p).time <= now /\ Change(Blocks, p).by <= synchs
  BY DEF VpiInv, NoneAhead, Recorded
<1>4. Sound(Blocks, now, synchs)
  BY <1>2, <1>3 DEF VpiInv, TimesInOrder, RepeatedBySynch, Repeats, Sound, Apart
<1> QED
  BY <1>4 DEF Recorded, Held, AsGood

\* A flush only rearranges.
LEMMA FlushBlocks ==
  ASSUME VpiInv, DoFlush, grouped' = grouped
  PROVE  /\ AsGood(Blocks', Blocks, now, synchs)
         /\ OnFile(file') /\ pending' \in Seq(Changes) /\ vcActive' \in BOOLEAN
         /\ vcStart' \in Nat /\ count' \in Nat /\ block' = block
         /\ (IF grouped THEN ~vcActive' ELSE pending' = << >>)
         /\ count' < FlushInterval
         /\ \A k \in DOMAIN AtWork' : AtWork'[k].entries = << >> /\ AtWork'[k].start <= now
<1> USE DEF VpiInv
<1>1. VpiTypeOK /\ AtWorkCounted /\ Sound(Blocks, now, synchs) /\ AsGood(Blocks, Blocks, now, synchs)
  BY BlocksSound
<1>2. CASE grouped
  <2>1. /\ file' = file \o ScopeBlocks(vcStart, pending) /\ pending' = << >>
        /\ vcActive' = vcActive /\ block' = block /\ vcStart' \in Nat /\ count' \in Nat
        /\ count' < FlushInterval
    <3>1. vcStart \in Nat /\ now \in Nat /\ count \in Nat /\ count < FlushInterval
          /\ 0 < FlushInterval
      BY <1>1, VpiAssumption DEF VpiTypeOK, AtWorkCounted
    <3> QED
      BY <1>2, <3>1 DEF DoFlush
  <2>2. Blocks' = file' \o <<Block(vcStart', << >>)>> /\ AtWork' = <<Block(vcStart', << >>)>>
    BY <1>2, <2>1 DEF Blocks, AtWork, Block
  <2>3. Blocks = file \o <<Block(vcStart, pending)>> /\ OnFile(file)
    BY <1>1, <1>2, BlocksFacts
  <2>4. OnFile(file') /\ Reordered(file', Blocks)
    BY <1>1, <2>1, <2>3, SplitByScope DEF VpiTypeOK
  <2>5. Reordered(Blocks', file')
    BY <2>1, <2>2, <2>4, EmptyBehind
  <2>6. AsGood(file', Blocks, now, synchs)
    BY <1>1, <2>4, ReorderedBlocks DEF AsGood
  <2>7. AsGood(Blocks', file', now, synchs)
    BY <2>5, <2>6, ReorderedBlocks DEF AsGood
  <2>8. AsGood(Blocks', Blocks, now, synchs)
    BY <2>6, <2>7 DEF AsGood
  <2>9. ~vcActive /\ vcActive' \in BOOLEAN
    BY <1>1, <1>2, <2>1 DEF AtWorkCounted, VpiTypeOK
  <2>10. vcStart' <= now
    <3>1. AtWork = <<Block(vcStart, pending)>>
      BY <1>1, <1>2, BlocksFacts
    <3>2. vcStart <= now
      BY <3>1 DEF NoneAhead, Block
    <3>3. now \in Nat
      BY <1>1 DEF VpiTypeOK
    <3> QED
      BY <1>2, <3>2, <3>3 DEF DoFlush
  <2>11. \A k \in DOMAIN AtWork' : AtWork'[k].entries = << >> /\ AtWork'[k].start <= now
    BY <2>2, <2>10 DEF Block
  <2> QED
    BY <1>2, <2>1, <2>4, <2>8, <2>9, <2>11
<1>3. CASE ~grouped
  <2>1. /\ pending' = pending /\ vcStart' = vcStart /\ block' = block
        /\ file' = (IF vcActive THEN Append(file, block) ELSE file)
        /\ vcActive' = FALSE /\ count' \in Nat /\ count' < FlushInterval
    BY <1>1, <1>3, VpiAssumption DEF DoFlush, VpiTypeOK, AtWorkCounted
  <2>2. file' = Blocks /\ OnFile(Blocks)
    BY <1>1, <1>3, <2>1, BlocksFacts
  <2>3. Blocks' = file' \o << >> /\ AtWork' = << >>
    BY <1>3, <2>1 DEF Blocks, AtWork
  <2>4. Blocks' = Blocks
    BY <2>2, <2>3 DEF OnFile
  <2> QED
    <3>1. AsGood(Blocks', Blocks, now, synchs) /\ OnFile(file')
      BY <1>1, <2>2, <2>4
    <3>2. pending \in Seq(Changes) /\ vcStart \in Nat
      BY <1>1 DEF VpiTypeOK
    <3>3. pending = << >>
      BY <1>1, <1>3 DEF AtWorkCounted
    <3>4. \A k \in DOMAIN AtWork' : AtWork'[k].entries = << >> /\ AtWork'[k].start <= now
      BY <2>3
    <3> QED
      BY <1>3, <2>1, <3>1, <3>2, <3>3, <3>4
<1> QED
  BY <1>2, <1>3

\* The changes of samples, as a set, and that they can be written.
LEMMA SamplesWritable ==
  ASSUME VpiTypeOK, NEW S \in SUBSET sigs, NEW by \in Nat
  PROVE  /\ Writable(Samples(S, by), now, by) /\ Len(Samples(S, by)) = Cardinality(S)
         /\ Cardinality(S) \in Nat
         /\ \A i \in 1..Len(Samples(S, by)) :
              /\ Samples(S, by)[i].time = now /\ Samples(S, by)[i].sig \in S
              /\ Samples(S, by)[i].value = value[Samples(S, by)[i].sig]
         /\ \A s \in S : \E i \in 1..Len(Samples(S, by)) : Samples(S, by)[i].sig = s
<1>1. S \in SUBSET Signals /\ now \in Nat /\ value \in [Signals -> Values]
  BY DEF VpiTypeOK
<1> QED
  BY <1>1, SamplesFacts DEF Writable

\* A snapshot rearranges as a flush does and writes the values of all signals in a new block.
LEMMA SnapshotBlocks ==
  ASSUME VpiInv, Snapshot, grouped' = grouped, open, sigs # {}
  PROVE  /\ Records(Blocks', Blocks, now, synchs, Samples(sigs, 0))
         /\ OnFile(file') /\ pending' = << >> /\ vcActive' = FALSE
         /\ vcStart' = now /\ count' = 0 /\ block' \in [start : Nat, entries : Seq(Changes)]
         /\ \A k \in DOMAIN AtWork' : AtWork'[k].entries = << >> /\ AtWork'[k].start <= now
<1> USE DEF VpiInv
<1>1. VpiTypeOK /\ AtWorkCounted /\ Sound(Blocks, now, synchs) /\ AsGood(Blocks, Blocks, now, synchs)
  BY BlocksSound
<1>2. /\ now \in Nat /\ synchs \in Nat /\ vcStart \in Nat /\ pending \in Seq(Changes)
      /\ block \in [start : Nat, entries : Seq(Changes)]
  BY <1>1 DEF VpiTypeOK
<1> DEFINE fresh == Samples(sigs, 0)
           none  == << >>
<1>3. Writable(fresh, now, 0) /\ fresh \in Seq(Changes) /\ 0 <= synchs /\ synchs <= synchs
  <2>1. Writable(fresh, now, 0)
    BY <1>1, SamplesWritable
  <2> QED
    BY <1>2, <2>1 DEF Writable
<1>4. none \in Seq(Changes) /\ none \o fresh = fresh /\ DOMAIN none = {}
  BY <1>3
<1>5. pending' = << >> /\ vcActive' = FALSE /\ vcStart' = now /\ count' = 0
  BY DEF Snapshot
<1> HIDE DEF fresh, none
<1>6. CASE grouped
  <2> DEFINE F == file \o ScopeBlocks(vcStart, pending)
  <2>1. file' = F \o ScopeBlocks(now, fresh) /\ block' = block
    BY <1>6 DEF Snapshot, fresh
  <2>2. Blocks = file \o <<Block(vcStart, pending)>> /\ OnFile(file)
    BY <1>1, <1>6, BlocksFacts
  <2>3. OnFile(F) /\ Reordered(F, Blocks)
    BY <1>2, <2>2, SplitByScope
  <2>4. AsGood(F, Blocks, now, synchs)
    BY <1>1, <2>3, ReorderedBlocks DEF AsGood
  <2> HIDE DEF F
  <2>5. Reordered(F \o <<Block(now, none)>>, F)
    BY <1>2, <2>3, EmptyBehind DEF none
  <2>6. AsGood(F \o <<Block(now, none)>>, Blocks, now, synchs)
    BY <2>4, <2>5, ReorderedBlocks DEF AsGood
  <2>7. OnFile(file') /\ Reordered(file', F \o <<Block(now, none \o fresh)>>)
    BY <1>2, <1>3, <1>4, <2>1, <2>3, SplitByScope
  <2>8. now <= now
    BY <1>2
  <2>9. Records(file', Blocks, now, synchs, fresh)
    BY <1>2, <1>3, <1>4, <2>3, <2>6, <2>7, <2>8, WrittenRecords
  <2>10. /\ Blocks' = file' \o <<Block(now, << >>)>> /\ AtWork' = <<Block(now, << >>)>>
    BY <1>5, <1>6 DEF Blocks, AtWork, Block
  <2>11. Reordered(Blocks', file')
    BY <1>2, <2>7, <2>10, EmptyBehind
  <2>12. Records(Blocks', Blocks, now, synchs, fresh)
    BY <2>9, <2>11, ReorderedBlocks DEF Records
  <2>13. \A k \in DOMAIN AtWork' : AtWork'[k].entries = << >> /\ AtWork'[k].start <= now
    BY <2>8, <2>10 DEF Block
  <2> QED
    BY <1>2, <1>5, <2>1, <2>7, <2>12, <2>13 DEF fresh
<1>7. CASE ~grouped
  <2> DEFINE F == IF vcActive THEN Append(file, block) ELSE file
  <2>1. block' = Block(now, fresh) /\ file' = F \o <<block'>>
    BY <1>7 DEF Snapshot, Block, fresh
  <2>2. F = Blocks /\ OnFile(F)
    BY <1>1, <1>7, BlocksFacts
  <2> HIDE DEF F
  <2>3. Reordered(F \o <<Block(now, none)>>, F)
    BY <1>2, <2>2, EmptyBehind DEF none
  <2>4. AsGood(F \o <<Block(now, none)>>, Blocks, now, synchs)
    BY <1>1, <2>2, <2>3, ReorderedBlocks DEF AsGood
  <2>5. file' = F \o <<Block(now, none \o fresh)>>
    BY <1>4, <2>1
  <2>6. now <= now
    BY <1>2
  <2>7. Records(file', Blocks, now, synchs, fresh)
    BY <1>2, <1>3, <1>4, <2>2, <2>4, <2>5, <2>6, WrittenRecords
  <2>8. OnFile(file')
    <3>1. DOMAIN fresh \subseteq Nat /\ \A i \in DOMAIN fresh : fresh[i] \in Changes
      BY <1>3
    <3> QED
      BY <1>2, <1>4, <2>2, <2>5, <3>1, PlacesAppend DEF Appends
  <2>9. Blocks' = file' \o << >> /\ AtWork' = << >>
    BY <1>5, <1>7 DEF Blocks, AtWork
  <2>10. Blocks' = file'
    BY <2>8, <2>9 DEF OnFile
  <2>11. block' \in [start : Nat, entries : Seq(Changes)]
    BY <1>2, <1>3, <2>1 DEF Block
  <2>12. \A k \in DOMAIN AtWork' : AtWork'[k].entries = << >> /\ AtWork'[k].start <= now
    BY <2>9
  <2> QED
    BY <1>5, <2>7, <2>8, <2>10, <2>11, <2>12 DEF fresh
<1> QED
  BY <1>6, <1>7

\* What the callback of synchronisation point n + 1 wrote, behind what earlier ones did.
LEMMA JoinedBySynch ==
  ASSUME NEW old \in Seq(Changes), NEW fresh \in Seq(Changes), NEW n \in Nat,
         \A i \in DOMAIN old : Apart(old[i].by, n + 1),
         \A i \in 1..Len(fresh) : fresh[i].by = n + 1
  PROVE  \A i \in DOMAIN (old \o fresh) : (old \o fresh)[i].by # 0
<1> SUFFICES ASSUME NEW i \in DOMAIN (old \o fresh) PROVE (old \o fresh)[i].by # 0
  OBVIOUS
<1>1. CASE i \in DOMAIN old
  BY <1>1 DEF Apart
<1>2. CASE i \notin DOMAIN old
  <2>1. i - Len(old) \in 1..Len(fresh) /\ (old \o fresh)[i] = fresh[i - Len(old)]
    BY <1>2
  <2> QED
    BY <2>1
<1> QED
  BY <1>1, <1>2

\* The callback writes the values of the marked signals behind what is at work, and may flush.
LEMMA DrainBlocks ==
  ASSUME VpiInv, Drain, synchs' = synchs + 1, grouped' = grouped
  PROVE  /\ Records(Blocks', Blocks, now, synchs', Samples(marks, synchs + 1))
         /\ OnFile(file') /\ pending' \in Seq(Changes) /\ vcActive' \in BOOLEAN
         /\ vcStart' \in Nat /\ count' \in Nat
         /\ block' \in [start : Nat, entries : Seq(Changes)]
         /\ (IF grouped THEN ~vcActive' ELSE pending' = << >>)
         /\ count' < FlushInterval
         /\ \A k \in DOMAIN AtWork' : Len(AtWork'[k].entries) <= count' /\ AtWork'[k].start <= now
         /\ AtWorkBySynch'
<1> USE DEF VpiInv
<1>1. VpiTypeOK /\ AtWorkCounted /\ Sound(Blocks, now, synchs) /\ AsGood(Blocks, Blocks, now, synchs)
  BY BlocksSound
<1>2. /\ now \in Nat /\ synchs \in Nat /\ vcStart \in Nat /\ pending \in Seq(Changes)
      /\ count \in Nat
      /\ block \in [start : Nat, entries : Seq(Changes)]
  BY <1>1 DEF VpiTypeOK
<1> DEFINE fresh == Samples(marks, synchs + 1)
           none  == << >>
           n     == count + Len(fresh)
           stop  == ~Due(n) /\ LimitReached(n)
           flush == Due(n) \/ stop
<1>3. /\ Writable(fresh, now, synchs + 1) /\ fresh \in Seq(Changes) /\ Len(fresh) \in Nat
      /\ \A i \in 1..Len(fresh) : fresh[i].by = synchs + 1
  <2>1. synchs + 1 \in Nat /\ marks \in SUBSET sigs
    BY <1>1, <1>2 DEF VpiTypeOK
  <2>2. Writable(fresh, now, synchs + 1)
    BY <1>1, <2>1, SamplesWritable
  <2> QED
    BY <2>2 DEF Writable
<1>4. none \in Seq(Changes) /\ none \o fresh = fresh /\ DOMAIN none = {} /\ Len(none) = 0
  BY <1>3
<1>5. n \in Nat /\ FlushInterval \in Nat /\ 0 < FlushInterval /\ (~flush => n < FlushInterval)
  BY <1>2, <1>3, VpiAssumption DEF Due
<1>6. synchs' \in Nat /\ synchs <= synchs' /\ synchs + 1 <= synchs'
  BY <1>2
<1>7. count' = (IF flush THEN 0 ELSE n)
  BY DEF Drain
<1>8. count' \in Nat /\ count' < FlushInterval
  BY <1>5, <1>7
<1>9. \A k \in DOMAIN AtWork : \A i \in DOMAIN AtWork[k].entries :
        Apart(AtWork[k].entries[i].by, synchs + 1)
  <2> SUFFICES ASSUME NEW k \in DOMAIN AtWork, NEW i \in DOMAIN AtWork[k].entries
               PROVE  Apart(AtWork[k].entries[i].by, synchs + 1)
    OBVIOUS
  <2>1. AtWork[k].entries[i] \in Changes /\ AtWork[k].entries[i] \in Recorded
    BY <1>1, AtWorkRecorded
  <2>2. AtWork[k].entries[i].by <= synchs /\ AtWork[k].entries[i].by \in Nat
    BY <2>1 DEF NoneAhead, Changes
  <2>3. AtWork[k].entries[i].by # 0
    BY DEF AtWorkBySynch
  <2> QED
    BY <1>2, <2>2, <2>3 DEF Apart
<1>10. CASE grouped
  <2> DEFINE start == IF pending = << >> THEN now ELSE vcStart
             cs    == file \o <<Block(start, pending \o fresh)>>
  <2>1. /\ pending' = (IF flush THEN << >> ELSE pending \o fresh)
        /\ file' = (IF flush THEN file \o ScopeBlocks(start, pending \o fresh) ELSE file)
        /\ vcStart' = (IF flush THEN now ELSE start)
        /\ vcActive' = vcActive /\ block' = block
    BY <1>10 DEF Drain
  <2>2. /\ AtWork = <<Block(vcStart, pending)>>
        /\ Blocks = file \o <<Block(vcStart, pending)>> /\ OnFile(file)
    BY <1>1, <1>10, BlocksFacts
  <2>3. start \in Nat /\ pending \o fresh \in Seq(Changes)
        /\ Len(pending \o fresh) = Len(pending) + Len(fresh) /\ Len(pending) \in Nat
    BY <1>2, <1>3
  <2>4. AsGood(file \o <<Block(start, pending)>>, Blocks, now, synchs)
    <3>1. CASE pending = << >>
      <4>1. Reordered(file \o <<Block(start, << >>)>>, file \o <<Block(vcStart, << >>)>>)
        BY <1>2, <2>2, <2>3, EmptyBehind
      <4> QED
        BY <1>1, <2>2, <3>1, <4>1, ReorderedBlocks DEF AsGood
    <3>2. CASE pending # << >>
      BY <1>1, <2>2, <3>2
    <3> QED
      BY <3>1, <3>2
  <2>5. start <= now
    BY <1>2, <2>2 DEF NoneAhead, Block
  <2>6. \A i \in DOMAIN pending : Apart(pending[i].by, synchs + 1)
    <3>1. AtWork[1].entries = pending /\ 1 \in DOMAIN AtWork
      BY <2>2 DEF Block
    <3> QED
      BY <3>1, <1>9
  <2> HIDE DEF start, fresh, flush, n
  <2>7. CASE flush
    <3>1. OnFile(file') /\ Reordered(file', cs)
      BY <2>1, <2>2, <2>3, <2>7, SplitByScope
    <3>2. Records(file', Blocks, now, synchs', fresh)
      BY <1>2, <1>3, <1>6, <2>2, <2>3, <2>4, <2>5, <2>6, <3>1, WrittenRecords
    <3>3. Blocks' = file' \o <<Block(now, << >>)>> /\ AtWork' = <<Block(now, << >>)>>
      BY <1>10, <2>1, <2>7 DEF Blocks, AtWork, Block
    <3>4. Reordered(Blocks', file')
      BY <1>2, <3>1, <3>3, EmptyBehind
    <3>5. Records(Blocks', Blocks, now, synchs', fresh)
      BY <3>2, <3>4, ReorderedBlocks DEF Records
    <3>6. \A k \in DOMAIN AtWork' : AtWork'[k].entries = << >> /\ AtWork'[k].start <= now
      BY <1>2, <3>3 DEF Block
    <3>7. vcActive' = FALSE
      BY <1>1, <1>10, <2>1 DEF AtWorkCounted, VpiTypeOK
    <3>8. pending' = << >> /\ vcStart' = now /\ block' = block
      BY <2>1, <2>7
    <3>9. pending' \in Seq(Changes)
      BY <3>8
    <3>10. \A k \in DOMAIN AtWork' : Len(AtWork'[k].entries) <= count' /\ AtWork'[k].start <= now
      BY <1>4, <1>8, <3>6 DEF none
    <3>11. AtWorkBySynch'
      BY <3>6 DEF AtWorkBySynch
    <3> QED
      BY <1>2, <1>8, <1>10, <3>1, <3>5, <3>7, <3>8, <3>9, <3>10, <3>11 DEF fresh
  <2>8. CASE ~flush
    <3>1. file' = file /\ pending' = pending \o fresh /\ vcStart' = start
          /\ block' = block /\ count' = n
      BY <1>7, <2>1, <2>8
    <3>2. Blocks' = file \o <<Block(start, pending \o fresh)>>
          /\ AtWork' = <<Block(start, pending \o fresh)>>
      BY <1>10, <3>1 DEF Blocks, AtWork, Block
    <3>3. Records(Blocks', Blocks, now, synchs', fresh)
      BY <1>2, <1>3, <1>6, <2>2, <2>3, <2>4, <2>5, <2>6, <3>2, WrittenRecords
    <3>4. Len(pending) <= count
      <4>1. AtWork[1].entries = pending /\ 1 \in DOMAIN AtWork
        BY <2>2 DEF Block
      <4> QED
        BY <4>1, <1>1 DEF AtWorkCounted
    <3>5. Len(pending \o fresh) <= n
      BY <1>2, <1>3, <2>3, <3>4 DEF n
    <3>6. \A k \in DOMAIN AtWork' : AtWork'[k].entries = pending \o fresh /\ AtWork'[k].start <= now
      BY <2>5, <3>2 DEF Block
    <3>7. vcActive' = FALSE
      BY <1>1, <1>10, <2>1 DEF AtWorkCounted, VpiTypeOK
    <3>8. \A k \in DOMAIN AtWork' : Len(AtWork'[k].entries) <= count' /\ AtWork'[k].start <= now
      BY <3>1, <3>5, <3>6
    <3>9. OnFile(file') /\ pending' \in Seq(Changes) /\ vcStart' \in Nat
      BY <2>2, <2>3, <3>1
    <3>10. AtWorkBySynch'
      <4>1. \A i \in DOMAIN (pending \o fresh) : (pending \o fresh)[i].by # 0
        BY <1>2, <1>3, <2>6, JoinedBySynch
      <4> QED
        BY <3>6, <4>1 DEF AtWorkBySynch
    <3> QED
      BY <1>2, <1>8, <1>10, <3>1, <3>3, <3>7, <3>8, <3>9, <3>10 DEF fresh
  <2> QED
    BY <2>7, <2>8
<1>11. CASE ~grouped
  <2> DEFINE start == IF vcActive THEN block.start ELSE now
             old   == IF vcActive THEN block.entries ELSE << >>
             cs    == file \o <<Block(start, old \o fresh)>>
  <2>1. /\ block' = Block(start, old \o fresh) /\ vcActive' = ~flush /\ pending' = pending
        /\ file' = (IF flush THEN Append(file, block') ELSE file)
        /\ vcStart' = (IF vcActive THEN vcStart ELSE now)
    <3>1. block' = (IF vcActive THEN [block EXCEPT !.entries = @ \o fresh]
                    ELSE [start |-> now, entries |-> fresh])
      BY <1>11 DEF Drain
    <3>2. block' = Block(start, old \o fresh)
      BY <1>2, <1>4, <3>1 DEF Block
    <3> QED
      BY <1>11, <3>1, <3>2 DEF Drain
  <2>2. /\ OnFile(file)
        /\ vcActive => /\ AtWork = <<block>> /\ Blocks = file \o <<Block(start, old)>>
                       /\ block = Block(start, old)
        /\ ~vcActive => AtWork = << >> /\ Blocks = file
    BY <1>1, <1>11, BlocksFacts
  <2>3. start \in Nat /\ old \in Seq(Changes) /\ old \o fresh \in Seq(Changes)
        /\ Len(old \o fresh) = Len(old) + Len(fresh) /\ Len(old) \in Nat
    BY <1>2, <1>3
  <2>4. AsGood(file \o <<Block(start, old)>>, Blocks, now, synchs)
    <3>1. CASE vcActive
      BY <1>1, <2>2, <3>1
    <3>2. CASE ~vcActive
      <4>1. Reordered(file \o <<Block(start, << >>)>>, file) /\ old = << >>
        BY <2>2, <2>3, <3>2, EmptyBehind
      <4>2. Blocks = file
        BY <2>2, <3>2
      <4> HIDE DEF start, old
      <4> QED
        BY <1>1, <4>1, <4>2, ReorderedBlocks DEF AsGood
    <3> QED
      BY <3>1, <3>2
  <2>5. start <= now
    BY <1>2, <2>2 DEF NoneAhead, Block
  <2>6. \A i \in DOMAIN old : Apart(old[i].by, synchs + 1)
    <3>1. vcActive => AtWork[1].entries = old /\ 1 \in DOMAIN AtWork
      BY <2>2 DEF Block
    <3> QED
      BY <3>1, <1>9
  <2>7. pending = << >>
    BY <1>1, <1>11 DEF AtWorkCounted
  <2>8. Len(old) <= count
    <3>1. CASE vcActive
      BY <1>1, <2>2, <3>1 DEF AtWorkCounted, Block
    <3>2. CASE ~vcActive
      BY <1>2, <1>4, <3>2 DEF none
    <3> QED
      BY <3>1, <3>2
  <2>9. block' \in [start : Nat, entries : Seq(Changes)] /\ pending' = << >>
        /\ pending' \in Seq(Changes) /\ vcStart' \in Nat /\ vcActive' \in BOOLEAN
    BY <1>2, <2>1, <2>3, <2>7 DEF Block
  <2>10. OnFile(cs) /\ cs = Append(file, block')
    <3> HIDE DEF start, old, fresh
    <3>1. DOMAIN (old \o fresh) \subseteq Nat /\ \A i \in DOMAIN (old \o fresh) : (old \o fresh)[i] \in Changes
      BY <2>3
    <3>2. Appends(cs, file, Len(file) + 1, start, old \o fresh)
      BY <2>2, <2>3, <3>1, PlacesAppend
    <3> QED
      BY <2>1, <3>2 DEF Appends
  <2>11. Blocks' = cs
    <3>1. CASE flush
      <4>1. file' = cs /\ Blocks' = file' \o << >>
        BY <1>11, <2>1, <2>10, <3>1 DEF Blocks, AtWork
      <4> QED
        BY <2>10, <4>1 DEF OnFile
    <3>2. CASE ~flush
      BY <1>11, <2>1, <3>2 DEF Blocks, AtWork
    <3> QED
      BY <3>1, <3>2
  <2>12. OnFile(file')
    BY <2>1, <2>2, <2>10
  <2>13. \A k \in DOMAIN AtWork' : Len(AtWork'[k].entries) <= count' /\ AtWork'[k].start <= now
    <3>1. CASE flush
      <4>1. AtWork' = << >>
        BY <1>11, <2>1, <3>1 DEF AtWork
      <4>2. DOMAIN AtWork' = {}
        BY <4>1
      <4> QED
        BY <4>2
    <3>2. CASE ~flush
      <4>1. AtWork' = <<Block(start, old \o fresh)>> /\ count' = count + Len(fresh)
        BY <1>7, <1>11, <2>1, <3>2 DEF AtWork
      <4> HIDE DEF start, old, fresh
      <4>2. Len(old \o fresh) <= count'
        BY <1>2, <1>3, <2>3, <2>8, <4>1
      <4>3. \A k \in DOMAIN AtWork' : AtWork'[k].entries = old \o fresh /\ AtWork'[k].start = start
        BY <4>1 DEF Block
      <4> QED
        BY <2>5, <4>2, <4>3
    <3> QED
      BY <3>1, <3>2
  <2>15. AtWorkBySynch'
    <3>1. CASE flush
      <4>1. AtWork' = << >>
        BY <1>11, <2>1, <3>1 DEF AtWork
      <4> QED
        BY <4>1 DEF AtWorkBySynch
    <3>2. CASE ~flush
      <4>1. AtWork' = <<Block(start, old \o fresh)>>
        BY <1>11, <2>1, <3>2 DEF AtWork
      <4> HIDE DEF start, old, fresh
      <4>2. \A i \in DOMAIN (old \o fresh) : (old \o fresh)[i].by # 0
        BY <1>2, <1>3, <2>3, <2>6, JoinedBySynch
      <4>3. \A k \in DOMAIN AtWork' : AtWork'[k].entries = old \o fresh
        BY <4>1 DEF Block
      <4> QED
        BY <4>2, <4>3 DEF AtWorkBySynch
    <3> QED
      BY <3>1, <3>2
  <2> HIDE DEF start, old, fresh, cs
  <2>14. Records(Blocks', Blocks, now, synchs', fresh)
    BY <1>2, <1>3, <1>6, <2>2, <2>3, <2>4, <2>5, <2>6, <2>11, WrittenRecords DEF cs
  <2> QED
    BY <1>8, <1>11, <2>9, <2>12, <2>13, <2>14, <2>15 DEF fresh
<1> QED
  BY <1>10, <1>11

\* Some of the places of sound blocks are sound blocks.
LEMMA FewerPlaces ==
  ASSUME NEW bs, NEW cs, NEW t, NEW W, Sound(bs, t, W), Places(cs) \subseteq Places(bs),
         \A p \in Places(cs) : Change(cs, p) = Change(bs, p) /\ cs[p[1]].start = bs[p[1]].start
  PROVE  Sound(cs, t, W)
BY DEF Sound

\* At the end the file gets what was at work; without a file it is dropped.
LEMMA EndBlocks ==
  ASSUME VpiInv, EndOfSimulation
  PROVE  /\ Sound(Blocks', now, synchs) /\ OnFile(file')
         /\ open => Held(Blocks') = Held(Blocks)
         /\ \A k \in DOMAIN AtWork' : AtWork'[k].entries = << >> /\ AtWork'[k].start = 0
<1> USE DEF VpiInv
<1>1. VpiTypeOK /\ AtWorkCounted /\ Sound(Blocks, now, synchs) /\ AsGood(Blocks, Blocks, now, synchs)
  BY BlocksSound
<1>2. vcStart \in Nat /\ pending \in Seq(Changes)
  BY <1>1 DEF VpiTypeOK
<1>3. /\ vcActive' = FALSE /\ vcStart' = 0 /\ pending' = << >> /\ grouped' = grouped
      /\ file' = IF ~open THEN file
                 ELSE IF grouped THEN file \o ScopeBlocks(vcStart, pending)
                 ELSE IF vcActive THEN Append(file, block) ELSE file
  BY DEF EndOfSimulation, Zeroed
<1>4. /\ grouped => AtWork' = <<Block(0, << >>)>> /\ Blocks' = file' \o <<Block(0, << >>)>>
      /\ ~grouped => AtWork' = << >> /\ Blocks' = file' \o << >>
  BY <1>3 DEF AtWork, Blocks, Block
<1>5. OnFile(file) /\ (~grouped => file = Blocks \/ Blocks = Append(file, block))
  BY <1>1, BlocksFacts
<1>6. OnFile(file') /\ Sound(file', now, synchs) /\ (open => Held(file') = Held(Blocks))
  <2>1. CASE ~open
    <3>1. Sound(file, now, synchs)
      <4>1. CASE grouped
        <5>1. DOMAIN pending \subseteq Nat /\ \A i \in DOMAIN pending : pending[i] \in Changes
          BY <1>2
        <5>2. Blocks = file \o <<Block(vcStart, pending)>>
          BY <1>1, <4>1, BlocksFacts
        <5>3. Appends(Blocks, file, Len(file) + 1, vcStart, pending)
          BY <1>2, <1>5, <5>1, <5>2, PlacesAppend
        <5> QED
          BY <1>1, <5>3, FewerPlaces DEF Appends
      <4>2. CASE ~grouped /\ vcActive
        <5> DEFINE st == block.start
                   en == block.entries
        <5>1. st \in Nat /\ en \in Seq(Changes) /\ Blocks = file \o <<Block(st, en)>>
          BY <1>1, <4>2, BlocksFacts
        <5>2. DOMAIN en \subseteq Nat /\ \A i \in DOMAIN en : en[i] \in Changes
          BY <5>1
        <5> HIDE DEF st, en
        <5>3. Appends(Blocks, file, Len(file) + 1, st, en)
          BY <1>5, <5>1, <5>2, PlacesAppend
        <5> QED
          BY <1>1, <5>3, FewerPlaces DEF Appends
      <4>3. CASE ~grouped /\ ~vcActive
        BY <1>1, <4>3, BlocksFacts
      <4> QED
        BY <4>1, <4>2, <4>3
    <3> QED
      BY <1>3, <1>5, <2>1, <3>1
  <2>2. CASE open /\ grouped
    <3>1. Blocks = file \o <<Block(vcStart, pending)>>
      BY <1>1, <2>2, BlocksFacts
    <3>2. OnFile(file') /\ Reordered(file', Blocks)
      BY <1>2, <1>3, <1>5, <2>2, <3>1, SplitByScope
    <3> QED
      BY <1>1, <3>2, ReorderedBlocks
  <2>3. CASE open /\ ~grouped
    <3>1. file' = Blocks /\ OnFile(Blocks)
      BY <1>1, <1>3, <2>3, BlocksFacts
    <3> QED
      BY <1>1, <3>1
  <2> QED
    BY <2>1, <2>2, <2>3
<1>7. CASE grouped
  <2>1. Reordered(Blocks', file')
    BY <1>4, <1>6, <1>7, EmptyBehind
  <2>2. Sound(Blocks', now, synchs) /\ Held(Blocks') = Held(file')
    BY <1>6, <2>1, ReorderedBlocks
  <2>3. \A k \in DOMAIN AtWork' : AtWork'[k].entries = << >> /\ AtWork'[k].start = 0
    BY <1>4, <1>7 DEF Block
  <2> QED
    BY <1>6, <2>2, <2>3
<1>8. CASE ~grouped
  <2>1. Blocks' = file'
    BY <1>4, <1>6, <1>8 DEF OnFile
  <2>2. DOMAIN AtWork' = {}
    BY <1>4, <1>8
  <2> QED
    BY <1>6, <2>1, <2>2
<1> QED
  BY <1>7, <1>8

\* With another file, what is left of the blocks are the changes pending.
LEMMA DumpFileBlocks ==
  ASSUME VpiInv, NEW ok \in BOOLEAN, DumpFile(ok)
  PROVE  /\ Sound(Blocks', now, synchs) /\ OnFile(file')
         /\ Held(Blocks') \subseteq Held(Blocks)
         /\ \A e \in Held(Blocks') : \A v :
              LastPlace(Blocks, e.sig, v) => LastPlace(Blocks', e.sig, v)
         /\ \A k \in DOMAIN AtWork' : /\ AtWork'[k].entries = << >> \/ AtWork' = AtWork
                                      /\ AtWork'[k].start <= now
<1> USE DEF VpiInv
<1>1. VpiTypeOK /\ AtWorkCounted /\ Sound(Blocks, now, synchs)
  BY BlocksSound
<1>2. vcStart \in Nat /\ pending \in Seq(Changes) /\ now \in Nat
  BY <1>1 DEF VpiTypeOK
<1>3. /\ file' = << >> /\ block' = Block(0, << >>) /\ vcActive' = vcActive /\ vcStart' = vcStart
      /\ pending' = pending /\ grouped' = grouped
  BY DEF DumpFile, Task, EmptyBlock, Block
<1>4. OnFile(<< >>) /\ Places(<< >>) = {} /\ Len(<< >>) = 0
  BY DEF OnFile, Places
<1>5. CASE grouped
  <2> DEFINE none == << >>
             cs   == none \o <<Block(vcStart, pending)>>
  <2>1. Blocks' = cs /\ AtWork' = AtWork
    BY <1>3, <1>5 DEF Blocks, AtWork, Block
  <2>2. Blocks = file \o <<Block(vcStart, pending)>> /\ OnFile(file)
        /\ AtWork = <<Block(vcStart, pending)>>
    BY <1>1, <1>5, BlocksFacts
  <2>3. DOMAIN pending \subseteq Nat /\ \A i \in DOMAIN pending : pending[i] \in Changes
    BY <1>2
  <2> DEFINE n == Len(file) + 1
  <2>4. Appends(Blocks, file, n, vcStart, pending)
    BY <1>2, <2>2, <2>3, PlacesAppend
  <2> HIDE DEF none
  <2>5. Appends(cs, none, Len(none) + 1, vcStart, pending)
    BY <1>2, <1>4, <2>3, PlacesAppend DEF none
  <2> HIDE DEF cs, n
  <2>6. /\ Places(cs) = {<<1, i>> : i \in DOMAIN pending}
        /\ \A i \in DOMAIN pending : Change(cs, <<1, i>>) = pending[i]
        /\ cs[1].start = vcStart
    BY <1>4, <2>5 DEF Appends, none, Block
  <2>7. /\ \A i \in DOMAIN pending : /\ <<n, i>> \in Places(Blocks)
                                     /\ Change(Blocks, <<n, i>>) = pending[i]
        /\ Blocks[n].start = vcStart /\ n \in Nat
        /\ Places(Blocks) = Places(file) \cup {<<n, i>> : i \in DOMAIN pending}
        /\ \A p \in Places(file) : p[1] < n
    <3>1. /\ \A i \in DOMAIN pending : Change(Blocks, <<n, i>>) = pending[i]
          /\ Blocks[n] = Block(vcStart, pending) /\ n \in Nat
          /\ Places(Blocks) = Places(file) \cup {<<n, i>> : i \in DOMAIN pending}
          /\ \A p \in Places(file) : p[1] < n
      BY <2>4 DEF Appends
    <3>2. Blocks[n].start = vcStart
      BY <3>1 DEF Block
    <3>3. \A i \in DOMAIN pending : <<n, i>> \in Places(Blocks)
      BY <3>1
    <3> QED
      BY <3>1, <3>2, <3>3
  <2> DEFINE g == [p \in Places(cs) |-> <<n, p[2]>>]
  <2>8. ASSUME NEW p \in Places(cs)
        PROVE  \E i \in DOMAIN pending : /\ p = <<1, i>> /\ p[1] = 1 /\ p[2] = i /\ i \in Nat
                                         /\ g[p] = <<n, i>> /\ g[p][1] = n /\ g[p][2] = i
    <3>1. PICK i \in DOMAIN pending : p = <<1, i>>
      BY <2>6
    <3>2. p[2] = i /\ g[p] = <<n, i>>
      BY <3>1
    <3> HIDE DEF g
    <3> QED
      BY <2>3, <3>1, <3>2
  <2>9. g \in [Places(cs) -> Places(Blocks)]
    BY <2>7, <2>8
  <2> HIDE DEF g
  <2>10. Rearranges(g, cs, Blocks)
    <3>1. ASSUME NEW p \in Places(cs)
          PROVE  p \in Nat \X Nat /\ Change(cs, p) = Change(Blocks, g[p])
                 /\ cs[p[1]].start = Blocks[g[p][1]].start
      BY <2>6, <2>7, <2>8
    <3>2. ASSUME NEW p \in Places(cs), NEW q \in Places(cs)
          PROVE  g[p][1] = g[q][1] /\ (Before(p, q) => Before(g[p], g[q]))
      BY <2>7, <2>8 DEF Before
    <3> QED
      BY <2>9, <3>1, <3>2 DEF Rearranges
  <2>11. KeepsLater(g, cs, Blocks)
    <3> SUFFICES ASSUME NEW p \in Places(cs), NEW q \in Places(Blocks), Before(g[p], q)
                 PROVE  \E r \in Places(cs) : g[r] = q
      BY DEF KeepsLater
    <3>1. q \notin Places(file)
      <4>1. g[p][1] = n
        BY <2>8
      <4>2. q \in Nat \X Nat
        BY <1>1 DEF Sound
      <4> QED
        BY <2>7, <4>1, <4>2 DEF Before
    <3>2. PICK i \in DOMAIN pending : q = <<n, i>>
      BY <2>7, <3>1
    <3>3. <<1, i>> \in Places(cs)
      BY <2>6
    <3>4. g[<<1, i>>] = <<n, i>>
      BY <3>3, <2>8
    <3> QED
      BY <3>2, <3>3, <3>4
  <2>12. Sound(cs, now, synchs)
    BY <1>1, <2>10, RearrangedSound
  <2>13. ASSUME NEW e \in Held(cs)
         PROVE  e \in Held(Blocks) /\ \A v : LastPlace(Blocks, e.sig, v) => LastPlace(cs, e.sig, v)
    <3>1. PICK p \in Places(cs) : e = Change(cs, p)
      BY DEF Held
    <3>2. e \in Held(Blocks)
      BY <2>10, <3>1 DEF Rearranges, Held
    <3>3. ASSUME NEW v, LastPlace(Blocks, e.sig, v) PROVE LastPlace(cs, e.sig, v)
      BY <1>1, <2>10, <2>11, <3>1, <3>3, RearrangedLast
    <3> QED
      BY <3>2, <3>3
  <2>14. \A k \in DOMAIN AtWork' : AtWork' = AtWork /\ AtWork'[k].start <= now
    BY <2>1 DEF NoneAhead
  <2> QED
    BY <1>3, <1>4, <2>1, <2>12, <2>13, <2>14
<1>6. CASE ~grouped
  <2>1. /\ vcActive => AtWork' = <<Block(0, << >>)>> /\ Blocks' = << >> \o <<Block(0, << >>)>>
        /\ ~vcActive => AtWork' = << >> /\ Blocks' = << >> \o << >>
    BY <1>3, <1>6 DEF AtWork, Blocks
  <2>2. Places(Blocks') = {}
    <3>1. CASE vcActive
      <4>1. Blocks' = <<Block(0, << >>)>>
        BY <2>1, <3>1
      <4> QED
        BY <4>1 DEF Places, Block
    <3>2. CASE ~vcActive
      <4>1. Blocks' = << >>
        BY <2>1, <3>2
      <4> QED
        BY <4>1, <1>4
    <3> QED
      BY <3>1, <3>2
  <2>3. Sound(Blocks', now, synchs)
    BY <2>2 DEF Sound
  <2>4. Held(Blocks') = {}
    BY <2>2 DEF Held
  <2>5. \A k \in DOMAIN AtWork' : AtWork'[k].entries = << >> /\ AtWork'[k].start <= now
    <3>1. CASE vcActive
      BY <1>2, <2>1, <3>1 DEF Block
    <3>2. CASE ~vcActive
      <4>1. DOMAIN AtWork' = {}
        BY <2>1, <3>2
      <4> QED
        BY <4>1
    <3> QED
      BY <3>1, <3>2
  <2> QED
    BY <1>3, <1>4, <2>3, <2>4, <2>5
<1> QED
  BY <1>5, <1>6

-----------------------------------------------------------------------------
(* The invariant, action by action *)

\* What is to be shown of the state after a step.
LEMMA Assembled ==
  ASSUME VpiTypeOK', Sound(Blocks', now', synchs'), MarkedIsScheduled',
         \A k \in DOMAIN AtWork' : AtWork'[k].start <= now',
         AtWorkBySynch', LastAtPlace', AtWorkCounted', RecordedOfSigs'
  PROVE  VpiInv'
<1>1. TimesInOrder' /\ RepeatedBySynch'
  BY DEF TimesInOrder, RepeatedBySynch, Repeats, Sound, Apart
<1>2. NoneAhead'
  <2>1. \A e \in Recorded' : e.time <= now' /\ e.by <= synchs'
    BY DEF Sound, Recorded
  <2> QED
    BY <2>1 DEF NoneAhead
<1> QED
  BY <1>1, <1>2 DEF VpiInv

\* A step that leaves the blocks alone.
LEMMA BlocksAlone ==
  ASSUME UNCHANGED <<blockVars, grouped>>
  PROVE  Blocks' = Blocks /\ AtWork' = AtWork /\ Recorded' = Recorded
<1>1. AtWork' = AtWork
  BY DEF AtWork, blockVars
<1>2. Blocks' = Blocks
  BY <1>1 DEF Blocks, blockVars
<1> QED
  BY <1>1, <1>2 DEF Recorded

LEMMA AssignStep ==
  ASSUME VpiInv, NEW s \in Signals, NEW v \in Values, Assign(s, v)
  PROVE  VpiInv' /\ Recorded' = Recorded
<1>1. Blocks' = Blocks /\ AtWork' = AtWork /\ Recorded' = Recorded
  BY BlocksAlone DEF Assign
<1>2. VpiTypeOK' /\ MarkedIsScheduled'
  BY DEF VpiInv, VpiTypeOK, MarkedIsScheduled, Assign, markVars, dumpVars, blockVars
<1>3. AtWorkBySynch' /\ AtWorkCounted' /\ RecordedOfSigs'
  BY <1>1 DEF VpiInv, AtWorkBySynch, AtWorkCounted, RecordedOfSigs, Assign, dumpVars, blockVars
<1>4. LastAtPlace'
  <2> SUFFICES ASSUME open, ~paused, ~failed, NEW e \in Recorded, e.sig \in sigs, e.sig \notin marks'
               PROVE  LastPlace(Blocks, e.sig, value'[e.sig])
    BY <1>1 DEF LastAtPlace, Assign, dumpVars
  <2>1. e.sig # s
    BY DEF Assign
  <2>2. e.sig \notin marks
    BY DEF Assign, markVars
  <2>3. e.sig \in Signals
    BY DEF VpiInv, VpiTypeOK
  <2>4. value'[e.sig] = value[e.sig]
    BY <2>1, <2>3 DEF Assign, VpiInv, VpiTypeOK
  <2> QED
    BY <2>2, <2>4 DEF VpiInv, LastAtPlace
<1>5. Sound(Blocks', now', synchs') /\ \A k \in DOMAIN AtWork' : AtWork'[k].start <= now'
  BY <1>1, BlocksSound DEF Assign, VpiInv, NoneAhead
<1> QED
  BY <1>1, <1>2, <1>3, <1>4, <1>5, Assembled

\* Nothing is written when the marks are dropped; dumping is off then, or there is no file.
LEMMA DropStep ==
  ASSUME VpiInv, Synch, ~(open /\ ~paused)
  PROVE  VpiInv' /\ Recorded' = Recorded
<1> USE DEF Synch, Drop, dumpVars
<1>1. Blocks' = Blocks /\ AtWork' = AtWork /\ Recorded' = Recorded
  BY BlocksAlone
<1>2. synchs \in Nat /\ synchs' = synchs + 1 /\ synchs' \in Nat
  BY DEF VpiInv, VpiTypeOK
<1>3. VpiTypeOK' /\ MarkedIsScheduled'
  <2>1. /\ marks' = {} /\ scheduled' = FALSE /\ UNCHANGED <<open, sigs, paused, limit>>
        /\ UNCHANGED <<vcActive, vcStart, count, pending, block, file>>
        /\ UNCHANGED <<now, value, running, grouped, failed>>
    BY DEF blockVars
  <2>2. MarkedIsScheduled'
    BY <2>1 DEF MarkedIsScheduled
  <2>3. VpiTypeOK'
    BY <1>2, <2>1 DEF VpiInv, VpiTypeOK
  <2> QED
    BY <2>2, <2>3
<1>4. AtWorkBySynch' /\ AtWorkCounted' /\ RecordedOfSigs' /\ LastAtPlace'
  BY <1>1 DEF VpiInv, AtWorkBySynch, AtWorkCounted, RecordedOfSigs, LastAtPlace, blockVars
<1>5. Sound(Blocks', now', synchs')
  <2>1. Sound(Blocks, now, synchs)
    BY BlocksSound
  <2>2. ASSUME NEW p \in Places(Blocks) PROVE Change(Blocks, p).by <= synchs + 1
    <3>1. Change(Blocks, p) \in Changes /\ Change(Blocks, p).by <= synchs
      BY <2>1 DEF Sound
    <3> QED
      BY <1>2, <3>1 DEF Changes
  <2> QED
    BY <1>1, <1>2, <2>1, <2>2 DEF Sound
<1>6. \A k \in DOMAIN AtWork' : AtWork'[k].start <= now'
  BY <1>1 DEF VpiInv, NoneAhead
<1> QED
  BY <1>1, <1>3, <1>4, <1>5, <1>6, Assembled

LEMMA TickStep ==
  ASSUME VpiInv, Tick
  PROVE  VpiInv' /\ Recorded' = Recorded
<1> USE DEF Tick, dumpVars, markVars
<1>1. Blocks' = Blocks /\ AtWork' = AtWork /\ Recorded' = Recorded
  BY BlocksAlone
<1>2. VpiTypeOK' /\ MarkedIsScheduled' /\ now \in Nat /\ now' = now + 1
  <2>1. now \in Nat /\ now' = now + 1 /\ now' \in Nat
    BY DEF VpiInv, VpiTypeOK
  <2>2. VpiTypeOK'
    BY <2>1 DEF VpiInv, VpiTypeOK, blockVars
  <2>3. MarkedIsScheduled'
    BY DEF VpiInv, MarkedIsScheduled
  <2> QED
    BY <2>1, <2>2, <2>3
<1>3. AtWorkCounted' /\ RecordedOfSigs' /\ LastAtPlace'
  BY <1>1 DEF VpiInv, AtWorkCounted, RecordedOfSigs, LastAtPlace, blockVars
<1>4. Sound(Blocks, now, synchs) /\ OnFile(Blocks)
  BY BlocksSound, BlocksFacts DEF VpiInv
<1>5. Sound(Blocks', now', synchs')
  <2>1. \A p \in Places(Blocks) : Change(Blocks, p).time <= now + 1
    <3> SUFFICES ASSUME NEW p \in Places(Blocks) PROVE Change(Blocks, p).time <= now + 1
      OBVIOUS
    <3>1. Change(Blocks, p) \in Changes /\ Change(Blocks, p).time <= now
      BY <1>4 DEF Sound
    <3>2. Change(Blocks, p).time \in Nat
      BY <3>1 DEF Changes
    <3> QED
      BY <1>2, <3>1, <3>2
  <2> QED
    BY <1>1, <1>2, <1>4, <2>1 DEF Sound
<1>6. ASSUME NEW k \in DOMAIN AtWork
      PROVE  AtWork[k].start <= now + 1
  <2>1. AtWork[k].start \in Nat
    BY DEF VpiInv, VpiTypeOK, AtWork
  <2>2. AtWork[k].start <= now
    BY DEF VpiInv, NoneAhead
  <2> QED
    BY <1>2, <2>1, <2>2
<1>7. AtWorkBySynch' /\ \A k \in DOMAIN AtWork' : AtWork'[k].start <= now'
  BY <1>1, <1>2, <1>6 DEF VpiInv, AtWorkBySynch
<1> QED
  BY <1>1, <1>2, <1>3, <1>5, <1>7, Assembled

LEMMA StartStep ==
  ASSUME VpiInv, NEW plusarg \in BOOLEAN, StartOfSimulation(plusarg)
  PROVE  VpiInv' /\ Recorded' = Recorded
<1> USE DEF StartOfSimulation, markVars
<1>1. Blocks' = Blocks /\ AtWork' = AtWork /\ Recorded' = Recorded
  BY BlocksAlone
<1>2. UNION Scopes \subseteq Signals
  BY VpiAssumption
<1>3. marks = {}
  BY DEF VpiInv, RecordedOfSigs
<1>4. VpiTypeOK'
  BY <1>2, <1>3 DEF VpiInv, VpiTypeOK, blockVars
<1>5. MarkedIsScheduled'
  BY DEF VpiInv, MarkedIsScheduled
<1>6. AtWorkBySynch' /\ AtWorkCounted'
  BY <1>1 DEF VpiInv, AtWorkBySynch, AtWorkCounted, blockVars
<1>7. RecordedOfSigs' /\ LastAtPlace'
  BY <1>1 DEF VpiInv, RecordedOfSigs, LastAtPlace
<1>8. Sound(Blocks', now', synchs') /\ \A k \in DOMAIN AtWork' : AtWork'[k].start <= now'
  BY <1>1, BlocksSound DEF VpiInv, NoneAhead
<1> QED
  BY <1>1, <1>4, <1>5, <1>6, <1>7, <1>8, Assembled

LEMMA DumpVarsStep ==
  ASSUME VpiInv, NEW S \in Scopes, DumpVars(S)
  PROVE  VpiInv' /\ Recorded' = Recorded
<1> USE DEF DumpVars, Task, simVars, markVars
<1>1. Blocks' = Blocks /\ AtWork' = AtWork /\ Recorded' = Recorded
  BY BlocksAlone
<1>2. VpiTypeOK'
  BY VpiAssumption DEF VpiInv, VpiTypeOK, blockVars
<1>3. MarkedIsScheduled'
  BY DEF VpiInv, MarkedIsScheduled
<1>4. AtWorkBySynch' /\ AtWorkCounted'
  BY <1>1 DEF VpiInv, AtWorkBySynch, AtWorkCounted, blockVars
<1>5. RecordedOfSigs' /\ LastAtPlace'
  BY <1>1 DEF VpiInv, RecordedOfSigs, LastAtPlace
<1>6. Sound(Blocks', now', synchs') /\ \A k \in DOMAIN AtWork' : AtWork'[k].start <= now'
  BY <1>1, BlocksSound DEF VpiInv, NoneAhead
<1> QED
  BY <1>1, <1>2, <1>3, <1>4, <1>5, <1>6, Assembled

LEMMA DumpLimitStep ==
  ASSUME VpiInv, NEW l \in Limits, DumpLimit(l)
  PROVE  VpiInv' /\ Recorded' = Recorded
<1> USE DEF DumpLimit, Task, simVars, markVars
<1>1. Blocks' = Blocks /\ AtWork' = AtWork /\ Recorded' = Recorded
  BY BlocksAlone
<1>2. VpiTypeOK'
  BY VpiAssumption DEF VpiInv, VpiTypeOK, blockVars
<1>3. MarkedIsScheduled'
  BY DEF VpiInv, MarkedIsScheduled
<1>4. AtWorkBySynch' /\ AtWorkCounted'
  BY <1>1 DEF VpiInv, AtWorkBySynch, AtWorkCounted, blockVars
<1>5. RecordedOfSigs' /\ LastAtPlace'
  BY <1>1 DEF VpiInv, RecordedOfSigs, LastAtPlace
<1>6. Sound(Blocks', now', synchs') /\ \A k \in DOMAIN AtWork' : AtWork'[k].start <= now'
  BY <1>1, BlocksSound DEF VpiInv, NoneAhead
<1> QED
  BY <1>1, <1>2, <1>3, <1>4, <1>5, <1>6, Assembled

\* $trlog_dumpoff and $trlog_dumpflush.
LEMMA FlushStep ==
  ASSUME VpiInv, DumpOff \/ DumpFlush
  PROVE  VpiInv' /\ Recorded' = Recorded
<1>1. /\ DoFlush /\ Task /\ open' = open /\ sigs' = sigs /\ limit' = limit
      /\ marks' = marks /\ scheduled' = scheduled /\ failed' = failed
      /\ paused' \in BOOLEAN /\ (~paused' => ~paused)
  BY DEF DumpOff, DumpFlush, dumpVars, markVars, VpiInv, VpiTypeOK
<1>2. UNCHANGED <<now, value, synchs, running, grouped>>
  BY <1>1 DEF Task, simVars
<1>3. /\ AsGood(Blocks', Blocks, now, synchs)
      /\ OnFile(file') /\ pending' \in Seq(Changes) /\ vcActive' \in BOOLEAN
      /\ vcStart' \in Nat /\ count' \in Nat /\ block' = block
      /\ (IF grouped THEN ~vcActive' ELSE pending' = << >>)
      /\ count' < FlushInterval
      /\ \A k \in DOMAIN AtWork' : AtWork'[k].entries = << >> /\ AtWork'[k].start <= now
  BY <1>1, <1>2, FlushBlocks
<1>4. Recorded' = Recorded
  BY <1>3 DEF AsGood, Held, Recorded
<1>5. VpiTypeOK'
  BY <1>1, <1>2, <1>3 DEF VpiInv, VpiTypeOK, OnFile
<1>6. MarkedIsScheduled'
  BY <1>1 DEF VpiInv, MarkedIsScheduled
<1>7. AtWorkBySynch'
  BY <1>3 DEF AtWorkBySynch
<1>8. AtWorkCounted'
  BY <1>2, <1>3 DEF AtWorkCounted
<1>9. RecordedOfSigs'
  BY <1>1, <1>2, <1>4 DEF VpiInv, RecordedOfSigs
<1>10. LastAtPlace'
  BY <1>1, <1>2, <1>3, <1>4 DEF VpiInv, LastAtPlace, AsGood
<1>11. Sound(Blocks', now', synchs') /\ \A k \in DOMAIN AtWork' : AtWork'[k].start <= now'
  BY <1>2, <1>3 DEF AsGood
<1> QED
  BY <1>4, <1>5, <1>6, <1>7, <1>8, <1>9, <1>10, <1>11, Assembled

\* $trlog_dumpon and $trlog_dumpall.
LEMMA SnapshotStep ==
  ASSUME VpiInv, DumpOn \/ DumpAll
  PROVE  VpiInv' /\ Recorded \subseteq Recorded' /\ (DumpOn => ~paused') /\ (DumpAll => ~paused)
<1>1. /\ Snapshot /\ Task /\ open /\ open' = open /\ sigs' = sigs /\ limit' = limit
      /\ marks' = marks /\ scheduled' = scheduled /\ failed' = failed
      /\ paused' = FALSE /\ (DumpOn => ~paused') /\ (DumpAll => ~paused)
  BY DEF DumpOn, DumpAll, dumpVars, markVars, VpiInv, VpiTypeOK
<1>2. UNCHANGED <<now, value, synchs, running, grouped>>
  BY <1>1 DEF Task, simVars
<1>3. MarkedIsScheduled'
  BY <1>1 DEF VpiInv, MarkedIsScheduled
<1>4. CASE sigs = {}
  <2>1. UNCHANGED blockVars
    BY <1>1, <1>4 DEF Snapshot
  <2>2. Blocks' = Blocks /\ AtWork' = AtWork /\ Recorded' = Recorded
    BY <1>2, <2>1, BlocksAlone
  <2>3. VpiTypeOK'
    BY <1>1, <1>2, <2>1 DEF VpiInv, VpiTypeOK, blockVars
  <2>4. AtWorkBySynch' /\ AtWorkCounted'
    BY <1>2, <2>1, <2>2 DEF VpiInv, AtWorkBySynch, AtWorkCounted, blockVars
  <2>5. RecordedOfSigs' /\ LastAtPlace'
    BY <1>1, <1>2, <1>4, <2>2 DEF VpiInv, RecordedOfSigs, LastAtPlace
  <2>6. Sound(Blocks', now', synchs') /\ \A k \in DOMAIN AtWork' : AtWork'[k].start <= now'
    BY <1>2, <2>2, BlocksSound DEF VpiInv, NoneAhead
  <2> QED
    BY <1>1, <1>3, <2>2, <2>3, <2>4, <2>5, <2>6, Assembled
<1>5. CASE sigs # {}
  <2>1. /\ Records(Blocks', Blocks, now, synchs, Samples(sigs, 0))
        /\ OnFile(file') /\ pending' = << >> /\ vcActive' = FALSE
        /\ vcStart' = now /\ count' = 0 /\ block' \in [start : Nat, entries : Seq(Changes)]
        /\ \A k \in DOMAIN AtWork' : AtWork'[k].entries = << >> /\ AtWork'[k].start <= now
    BY <1>1, <1>2, <1>5, SnapshotBlocks
  <2>2. /\ \A i \in 1..Len(Samples(sigs, 0)) :
             /\ Samples(sigs, 0)[i].sig \in sigs
             /\ Samples(sigs, 0)[i].value = value[Samples(sigs, 0)[i].sig]
        /\ \A s \in sigs : \E i \in 1..Len(Samples(sigs, 0)) : Samples(sigs, 0)[i].sig = s
    BY SamplesWritable DEF VpiInv
  <2>3. Recorded' = Recorded \cup {Samples(sigs, 0)[i] : i \in 1..Len(Samples(sigs, 0))}
    BY <2>1 DEF Records, Held, Recorded
  <2>4. VpiTypeOK'
    <3>1. pending' \in Seq(Changes) /\ now \in Nat
      BY <2>1 DEF VpiInv, VpiTypeOK
    <3> QED
      BY <1>1, <1>2, <2>1, <3>1 DEF VpiInv, VpiTypeOK, OnFile
  <2>5. AtWorkBySynch'
    BY <2>1 DEF AtWorkBySynch
  <2>6. AtWorkCounted'
    BY <1>2, <2>1, VpiAssumption DEF AtWorkCounted
  <2>7. RecordedOfSigs'
    <3>1. running = "running"
      BY <1>1 DEF Task
    <3>2. \A e \in Recorded' : e.sig \in sigs
      BY <2>2, <2>3, <3>1 DEF VpiInv, RecordedOfSigs
    <3> QED
      BY <1>1, <1>2, <3>1, <3>2 DEF RecordedOfSigs
  <2>8. LastAtPlace'
    <3>1. \A s \in sigs : LastPlace(Blocks', s, value[s])
      BY <2>1, <2>2 DEF Records
    <3> QED
      BY <1>1, <1>2, <3>1 DEF LastAtPlace
  <2>9. Sound(Blocks', now', synchs') /\ \A k \in DOMAIN AtWork' : AtWork'[k].start <= now'
    BY <1>2, <2>1 DEF Records
  <2> QED
    BY <1>1, <1>3, <2>3, <2>4, <2>5, <2>6, <2>7, <2>8, <2>9, Assembled
<1> QED
  BY <1>4, <1>5

LEMMA DrainStep ==
  ASSUME VpiInv, Synch, open, ~paused
  PROVE  VpiInv' /\ Recorded \subseteq Recorded'
<1>1. Drain /\ synchs' = synchs + 1 /\ UNCHANGED <<now, value, running, tasks, grouped, failed>>
      /\ running = "running"
  BY DEF Synch
<1>2. /\ marks' = {} /\ scheduled' = FALSE /\ open' = open /\ sigs' = sigs /\ limit' = limit
      /\ paused' \in BOOLEAN /\ synchs' \in Nat /\ synchs + 1 \in Nat
  BY <1>1 DEF Drain, VpiInv, VpiTypeOK
<1>3. /\ Records(Blocks', Blocks, now, synchs', Samples(marks, synchs + 1))
      /\ OnFile(file') /\ pending' \in Seq(Changes) /\ vcActive' \in BOOLEAN
      /\ vcStart' \in Nat /\ count' \in Nat
      /\ block' \in [start : Nat, entries : Seq(Changes)]
      /\ (IF grouped THEN ~vcActive' ELSE pending' = << >>)
      /\ count' < FlushInterval
      /\ \A k \in DOMAIN AtWork' : Len(AtWork'[k].entries) <= count' /\ AtWork'[k].start <= now
      /\ AtWorkBySynch'
  BY <1>1, DrainBlocks
<1>4. marks \in SUBSET sigs
  BY DEF VpiInv, VpiTypeOK
<1>5. /\ \A i \in 1..Len(Samples(marks, synchs + 1)) :
           /\ Samples(marks, synchs + 1)[i].sig \in marks
           /\ Samples(marks, synchs + 1)[i].value = value[Samples(marks, synchs + 1)[i].sig]
      /\ \A s \in marks : \E i \in 1..Len(Samples(marks, synchs + 1)) : Samples(marks, synchs + 1)[i].sig = s
  BY <1>2, <1>4, SamplesWritable DEF VpiInv
<1>6. Recorded' = Recorded \cup {Samples(marks, synchs + 1)[i] : i \in 1..Len(Samples(marks, synchs + 1))}
  BY <1>3 DEF Records, Held, Recorded
<1>7. VpiTypeOK'
  BY <1>1, <1>2, <1>3 DEF VpiInv, VpiTypeOK, OnFile
<1>8. MarkedIsScheduled' /\ AtWorkBySynch'
  BY <1>1, <1>2, <1>3 DEF MarkedIsScheduled
<1>9. AtWorkCounted'
  BY <1>1, <1>3 DEF AtWorkCounted
<1>10. \A e \in Recorded' : e.sig \in sigs
  BY <1>1, <1>4, <1>5, <1>6 DEF VpiInv, RecordedOfSigs
<1>11. RecordedOfSigs'
  BY <1>1, <1>2, <1>10 DEF RecordedOfSigs
<1>12. LastAtPlace'
  <2> SUFFICES ASSUME ~failed, NEW e \in Recorded'
               PROVE  LastPlace(Blocks', e.sig, value[e.sig])
    BY <1>1 DEF LastAtPlace
  <2>1. \A i \in 1..Len(Samples(marks, synchs + 1)) :
          Samples(marks, synchs + 1)[i].sig = e.sig => Samples(marks, synchs + 1)[i].value = value[e.sig]
    BY <1>5
  <2>2. (\E i \in 1..Len(Samples(marks, synchs + 1)) : Samples(marks, synchs + 1)[i].sig = e.sig)
        \/ LastPlace(Blocks, e.sig, value[e.sig])
    <3>1. CASE e.sig \in marks
      BY <3>1, <1>5
    <3>2. CASE e.sig \notin marks
      BY <3>2, <1>5, <1>6, <1>10 DEF VpiInv, LastAtPlace
    <3> QED
      BY <3>1, <3>2
  <2> QED
    BY <1>3, <2>1, <2>2 DEF Records
<1>13. Sound(Blocks', now', synchs') /\ \A k \in DOMAIN AtWork' : AtWork'[k].start <= now'
  BY <1>1, <1>3 DEF Records
<1> QED
  BY <1>6, <1>7, <1>8, <1>9, <1>11, <1>12, <1>13, Assembled

LEMMA EndStep ==
  ASSUME VpiInv, EndOfSimulation
  PROVE  VpiInv' /\ (open => Recorded' = Recorded)
<1>1. /\ Sound(Blocks', now, synchs) /\ OnFile(file')
      /\ open => Held(Blocks') = Held(Blocks)
      /\ \A k \in DOMAIN AtWork' : AtWork'[k].entries = << >> /\ AtWork'[k].start = 0
  BY EndBlocks
<1>2. /\ running' = "over" /\ UNCHANGED <<now, value, synchs, grouped, block, failed>>
      /\ open' = FALSE /\ sigs' = {} /\ paused' = FALSE /\ limit' = 0 /\ marks' = {}
      /\ scheduled' = FALSE /\ vcActive' = FALSE /\ vcStart' = 0 /\ count' = 0
      /\ pending' = << >>
  BY DEF EndOfSimulation, Zeroed
<1>3. pending' \in Seq(Changes) /\ now \in Nat
  BY <1>2 DEF VpiInv, VpiTypeOK
<1>4. VpiTypeOK'
  BY <1>1, <1>2, <1>3 DEF VpiInv, VpiTypeOK, OnFile
<1>5. MarkedIsScheduled' /\ AtWorkBySynch' /\ LastAtPlace' /\ RecordedOfSigs'
  BY <1>1, <1>2 DEF MarkedIsScheduled, AtWorkBySynch, LastAtPlace, RecordedOfSigs
<1>6. AtWorkCounted'
  BY <1>1, <1>2, VpiAssumption DEF AtWorkCounted
<1>7. Sound(Blocks', now', synchs') /\ \A k \in DOMAIN AtWork' : AtWork'[k].start <= now'
  BY <1>1, <1>2, <1>3
<1>8. open => Recorded' = Recorded
  BY <1>1 DEF Recorded, Held
<1> QED
  BY <1>4, <1>5, <1>6, <1>7, <1>8, Assembled

LEMMA DumpFileStep ==
  ASSUME VpiInv, NEW ok \in BOOLEAN, DumpFile(ok)
  PROVE  VpiInv'
<1>1. /\ Sound(Blocks', now, synchs) /\ OnFile(file')
      /\ Held(Blocks') \subseteq Held(Blocks)
      /\ \A e \in Held(Blocks') : \A v :
           LastPlace(Blocks, e.sig, v) => LastPlace(Blocks', e.sig, v)
      /\ \A k \in DOMAIN AtWork' : /\ AtWork'[k].entries = << >> \/ AtWork' = AtWork
                                   /\ AtWork'[k].start <= now
  BY DumpFileBlocks
<1>2. /\ open' = ok /\ failed' = (failed \/ ~ok) /\ block' = [start |-> 0, entries |-> << >>]
      /\ running = "running" /\ UNCHANGED <<now, value, synchs, running, grouped>>
      /\ UNCHANGED <<sigs, paused, limit, marks, scheduled, vcActive, vcStart, count, pending>>
  BY DEF DumpFile, Task, simVars, markVars, EmptyBlock
<1>3. Recorded' = Held(Blocks') /\ Recorded = Held(Blocks)
  BY DEF Recorded, Held
<1>4. VpiTypeOK'
  <2>1. block' \in [start : Nat, entries : Seq(Changes)]
    BY <1>2
  <2> QED
    BY <1>1, <1>2, <2>1 DEF VpiInv, VpiTypeOK, OnFile
<1>5. MarkedIsScheduled'
  BY <1>2 DEF VpiInv, MarkedIsScheduled
<1>6. AtWorkBySynch'
  BY <1>1, <1>2 DEF VpiInv, AtWorkBySynch
<1>7. AtWorkCounted'
  <2>1. count \in Nat
    BY DEF VpiInv, VpiTypeOK
  <2>2. \A k \in DOMAIN AtWork' : Len(AtWork'[k].entries) <= count
    BY <1>1, <2>1 DEF VpiInv, AtWorkCounted
  <2> QED
    BY <1>2, <2>2 DEF VpiInv, AtWorkCounted
<1>8. RecordedOfSigs'
  BY <1>1, <1>2, <1>3 DEF VpiInv, RecordedOfSigs
<1>9. LastAtPlace'
  <2> SUFFICES ASSUME open', ~paused, ~failed, NEW e \in Recorded', e.sig \in sigs, e.sig \notin marks
               PROVE  LastPlace(Blocks', e.sig, value[e.sig])
    BY <1>2 DEF LastAtPlace
  <2>1. e \in Recorded
    BY <1>1, <1>3
  <2>2. open
    BY <1>2, <2>1 DEF VpiInv, RecordedOfSigs
  <2>3. LastPlace(Blocks, e.sig, value[e.sig])
    BY <2>1, <2>2 DEF VpiInv, LastAtPlace
  <2> QED
    BY <1>1, <1>3, <2>3
<1>10. Sound(Blocks', now', synchs') /\ \A k \in DOMAIN AtWork' : AtWork'[k].start <= now'
  BY <1>1, <1>2
<1> QED
  BY <1>4, <1>5, <1>6, <1>7, <1>8, <1>9, <1>10, Assembled

-----------------------------------------------------------------------------
(* The theorems *)

LEMMA InitInv ==
  ASSUME Init
  PROVE  VpiInv
<1> USE DEF Init
<1>1. VpiTypeOK
  <2>1. file \in Seq({file[k] : k \in DOMAIN file}) /\ DOMAIN file = {}
    OBVIOUS
  <2>2. block \in [start : Nat, entries : Seq(Changes)] /\ pending \in Seq(Changes)
    BY DEF EmptyBlock
  <2> QED
    BY <2>1, <2>2 DEF VpiTypeOK
<1>2. /\ grouped => AtWork = <<Block(0, << >>)>>
      /\ ~grouped => AtWork = << >>
  BY DEF AtWork, Block
<1>3. AtWorkCounted
  <2>1. \A k \in DOMAIN AtWork : Len(AtWork[k].entries) <= 0
    BY <1>2 DEF Block
  <2> QED
    BY <2>1, VpiAssumption DEF AtWorkCounted
<1>4. Places(Blocks) = {}
  <2>1. CASE grouped
    <3>1. Blocks = <<Block(0, << >>)>>
      BY <1>2, <2>1 DEF Blocks
    <3> QED
      BY <3>1 DEF Places, Block
  <2>2. CASE ~grouped
    <3>1. Blocks = << >>
      BY <1>2, <2>2 DEF Blocks
    <3> QED
      BY <3>1 DEF Places
  <2> QED
    BY <2>1, <2>2
<1>5. Recorded = {}
  BY <1>4 DEF Recorded
<1>6. TimesInOrder /\ RepeatedBySynch
  BY <1>4 DEF TimesInOrder, RepeatedBySynch
<1>7. MarkedIsScheduled /\ LastAtPlace /\ RecordedOfSigs
  BY <1>5 DEF MarkedIsScheduled, LastAtPlace, RecordedOfSigs
<1>8. NoneAhead /\ AtWorkBySynch
  <2>1. \A k \in DOMAIN AtWork : AtWork[k].start <= 0 /\ AtWork[k].entries = << >>
    BY <1>2 DEF Block
  <2> QED
    BY <1>5, <2>1 DEF NoneAhead, AtWorkBySynch
<1> QED
  BY <1>1, <1>3, <1>6, <1>7, <1>8 DEF VpiInv

LEMMA StutterInv ==
  ASSUME VpiInv, UNCHANGED vars
  PROVE  VpiInv' /\ Recorded' = Recorded
<1> USE DEF vars, simVars, dumpVars, markVars
<1>1. Blocks' = Blocks /\ AtWork' = AtWork /\ Recorded' = Recorded
  BY BlocksAlone
<1>2. VpiTypeOK'
  BY DEF VpiInv, VpiTypeOK, blockVars
<1>3. MarkedIsScheduled' /\ LastAtPlace' /\ RecordedOfSigs'
  BY <1>1 DEF VpiInv, MarkedIsScheduled, LastAtPlace, RecordedOfSigs
<1>4. AtWorkBySynch' /\ AtWorkCounted'
  BY <1>1 DEF VpiInv, AtWorkBySynch, AtWorkCounted, blockVars
<1>5. Sound(Blocks', now', synchs') /\ \A k \in DOMAIN AtWork' : AtWork'[k].start <= now'
  BY <1>1, BlocksSound DEF VpiInv, NoneAhead
<1> QED
  BY <1>1, <1>2, <1>3, <1>4, <1>5, Assembled

\* What a step does to the invariant and to what is recorded.
LEMMA VpiStep ==
  ASSUME VpiInv, [Next]_vars
  PROVE  /\ VpiInv'
         /\ open /\ ~(\E ok \in BOOLEAN : DumpFile(ok)) => Recorded \subseteq Recorded'
         /\ open /\ paused /\ paused' /\ ~(\E ok \in BOOLEAN : DumpFile(ok)) =>
              Recorded' = Recorded
<1>1. CASE \E s \in Signals, v \in Values : Assign(s, v)
  BY <1>1, AssignStep
<1>2. CASE \E plusarg \in BOOLEAN : StartOfSimulation(plusarg)
  BY <1>2, StartStep
<1>3. CASE Synch
  <2>1. CASE open /\ ~paused
    BY <1>3, <2>1, DrainStep
  <2>2. CASE ~(open /\ ~paused)
    BY <1>3, <2>2, DropStep
  <2> QED
    BY <2>1, <2>2
<1>4. CASE Tick
  BY <1>4, TickStep
<1>5. CASE EndOfSimulation
  BY <1>5, EndStep
<1>6. CASE \E ok \in BOOLEAN : DumpFile(ok)
  BY <1>6, DumpFileStep
<1>7. CASE \E S \in Scopes : DumpVars(S)
  BY <1>7, DumpVarsStep
<1>8. CASE \E l \in Limits : DumpLimit(l)
  BY <1>8, DumpLimitStep
<1>9. CASE DumpOff \/ DumpFlush
  BY <1>9, FlushStep
<1>10. CASE DumpOn \/ DumpAll
  BY <1>10, SnapshotStep
<1>11. CASE UNCHANGED vars
  BY <1>11, StutterInv
<1> QED
  BY <1>1, <1>2, <1>3, <1>4, <1>5, <1>6, <1>7, <1>8, <1>9, <1>10, <1>11
     DEF Next, Simulator, Tasks

\* The inductive invariant.
THEOREM VpiInvariant == Spec => []VpiInv
<1>1. Init => VpiInv
  BY InitInv
<1>2. VpiInv /\ [Next]_vars => VpiInv'
  BY VpiStep
<1> QED
  BY <1>1, <1>2, PTL DEF Spec

\* For any signals, scopes and flush interval: no block holds a change before its start, and the
\* blocks give the changes of a signal in the order of time, whatever the callbacks and tasks do
\* between (src/vpi/src/trlog_vpi_value.c).
THEOREM TimesStayInOrder == Spec => []TimesInOrder
<1>1. VpiInv => TimesInOrder
  BY DEF VpiInv
<1> QED
  BY <1>1, VpiInvariant, PTL

\* Two records of a signal at one time in one block come from two synchronisation points of the time
\* step: one call of trlog_delta_callback writes a signal once, and no snapshot and no flush puts
\* a value beside another of the same time (src/vpi/src/trlog_vpi_value.c).
THEOREM RepeatedOnlyBySynch == Spec => []RepeatedBySynch
<1>1. VpiInv => RepeatedBySynch
  BY DEF VpiInv
<1> QED
  BY <1>1, VpiInvariant, PTL

\* The last recorded value of a signal that is not marked is its value, while dumping is on and
\* no $trlog_dumpfile has failed.
THEOREM LastIsRecorded == Spec => []LastRecorded
<1>1. ASSUME VpiInv PROVE LastRecorded
  <2> SUFFICES ASSUME open, ~paused, ~failed, NEW e \in Recorded, e.sig \in sigs \ marks
               PROVE  \E f \in Recorded :
                        f.sig = e.sig /\ f.value = value[e.sig] /\ e.time <= f.time
    BY DEF LastRecorded
  <2>1. LastPlace(Blocks, e.sig, value[e.sig])
    BY <1>1 DEF VpiInv, LastAtPlace
  <2>2. PICK last \in Places(Blocks) :
          /\ Change(Blocks, last).sig = e.sig /\ Change(Blocks, last).value = value[e.sig]
          /\ \A q \in Places(Blocks) :
               Change(Blocks, q).sig = e.sig => q = last \/ Before(q, last)
    BY <2>1 DEF LastPlace
  <2>3. PICK q \in Places(Blocks) : e = Change(Blocks, q)
    BY DEF Recorded
  <2>4. Sound(Blocks, now, synchs)
    BY <1>1, BlocksSound
  <2>5. e.time \in Nat
    BY <2>3, <2>4 DEF Sound, Changes
  <2>6. e.time <= Change(Blocks, last).time
    BY <2>2, <2>3, <2>4, <2>5 DEF Sound
  <2> QED
    BY <2>2, <2>6 DEF Recorded
<1> QED
  BY <1>1, VpiInvariant, PTL

\* A signal is marked only while the callback that will write it is registered.
THEOREM MarkedStaysScheduled == Spec => []MarkedIsScheduled
<1>1. VpiInv => MarkedIsScheduled
  BY DEF VpiInv
<1> QED
  BY <1>1, VpiInvariant, PTL

\* The block at work never holds as many changes as the flush interval.
THEOREM BufferStaysBounded == Spec => []BufferBounded
<1>1. ASSUME VpiInv PROVE BufferBounded
  <2> SUFFICES ASSUME NEW k \in DOMAIN AtWork PROVE Len(AtWork[k].entries) < FlushInterval
    BY DEF BufferBounded
  <2>1. k \in {1} /\ AtWork[k].entries \in Seq(Changes)
    BY <1>1 DEF VpiInv, VpiTypeOK, AtWork
  <2>2. Len(AtWork[k].entries) \in Nat /\ count \in Nat /\ FlushInterval \in Nat
    BY <1>1, <2>1, VpiAssumption DEF VpiInv, VpiTypeOK
  <2>3. Len(AtWork[k].entries) <= count /\ count < FlushInterval
    BY <1>1 DEF VpiInv, AtWorkCounted
  <2> QED
    BY <2>2, <2>3
<1> QED
  BY <1>1, VpiInvariant, PTL

\* No flush, snapshot, pause or end loses what is recorded.
THEOREM RecordedIsKept == Spec => Kept
<1>1. VpiInv /\ [Next]_vars =>
        [open /\ ~(\E ok \in BOOLEAN : DumpFile(ok)) => Recorded \subseteq Recorded']_vars
  BY VpiStep
<1> QED
  BY <1>1, VpiInvariant, PTL DEF Spec, Kept

\* Nothing is recorded while dumping is off, marks of before included.
THEOREM PausedRecordsNothing == Spec => NothingWhilePaused
<1>1. VpiInv /\ [Next]_vars =>
        [open /\ paused /\ paused' /\ ~(\E ok \in BOOLEAN : DumpFile(ok)) =>
           Recorded' = Recorded]_vars
  BY VpiStep
<1> QED
  BY <1>1, VpiInvariant, PTL DEF Spec, NothingWhilePaused
=============================================================================
