-------------------------- MODULE BlockTreeProofs --------------------------
(***************************************************************************)
(* Proofs about BlockTree, for every set of hashes and every set of works. *)
(*                                                                         *)
(* The operations walk from a block back to the trunk with recursive       *)
(* functions.  That these exist, and what they compute, is proved by       *)
(* taking a least counterexample: every step back lowers the height.       *)
(***************************************************************************)
EXTENDS BlockTree, NaturalsInduction, WellFoundedInduction, TLAPS

----------------------------------------------------------------------------
(* Least counterexamples. *)

(* Every nonempty set of natural numbers has a least element. *)
LEMMA LeastElement ==
    ASSUME NEW T, T \subseteq Nat, T # {}
    PROVE  \E x \in T : \A y \in T : x <= y
<1>1. IsWellFoundedOn(OpToRel(<, Nat), Nat)
  BY NatLessThanWellFounded
<1>2. PICK x \in T : \A y \in T : ~(<<y, x>> \in OpToRel(<, Nat))
  BY <1>1, WFMin
<1>3. ASSUME NEW y \in T PROVE x <= y
  <2>1. ~(y < x)
    BY <1>2 DEF OpToRel
  <2> QED
    BY <2>1
<1> QED
  BY <1>3

----------------------------------------------------------------------------
(* Sequences of references. *)

(* A function on 1..n is a sequence of length n. *)
LEMMA SequenceOf ==
    ASSUME NEW S, NEW n \in Nat, NEW s \in [1..n -> S]
    PROVE  s \in Seq(S) /\ Len(s) = n
  OBVIOUS

(* The fields of a reference have their types. *)
LEMMA RefFacts ==
    ASSUME NEW ref \in Refs
    PROVE  ref.hash \in Hash /\ ref.prev \in Hash \cup {NoHash} /\ ref.work \in Nat
  BY TreeAssumption DEF Refs

(* Hashes maps a sequence of references to their hashes, in order. *)
LEMMA HashesFacts ==
    ASSUME NEW s \in Seq(Refs)
    PROVE  /\ Hashes(s) \in Seq(Hash)
           /\ Len(Hashes(s)) = Len(s)
           /\ \A i \in 1..Len(s) : Hashes(s)[i] = s[i].hash
           /\ RangeOf(Hashes(s)) = {s[i].hash : i \in 1..Len(s)}
<1>1. \A i \in 1..Len(s) : s[i].hash \in Hash
  <2> TAKE i \in 1..Len(s)
  <2>1. s[i] \in Refs
    OBVIOUS
  <2> QED
    BY <2>1, RefFacts
<1>2. Len(s) \in Nat
  OBVIOUS
<1>3. Hashes(s) = [i \in 1..Len(s) |-> s[i].hash]
  BY DEF Hashes
<1>4. Hashes(s) \in Seq(Hash) /\ Len(Hashes(s)) = Len(s)
  BY <1>1, <1>2, <1>3
<1>5. RangeOf(Hashes(s)) = {s[i].hash : i \in 1..Len(s)}
  BY <1>3, <1>4 DEF RangeOf
<1> QED
  BY <1>3, <1>4, <1>5

----------------------------------------------------------------------------
(* Walking back to the trunk. *)

(* The heights have a bound; they do because a tree is finite. *)
IsBounded(t) ==
    \E n \in Nat : \A hash \in DOMAIN t.heights : AbsHeight(t.heights[hash]) <= n

(* The shape of a tree, without its accumulated work. *)
IsShaped(t) == IsTyped(t) /\ IsLinked(t) /\ IsSigned(t) /\ IsBounded(t)

(* The trunk is a sequence of references that is not empty. *)
LEMMA TrunkFacts ==
    ASSUME NEW t, IsTyped(t)
    PROVE  /\ t.trunk \in Seq(Refs)
           /\ Len(t.trunk) \in Nat \ {0}
           /\ TrunkHeight(t) = Len(t.trunk) - 1
           /\ TrunkHeight(t) \in Nat
<1>1. t.trunk \in Seq(Refs) /\ t.trunk # << >>
  BY DEF IsTyped
<1>2. Len(t.trunk) \in Nat \ {0}
  BY <1>1
<1> QED
  BY <1>1, <1>2 DEF TrunkHeight

(* A known hash has a negative height exactly if it is in a branch; its     *)
(* predecessor is then known and one step closer to the first block.        *)
LEMMA BranchFacts ==
    ASSUME NEW t, IsShaped(t), NEW hash \in DOMAIN t.heights
    PROVE  /\ t.heights[hash] \in Int
           /\ AbsHeight(t.heights[hash]) \in Nat
           /\ t.heights[hash] < 0 <=> hash \in DOMAIN t.branches
           /\ t.heights[hash] < 0 =>
                 /\ t.branches[hash] \in Refs
                 /\ t.branches[hash].hash = hash
                 /\ t.branches[hash].prev \in DOMAIN t.heights
                 /\ AbsHeight(t.heights[t.branches[hash].prev])
                       = AbsHeight(t.heights[hash]) - 1
           /\ t.heights[hash] >= 0 =>
                 /\ t.heights[hash] + 1 \in 1..Len(t.trunk)
                 /\ t.trunk[t.heights[hash] + 1] \in Refs
                 /\ t.trunk[t.heights[hash] + 1].hash = hash
<1>1. /\ t.heights[hash] \in Int
      /\ t.trunk \in Seq(Refs)
      /\ t.branches \in [DOMAIN t.branches -> Refs]
      /\ t.heights \in [DOMAIN t.heights -> Int]
  BY DEF IsShaped, IsTyped
<1>2. AbsHeight(t.heights[hash]) \in Nat
  BY <1>1 DEF AbsHeight
<1>3. CASE hash \in DOMAIN t.branches
  <2>1. /\ t.branches[hash].prev \in DOMAIN t.heights
        /\ t.heights[hash] = -AbsHeight(t.heights[t.branches[hash].prev]) - 1
        /\ t.branches[hash].hash = hash
    BY <1>3 DEF IsShaped, IsSigned, Have
  <2>2. t.heights[t.branches[hash].prev] \in Int
    BY <1>1, <2>1
  <2>3. AbsHeight(t.heights[t.branches[hash].prev]) \in Nat
    BY <2>2 DEF AbsHeight
  <2>4. t.heights[hash] < 0
    BY <2>1, <2>3
  <2>5. AbsHeight(t.heights[hash]) = AbsHeight(t.heights[t.branches[hash].prev]) + 1
    BY <2>1, <2>3, <2>4 DEF AbsHeight
  <2>6. t.branches[hash] \in Refs
    BY <1>1, <1>3
  <2> QED
    BY <1>1, <1>2, <1>3, <2>1, <2>3, <2>4, <2>5, <2>6, SMTT(30)
<1>4. CASE hash \notin DOMAIN t.branches
  <2>1. PICK i \in 1..Len(t.trunk) : t.trunk[i].hash = hash
    <3>1. hash \in RangeOf(Hashes(t.trunk))
      BY <1>4 DEF IsShaped, IsSigned
    <3> QED
      BY <1>1, <3>1, HashesFacts
  <2>2. t.heights[hash] = i - 1
    BY <2>1 DEF IsShaped, IsSigned
  <2>3. Len(t.trunk) \in Nat /\ t.trunk[i] \in Refs
    BY <1>1
  <2>4. i - 1 + 1 = i /\ i - 1 >= 0
    BY <2>1
  <2> QED
    BY <1>1, <1>2, <1>4, <2>1, <2>2, <2>3, <2>4
<1> QED
  BY <1>3, <1>4

(* The functions that walk back are well defined: a step back lowers the    *)
(* height, so they exist on the hashes up to any height.                    *)
LEMMA PathDef ==
    ASSUME NEW t, IsShaped(t), NEW hash \in DOMAIN t.heights
    PROVE  /\ t.heights[hash] < 0 =>
                 BranchPath(t)[hash] =
                    <<hash>> \o BranchPath(t)[t.branches[hash].prev]
           /\ t.heights[hash] >= 0 => BranchPath(t)[hash] = << >>
<1> DEFINE D == DOMAIN t.heights
           Step(f, h) == IF t.heights[h] < 0
                         THEN <<h>> \o f[t.branches[h].prev] ELSE << >>
           Below(n) == {h \in D : AbsHeight(t.heights[h]) <= n}
           Defined(n) == \E f : f = [h \in Below(n) |-> Step(f, h)]
<1>1. ASSUME NEW n \in Nat, n > 0 => Defined(n - 1)
      PROVE  Defined(n)
  <2>1. CASE n = 0
    <3> DEFINE f == [h \in Below(n) |-> << >>]
    <3>1. ASSUME NEW h \in Below(n) PROVE ~(t.heights[h] < 0)
      BY <2>1, BranchFacts DEF AbsHeight
    <3>2. f = [h \in Below(n) |-> Step(f, h)]
      BY <3>1
    <3> QED
      BY <3>2
  <2>2. CASE n > 0
    <3>1. PICK f : f = [h \in Below(n - 1) |-> Step(f, h)]
      BY <1>1, <2>2
    <3> DEFINE g == [h \in Below(n) |-> Step(f, h)]
    <3>2. ASSUME NEW h \in Below(n), t.heights[h] < 0
          PROVE  g[t.branches[h].prev] = f[t.branches[h].prev]
      <4>1. /\ t.branches[h].prev \in Below(n - 1)
            /\ t.branches[h].prev \in Below(n)
        BY <3>2, BranchFacts
      <4> QED
        BY <3>1, <4>1
    <3>3. g = [h \in Below(n) |-> Step(g, h)]
      BY <3>2
    <3> QED
      BY <3>3
  <2> HIDE DEF Defined
  <2> QED
    BY <2>1, <2>2
<1>2. \A n \in Nat : Defined(n)
  <2> DEFINE T == {n \in Nat : ~Defined(n)}
  <2> HIDE DEF Defined
  <2>1. SUFFICES ASSUME T # {} PROVE FALSE
    OBVIOUS
  <2>2. PICK n \in T : \A m \in T : n <= m
    BY <2>1, LeastElement
  <2>3. n > 0 => Defined(n - 1)
    BY <2>2
  <2> QED
    BY <1>1, <2>2, <2>3
<1>3. PICK n \in Nat : \A h \in D : AbsHeight(t.heights[h]) <= n
  BY DEF IsShaped, IsBounded
<1>4. D = Below(n)
  BY <1>3
<1>5. \E f : f = [h \in D |-> Step(f, h)]
  BY <1>2, <1>4, ZenonT(30)
<1>6. BranchPath(t) = [h \in D |-> Step(BranchPath(t), h)]
  BY <1>5 DEF BranchPath
<1>7. BranchPath(t)[hash] = Step(BranchPath(t), hash)
  BY <1>6
<1>8. t.heights[hash] \in Int
  BY BranchFacts
<1> QED
  BY <1>7, <1>8
(* What the recursive function of accumulatedWork() satisfies. *)
LEMMA WorkDef ==
    ASSUME NEW t, IsShaped(t), NEW hash \in DOMAIN t.heights
    PROVE  /\ AccumulatedWork(t)
                 = [h \in DOMAIN t.heights |-> AccumulatedWork(t)[h]]
           /\ t.heights[hash] < 0 =>
                 AccumulatedWork(t)[hash] =
                    t.branches[hash].work + AccumulatedWork(t)[t.branches[hash].prev]
           /\ t.heights[hash] >= 0 =>
                 AccumulatedWork(t)[hash] = t.acc[t.heights[hash] + 1]
<1> DEFINE D == DOMAIN t.heights
           Step(f, h) == IF t.heights[h] < 0
                         THEN t.branches[h].work + f[t.branches[h].prev]
                         ELSE t.acc[t.heights[h] + 1]
           Below(n) == {h \in D : AbsHeight(t.heights[h]) <= n}
           Defined(n) == \E f : f = [h \in Below(n) |-> Step(f, h)]
<1>1. ASSUME NEW n \in Nat, n > 0 => Defined(n - 1)
      PROVE  Defined(n)
  <2>1. CASE n = 0
    <3> DEFINE f == [h \in Below(n) |-> t.acc[t.heights[h] + 1]]
    <3>1. ASSUME NEW h \in Below(n) PROVE ~(t.heights[h] < 0)
      BY <2>1, BranchFacts DEF AbsHeight
    <3>2. f = [h \in Below(n) |-> Step(f, h)]
      BY <3>1
    <3> QED
      BY <3>2
  <2>2. CASE n > 0
    <3>1. PICK f : f = [h \in Below(n - 1) |-> Step(f, h)]
      BY <1>1, <2>2
    <3> DEFINE g == [h \in Below(n) |-> Step(f, h)]
    <3>2. ASSUME NEW h \in Below(n), t.heights[h] < 0
          PROVE  g[t.branches[h].prev] = f[t.branches[h].prev]
      <4>1. /\ t.branches[h].prev \in Below(n - 1)
            /\ t.branches[h].prev \in Below(n)
        BY <3>2, BranchFacts
      <4> QED
        BY <3>1, <4>1
    <3>3. g = [h \in Below(n) |-> Step(g, h)]
      BY <3>2
    <3> QED
      BY <3>3
  <2> HIDE DEF Defined
  <2> QED
    BY <2>1, <2>2
<1>2. \A n \in Nat : Defined(n)
  <2> DEFINE T == {n \in Nat : ~Defined(n)}
  <2> HIDE DEF Defined
  <2>1. SUFFICES ASSUME T # {} PROVE FALSE
    OBVIOUS
  <2>2. PICK n \in T : \A m \in T : n <= m
    BY <2>1, LeastElement
  <2>3. n > 0 => Defined(n - 1)
    BY <2>2
  <2> QED
    BY <1>1, <2>2, <2>3
<1>3. PICK n \in Nat : \A h \in D : AbsHeight(t.heights[h]) <= n
  BY DEF IsShaped, IsBounded
<1>4. D = Below(n)
  BY <1>3
<1>5. \E f : f = [h \in D |-> Step(f, h)]
  BY <1>2, <1>4
<1>6. AccumulatedWork(t) = [h \in D |-> Step(AccumulatedWork(t), h)]
  BY <1>5 DEF AccumulatedWork
<1>7. AccumulatedWork(t)[hash] = Step(AccumulatedWork(t), hash)
  BY <1>6
<1>8. t.heights[hash] \in Int
  BY BranchFacts
<1>9. AccumulatedWork(t) = [h \in D |-> AccumulatedWork(t)[h]]
  BY <1>6
<1> QED
  BY <1>7, <1>8, <1>9

IsPath(t, hash, p, r) ==
    /\ p \in Seq(DOMAIN t.branches)
    /\ r \in 0..TrunkHeight(t)
    /\ AbsHeight(t.heights[hash]) = r + Len(p)
    /\ \A i \in 1..Len(p) : t.heights[p[i]] = -(r + Len(p) + 1 - i)
    /\ \A i \in 1..(Len(p) - 1) : t.branches[p[i]].prev = p[i + 1]
    /\ p = << >> => hash = t.trunk[r + 1].hash
    /\ p # << >> => /\ p[1] = hash
                    /\ t.branches[p[Len(p)]].prev = t.trunk[r + 1].hash

(* p is the sequence q with h put before it. *)
IsCons(p, h, q) ==
    /\ p # << >>
    /\ Len(p) = Len(q) + 1
    /\ p[1] = h
    /\ \A i \in 2..Len(p) : p[i] = q[i - 1]

(* <<h>> \o q is q with h put before it. *)
LEMMA ConsFacts ==
    ASSUME NEW S, NEW h \in S, NEW q \in Seq(S)
    PROVE  <<h>> \o q \in Seq(S) /\ IsCons(<<h>> \o q, h, q)
  BY DEF IsCons

(* A path to the trunk is extended by one block at its tip. *)
LEMMA PathStep ==
    ASSUME NEW t, IsShaped(t),
           NEW h \in DOMAIN t.heights, t.heights[h] < 0,
           NEW q, NEW r, IsPath(t, t.branches[h].prev, q, r),
           NEW p, p \in Seq(DOMAIN t.branches), IsCons(p, h, q)
    PROVE  IsPath(t, h, p, r)
<1> DEFINE n == AbsHeight(t.heights[h])
<1>1. /\ h \in DOMAIN t.branches
      /\ t.heights[h] \in Int
      /\ n \in Nat
      /\ AbsHeight(t.heights[t.branches[h].prev]) = n - 1
  BY BranchFacts
<1>2. q \in Seq(DOMAIN t.branches) /\ Len(q) \in Nat
  BY DEF IsPath
<1>3. Len(p) = Len(q) + 1 /\ p[1] = h /\ p # << >>
  BY DEF IsCons
<1>4. /\ r \in 0..TrunkHeight(t)
      /\ r \in Nat
      /\ AbsHeight(t.heights[t.branches[h].prev]) = r + Len(q)
  BY TrunkFacts DEF IsPath, IsShaped
<1>5. n = r + Len(p)
  <2>1. n - 1 = r + Len(q)
    BY <1>1, <1>4
  <2> HIDE DEF n
  <2> QED
    BY <1>1, <1>2, <1>3, <1>4, <2>1
<1>6. t.branches[p[Len(p)]].prev = t.trunk[r + 1].hash
  <2>1. CASE q = << >>
    <3>1. p[Len(p)] = h
      BY <1>3, <2>1
    <3> QED
      BY <2>1, <3>1 DEF IsPath
  <2>2. CASE q # << >>
    <3>1. Len(p) \in 2..Len(p) /\ Len(p) - 1 = Len(q)
      BY <1>2, <1>3, <2>2
    <3>2. p[Len(p)] = q[Len(q)]
      BY <3>1 DEF IsCons
    <3> QED
      BY <2>2, <3>2 DEF IsPath
  <2> QED
    BY <2>1, <2>2
<1>7. ASSUME NEW i \in 1..Len(p) PROVE t.heights[p[i]] = -(r + Len(p) + 1 - i)
  <2>1. CASE i = 1
    <3>1. t.heights[h] = -n
      BY <1>1 DEF AbsHeight
    <3> QED
      BY <1>2, <1>3, <1>4, <1>5, <2>1, <3>1
  <2>2. CASE i \in 2..Len(p)
    <3>1. i - 1 \in 1..Len(q)
      BY <1>2, <1>3, <2>2
    <3>2. p[i] = q[i - 1]
      BY <2>2 DEF IsCons
    <3>3. t.heights[q[i - 1]] = -(r + Len(q) + 1 - (i - 1))
      BY <3>1 DEF IsPath
    <3>4. -(r + Len(q) + 1 - (i - 1)) = -(r + Len(p) + 1 - i)
      BY <1>2, <1>3, <1>4, <2>2
    <3> QED
      BY <3>2, <3>3, <3>4
  <2> QED
    BY <1>2, <1>3, <2>1, <2>2
<1>8. ASSUME NEW i \in 1..(Len(p) - 1) PROVE t.branches[p[i]].prev = p[i + 1]
  <2>1. i + 1 \in 2..Len(p) /\ (i + 1) - 1 = i /\ i \in 1..Len(q)
    BY <1>2, <1>3
  <2>2. p[i + 1] = q[i]
    <3>1. p[i + 1] = q[(i + 1) - 1]
      BY <2>1 DEF IsCons
    <3> QED
      BY <2>1, <3>1
  <2>3. CASE i = 1
    <3>1. q # << >>
      BY <1>2, <2>1
    <3>2. q[1] = t.branches[h].prev
      BY <3>1 DEF IsPath
    <3> QED
      BY <1>3, <2>2, <2>3, <3>2
  <2>4. CASE i \in 2..(Len(p) - 1)
    <3>1. i - 1 \in 1..(Len(q) - 1) /\ (i - 1) + 1 = i /\ i \in 2..Len(p)
      BY <1>2, <1>3, <2>4
    <3>2. p[i] = q[i - 1]
      BY <3>1 DEF IsCons
    <3>3. t.branches[q[i - 1]].prev = q[(i - 1) + 1]
      BY <3>1 DEF IsPath
    <3> QED
      BY <2>2, <3>1, <3>2, <3>3
  <2> QED
    BY <1>2, <1>3, <2>3, <2>4
<1> QED
  BY <1>3, <1>4, <1>5, <1>6, <1>7, <1>8 DEF IsPath

(* The walk from a block goes down the branch by one height a step and ends *)
(* on the trunk.                                                            *)
LEMMA PathFacts ==
    ASSUME NEW t, IsShaped(t), NEW hash \in DOMAIN t.heights
    PROVE  IsPath(t, hash, BranchPath(t)[hash], RootHeight(t, hash))
<1> DEFINE D == DOMAIN t.heights
           P(h) == IsPath(t, h, BranchPath(t)[h], RootHeight(t, h))
           T == {n \in Nat : \E h \in D : AbsHeight(t.heights[h]) = n /\ ~P(h)}
<1>1. ASSUME NEW h \in D, t.heights[h] >= 0 PROVE P(h)
  <2>1. BranchPath(t)[h] = << >>
    BY <1>1, PathDef
  <2>2. RootHeight(t, h) = t.heights[h]
    BY <2>1 DEF RootHeight
  <2>3. /\ t.heights[h] \in Int
        /\ t.heights[h] + 1 \in 1..Len(t.trunk)
        /\ t.trunk[t.heights[h] + 1].hash = h
        /\ Len(t.trunk) \in Nat
    BY <1>1, BranchFacts DEF IsShaped, IsTyped
  <2> QED
    BY <1>1, <2>1, <2>2, <2>3 DEF IsPath, TrunkHeight, AbsHeight
<1>2. ASSUME NEW h \in D, t.heights[h] < 0, P(t.branches[h].prev)
      PROVE  P(h)
  <2>1. BranchPath(t)[h] = <<h>> \o BranchPath(t)[t.branches[h].prev]
    BY <1>2, PathDef
  <2>2. IsPath(t, h, BranchPath(t)[h], RootHeight(t, t.branches[h].prev))
    <3> DEFINE prev == t.branches[h].prev
               q == BranchPath(t)[prev]
    <3>1. h \in DOMAIN t.branches /\ q \in Seq(DOMAIN t.branches)
      BY <1>2, BranchFacts DEF IsPath
    <3>2. /\ <<h>> \o q \in Seq(DOMAIN t.branches)
          /\ IsCons(<<h>> \o q, h, q)
      BY <3>1, ConsFacts, Zenon
    <3>3. IsPath(t, h, <<h>> \o q, RootHeight(t, prev))
      BY <1>2, <3>2, PathStep, Zenon
    <3> QED
      BY <2>1, <3>3
  <2>3. RootHeight(t, h) = RootHeight(t, t.branches[h].prev)
    <3> DEFINE q == BranchPath(t)[t.branches[h].prev]
    <3>1. q \in Seq(DOMAIN t.branches)
      BY <1>2 DEF IsPath
    <3>2. h \in DOMAIN t.branches
      BY <1>2, BranchFacts
    <3>3. CASE q = << >>
      <4>1. BranchPath(t)[h] = <<h>>
        BY <2>1, <3>3
      <4>2. <<h>> # << >> /\ Len(<<h>>) = 1 /\ <<h>>[1] = h
        OBVIOUS
      <4>3. RootHeight(t, h) = t.heights[t.branches[h].prev]
        BY <4>1, <4>2 DEF RootHeight
      <4> QED
        BY <3>3, <4>3 DEF RootHeight
    <3>4. CASE q # << >>
      <4>1. /\ <<h>> \o q # << >>
            /\ (<<h>> \o q)[Len(<<h>> \o q)] = q[Len(q)]
        BY <3>1, <3>2, <3>4
      <4>2. RootHeight(t, h) = t.heights[t.branches[q[Len(q)]].prev]
        BY <2>1, <4>1 DEF RootHeight
      <4> QED
        BY <3>4, <4>2 DEF RootHeight
    <3> QED
      BY <3>3, <3>4
  <2> QED
    BY <2>2, <2>3
<1>3. T = {}
  <2> HIDE DEF P
  <2>1. SUFFICES ASSUME T # {} PROVE FALSE
    OBVIOUS
  <2>2. PICK n \in T : \A m \in T : n <= m
    BY <2>1, LeastElement
  <2>3. PICK h \in D : AbsHeight(t.heights[h]) = n /\ ~P(h)
    BY <2>2
  <2>4. t.heights[h] < 0
    BY <1>1, <2>3, BranchFacts
  <2>5. /\ t.branches[h].prev \in D
        /\ AbsHeight(t.heights[t.branches[h].prev]) \in Nat
        /\ AbsHeight(t.heights[t.branches[h].prev]) = n - 1
    BY <2>3, <2>4, BranchFacts
  <2>6. P(t.branches[h].prev)
    BY <2>2, <2>5
  <2> QED
    BY <1>2, <2>3, <2>4, <2>6
<1>4. AbsHeight(t.heights[hash]) \in Nat
  BY BranchFacts
<1> HIDE DEF P
<1>5. P(hash)
  BY <1>3, <1>4
<1> QED
  BY <1>5 DEF P
----------------------------------------------------------------------------
(* The trunk that a reorganisation builds. *)

(* The old trunk up to the root, and on it the branch p, the tip first. *)
IsRest(t, p, r, rest) ==
    /\ rest \in Seq(Refs)
    /\ Len(rest) = r + 1 + Len(p)
    /\ \A i \in 1..(r + 1) : rest[i] = t.trunk[i]
    /\ \A i \in 1..Len(p) : rest[r + Len(p) + 2 - i] = t.branches[p[i]]

(* Unwind turns a path round and looks its references up. *)
LEMMA UnwindFacts ==
    ASSUME NEW t, IsShaped(t), NEW p \in Seq(DOMAIN t.branches)
    PROVE  /\ Unwind(t, p) \in Seq(Refs)
           /\ Len(Unwind(t, p)) = Len(p)
           /\ \A i \in 1..Len(p) : /\ Len(p) + 1 - i \in 1..Len(p)
                                   /\ Unwind(t, p)[i] = t.branches[p[Len(p) + 1 - i]]
<1>1. Len(p) \in Nat
  OBVIOUS
<1>2. ASSUME NEW i \in 1..Len(p)
      PROVE  /\ Len(p) + 1 - i \in 1..Len(p)
             /\ t.branches[p[Len(p) + 1 - i]] \in Refs
  <2>1. Len(p) + 1 - i \in 1..Len(p)
    BY <1>1
  <2>2. p[Len(p) + 1 - i] \in DOMAIN t.branches
    BY <2>1
  <2> QED
    BY <2>1, <2>2 DEF IsShaped, IsTyped
<1>3. Unwind(t, p) = [i \in 1..Len(p) |-> t.branches[p[Len(p) + 1 - i]]]
  BY DEF Unwind
<1>4. Unwind(t, p) \in Seq(Refs) /\ Len(Unwind(t, p)) = Len(p)
  BY <1>1, <1>2, <1>3
<1> QED
  BY <1>2, <1>3, <1>4

(* The first n elements of a sequence. *)
LEMMA PrefixFacts ==
    ASSUME NEW S, NEW s \in Seq(S), NEW n \in 0..Len(s)
    PROVE  /\ SubSeq(s, 1, n) \in Seq(S)
           /\ Len(SubSeq(s, 1, n)) = n
           /\ \A i \in 1..n : SubSeq(s, 1, n)[i] = s[i]
  OBVIOUS

(* w is the sequence u followed by v. *)
IsConcat(w, u, v) ==
    /\ Len(w) = Len(u) + Len(v)
    /\ \A i \in 1..Len(u) : w[i] = u[i]
    /\ \A i \in 1..Len(v) : w[Len(u) + i] = v[i]

(* What concatenation makes of two sequences. *)
LEMMA ConcatFacts ==
    ASSUME NEW S, NEW u \in Seq(S), NEW v \in Seq(S)
    PROVE  u \o v \in Seq(S) /\ IsConcat(u \o v, u, v)
  BY DEF IsConcat

(* w is the sequence u with x put after it. *)
IsAppend(w, u, x) ==
    /\ Len(w) = Len(u) + 1
    /\ \A i \in 1..Len(u) : w[i] = u[i]
    /\ w[Len(u) + 1] = x
    /\ w # << >>

(* What Append makes of a sequence. *)
LEMMA AppendFacts ==
    ASSUME NEW S, NEW u \in Seq(S), NEW x \in S
    PROVE  Append(u, x) \in Seq(S) /\ IsAppend(Append(u, x), u, x)
  BY DEF IsAppend

(* The trunk that InsertBest pushes the new reference on. *)
LEMMA RestFacts ==
    ASSUME NEW t, IsShaped(t), NEW prev \in DOMAIN t.heights,
           NEW p, NEW r, IsPath(t, prev, p, r)
    PROVE  IsRest(t, p, r, SubSeq(t.trunk, 1, r + 1) \o Unwind(t, p))
<1> DEFINE low == SubSeq(t.trunk, 1, r + 1)
           rest == low \o Unwind(t, p)
<1>1. t.trunk \in Seq(Refs) /\ r + 1 \in 0..Len(t.trunk) /\ r \in Nat
  BY TrunkFacts DEF IsPath, IsShaped
<1>2. p \in Seq(DOMAIN t.branches) /\ Len(p) \in Nat
  BY DEF IsPath
<1>3. /\ low \in Seq(Refs)
      /\ Len(low) = r + 1
      /\ \A i \in 1..(r + 1) : low[i] = t.trunk[i]
  BY <1>1, PrefixFacts, Zenon
<1>4. /\ Unwind(t, p) \in Seq(Refs)
      /\ Len(Unwind(t, p)) = Len(p)
      /\ \A i \in 1..Len(p) : Unwind(t, p)[i] = t.branches[p[Len(p) + 1 - i]]
  BY <1>2, UnwindFacts
<1> HIDE DEF low
<1>5. /\ rest \in Seq(Refs)
      /\ Len(rest) = Len(low) + Len(Unwind(t, p))
      /\ \A i \in 1..Len(low) : rest[i] = low[i]
      /\ \A i \in 1..Len(Unwind(t, p)) : rest[Len(low) + i] = Unwind(t, p)[i]
  <2>1. low \in Seq(Refs) /\ Unwind(t, p) \in Seq(Refs)
    BY <1>3, <1>4
  <2>2. rest \in Seq(Refs) /\ IsConcat(rest, low, Unwind(t, p))
    BY <2>1, ConcatFacts, Zenon
  <2> QED
    BY <2>2 DEF IsConcat
<1> HIDE DEF rest
<1>6. Len(rest) = r + 1 + Len(p)
  BY <1>3, <1>4, <1>5
<1>7. \A i \in 1..(r + 1) : rest[i] = t.trunk[i]
  BY <1>3, <1>5
<1>8. ASSUME NEW i \in 1..Len(p)
      PROVE  rest[r + Len(p) + 2 - i] = t.branches[p[i]]
  <2> DEFINE j == Len(p) + 1 - i
  <2>1. j \in 1..Len(p) /\ Len(p) + 1 - j = i /\ r + Len(p) + 2 - i = (r + 1) + j
    BY <1>1, <1>2
  <2> HIDE DEF j
  <2>2. rest[(r + 1) + j] = Unwind(t, p)[j]
    BY <1>3, <1>4, <1>5, <2>1
  <2>3. Unwind(t, p)[j] = t.branches[p[i]]
    BY <1>4, <2>1
  <2> QED
    BY <2>1, <2>2, <2>3
<1>9. IsRest(t, p, r, rest)
  BY <1>5, <1>6, <1>7, <1>8 DEF IsRest
<1> QED
  BY <1>9 DEF rest, low

(* Such a trunk is linked and ends in the block the walk began at; each of  *)
(* its blocks is at its height, with a negative sign if it was in a branch. *)
LEMMA RestLinked ==
    ASSUME NEW t, IsShaped(t), NEW prev \in DOMAIN t.heights,
           NEW p, NEW r, IsPath(t, prev, p, r),
           NEW rest, IsRest(t, p, r, rest)
    PROVE  /\ rest[1].hash = Genesis
           /\ \A i \in 2..Len(rest) : rest[i].prev = rest[i - 1].hash
           /\ rest[Len(rest)].hash = prev
           /\ \A i \in 1..Len(rest) :
                 /\ rest[i].hash \in DOMAIN t.heights
                 /\ i <= r + 1 => t.heights[rest[i].hash] = i - 1
                 /\ i > r + 1 => /\ rest[i].hash \in RangeOf(p)
                                /\ t.heights[rest[i].hash] = -(i - 1)
<1>1. t.trunk \in Seq(Refs) /\ r + 1 \in 1..Len(t.trunk) /\ r \in Nat
  BY TrunkFacts DEF IsPath, IsShaped
<1>2. p \in Seq(DOMAIN t.branches) /\ Len(p) \in Nat
  BY DEF IsPath
<1>3. Len(rest) = r + 1 + Len(p)
  BY DEF IsRest
<1>4. ASSUME NEW k \in 1..Len(p)
      PROVE  /\ rest[r + Len(p) + 2 - k] = t.branches[p[k]]
             /\ t.branches[p[k]].hash = p[k]
             /\ p[k] \in DOMAIN t.heights
             /\ t.heights[p[k]] = -(r + Len(p) + 1 - k)
             /\ p[k] \in RangeOf(p)
  <2>1. p[k] \in DOMAIN t.branches
    BY <1>2
  <2>2. t.branches[p[k]].hash = p[k] /\ p[k] \in DOMAIN t.heights
    BY <2>1 DEF IsShaped, IsSigned, Have
  <2>3. /\ rest[r + Len(p) + 2 - k] = t.branches[p[k]]
        /\ t.heights[p[k]] = -(r + Len(p) + 1 - k)
    BY DEF IsRest, IsPath
  <2> QED
    BY <2>2, <2>3 DEF RangeOf
<1>5. ASSUME NEW i \in 1..(r + 1)
      PROVE  /\ rest[i] = t.trunk[i]
             /\ i \in 1..Len(t.trunk)
             /\ rest[i].hash \in DOMAIN t.heights
             /\ t.heights[rest[i].hash] = i - 1
  <2>1. rest[i] = t.trunk[i] /\ i \in 1..Len(t.trunk)
    BY <1>1 DEF IsRest
  <2> QED
    BY <2>1 DEF IsShaped, IsSigned, Have
<1>6. rest[1].hash = Genesis
  BY <1>1, <1>5 DEF IsShaped, IsLinked
<1>7. ASSUME NEW i \in 1..Len(rest), i > r + 1
      PROVE  \E k \in 1..Len(p) : /\ i = r + Len(p) + 2 - k
                                  /\ rest[i] = t.branches[p[k]]
                                  /\ rest[i].hash = p[k]
  <2> DEFINE k == r + Len(p) + 2 - i
  <2>1. k \in 1..Len(p) /\ i = r + Len(p) + 2 - k
    BY <1>1, <1>2, <1>3, <1>7
  <2> HIDE DEF k
  <2> QED
    BY <1>4, <2>1
<1>8. ASSUME NEW i \in 1..Len(rest)
      PROVE  /\ rest[i].hash \in DOMAIN t.heights
             /\ i <= r + 1 => t.heights[rest[i].hash] = i - 1
             /\ i > r + 1 => /\ rest[i].hash \in RangeOf(p)
                            /\ t.heights[rest[i].hash] = -(i - 1)
  <2>1. CASE i <= r + 1
    <3>1. i \in 1..(r + 1)
      BY <1>1, <2>1
    <3> QED
      BY <1>1, <1>5, <2>1, <3>1
  <2>2. CASE i > r + 1
    <3>1. PICK k \in 1..Len(p) : i = r + Len(p) + 2 - k /\ rest[i].hash = p[k]
      BY <1>7, <2>2
    <3>2. -(r + Len(p) + 1 - k) = -(i - 1)
      BY <1>1, <1>2, <3>1
    <3>3. /\ rest[i].hash \in DOMAIN t.heights
          /\ rest[i].hash \in RangeOf(p)
          /\ t.heights[rest[i].hash] = -(i - 1)
      BY <1>4, <3>1, <3>2
    <3> QED
      BY <1>1, <2>2, <3>3
  <2> QED
    BY <1>1, <2>1, <2>2
<1>9. rest[Len(rest)].hash = prev
  <2>1. CASE p = << >>
    <3>1. Len(rest) = r + 1 /\ r + 1 \in 1..(r + 1)
      BY <1>1, <1>3, <2>1
    <3> QED
      BY <1>5, <2>1, <3>1 DEF IsPath
  <2>2. CASE p # << >>
    <3>1. 1 \in 1..Len(p) /\ Len(rest) = r + Len(p) + 2 - 1
      BY <1>1, <1>2, <1>3, <2>2
    <3>2. rest[Len(rest)].hash = p[1]
      BY <1>4, <3>1
    <3> QED
      BY <2>2, <3>2 DEF IsPath
  <2> QED
    BY <2>1, <2>2
<1>10. ASSUME NEW i \in 2..Len(rest) PROVE rest[i].prev = rest[i - 1].hash
  <2>1. CASE i <= r + 1
    <3>1. i \in 1..(r + 1) /\ i - 1 \in 1..(r + 1) /\ i \in 2..Len(t.trunk)
      BY <1>1, <2>1
    <3> QED
      BY <1>5, <3>1 DEF IsShaped, IsLinked
  <2>2. CASE i = r + 2
    <3>1. /\ Len(p) \in 1..Len(p)
          /\ i = r + Len(p) + 2 - Len(p)
          /\ i - 1 = r + 1
          /\ r + 1 \in 1..(r + 1)
          /\ p # << >>
      BY <1>1, <1>2, <1>3, <2>2
    <3>2. rest[i] = t.branches[p[Len(p)]]
      BY <1>4, <3>1
    <3>3. rest[i].prev = t.trunk[r + 1].hash
      BY <3>1, <3>2 DEF IsPath
    <3> QED
      BY <1>5, <3>1, <3>3
  <2>3. CASE i > r + 2
    <3> DEFINE k == r + Len(p) + 2 - i
    <3>1. /\ k \in 1..(Len(p) - 1)
          /\ k \in 1..Len(p)
          /\ k + 1 \in 1..Len(p)
          /\ i = r + Len(p) + 2 - k
          /\ i - 1 = r + Len(p) + 2 - (k + 1)
      BY <1>1, <1>2, <1>3, <2>3
    <3> HIDE DEF k
    <3>2. rest[i] = t.branches[p[k]]
      BY <1>4, <3>1
    <3>3. rest[i - 1].hash = p[k + 1]
      BY <1>4, <3>1
    <3>4. t.branches[p[k]].prev = p[k + 1]
      BY <3>1 DEF IsPath
    <3> QED
      BY <3>2, <3>3, <3>4
  <2> QED
    BY <1>1, <2>1, <2>2, <2>3
<1> QED
  BY <1>6, <1>8, <1>9, <1>10
(* The blocks above the root are those with a height above it. *)
LEMMA AboveFacts ==
    ASSUME NEW t, IsShaped(t), NEW r \in 0..TrunkHeight(t)
    PROVE  /\ Hashes(TrunkAbove(t, r)) \in Seq(Hash)
           /\ RangeOf(Hashes(TrunkAbove(t, r)))
                 = {hash \in DOMAIN t.heights : t.heights[hash] > r}
<1> DEFINE above == TrunkAbove(t, r)
<1>1. /\ t.trunk \in Seq(Refs)
      /\ Len(t.trunk) \in Nat
      /\ r \in Nat
      /\ TrunkHeight(t) - r \in Nat
      /\ TrunkHeight(t) = Len(t.trunk) - 1
  BY TrunkFacts DEF IsShaped
<1>2. ASSUME NEW i \in 1..(TrunkHeight(t) - r)
      PROVE  r + 1 + i \in 1..Len(t.trunk) /\ t.trunk[r + 1 + i] \in Refs
  <2>1. r + 1 + i \in 1..Len(t.trunk)
    BY <1>1
  <2> QED
    BY <1>1, <2>1
<1>3. above = [i \in 1..(TrunkHeight(t) - r) |-> t.trunk[r + 1 + i]]
  BY DEF TrunkAbove
<1> HIDE DEF above
<1>4. above \in Seq(Refs) /\ Len(above) = TrunkHeight(t) - r
  <2> DEFINE n == TrunkHeight(t) - r
  <2>1. above \in [1..n -> Refs]
    BY <1>2, <1>3
  <2>2. n \in Nat
    BY <1>1
  <2> HIDE DEF n
  <2>3. above \in Seq(Refs) /\ Len(above) = n
    BY <2>1, <2>2, SequenceOf
  <2> QED
    BY <2>3 DEF n
<1>5. /\ Hashes(above) \in Seq(Hash)
      /\ RangeOf(Hashes(above)) = {above[i].hash : i \in 1..Len(above)}
  BY <1>4, HashesFacts
<1>6. ASSUME NEW i \in 1..Len(above)
      PROVE  above[i].hash \in {hash \in DOMAIN t.heights : t.heights[hash] > r}
  <2>1. above[i] = t.trunk[r + 1 + i] /\ r + 1 + i \in 1..Len(t.trunk)
    BY <1>2, <1>3, <1>4
  <2>2. above[i].hash \in DOMAIN t.heights /\ t.heights[above[i].hash] = r + 1 + i - 1
    BY <2>1 DEF IsShaped, IsSigned, Have
  <2>3. r + 1 + i - 1 > r
    BY <1>1, <1>4
  <2> QED
    BY <2>2, <2>3
<1>7. ASSUME NEW hash \in DOMAIN t.heights, t.heights[hash] > r
      PROVE  \E i \in 1..Len(above) : hash = above[i].hash
  <2> DEFINE k == t.heights[hash]
             i == k - r
  <2>1. k \in Int /\ k >= 0
    BY <1>1, <1>7, BranchFacts
  <2>2. k + 1 \in 1..Len(t.trunk) /\ t.trunk[k + 1].hash = hash
    BY <2>1, BranchFacts
  <2>3. i \in 1..Len(above) /\ r + 1 + i = k + 1
    <3>1. k \in Int /\ k > r /\ k + 1 \in 1..Len(t.trunk)
      BY <1>7, <2>1, <2>2
    <3>2. Len(above) = Len(t.trunk) - 1 - r
      BY <1>1, <1>4
    <3> HIDE DEF k
    <3>3. k - r \in 1..(Len(t.trunk) - 1 - r) /\ r + 1 + (k - r) = k + 1
      BY <1>1, <3>1
    <3> QED
      BY <3>2, <3>3
  <2> HIDE DEF i
  <2>4. above[i] = t.trunk[k + 1]
    BY <1>3, <1>4, <2>3
  <2> QED
    BY <2>2, <2>3, <2>4
<1>8. RangeOf(Hashes(above)) = {hash \in DOMAIN t.heights : t.heights[hash] > r}
  BY <1>5, <1>6, <1>7
<1> QED
  BY <1>5, <1>8 DEF above

----------------------------------------------------------------------------
(* insert() keeps the shape of a tree. *)

(* u is the tree that moving the trunk to ref makes of t, but for its work. *)
IsMoved(t, ref, p, r, rest, u) ==
    /\ IsRecord(u)
    /\ u.trunk = Append(rest, ref)
    /\ u.branches = [hash \in (DOMAIN t.branches \cup
                                {h \in DOMAIN t.heights : t.heights[h] > r})
                               \ RangeOf(p) |-> At(t, hash)]
    /\ u.heights = [hash \in DOMAIN t.heights \cup {ref.hash} |->
                      IF hash = ref.hash THEN Len(rest)
                      ELSE IF t.heights[hash] > r \/ hash \in RangeOf(p)
                      THEN -t.heights[hash] ELSE t.heights[hash]]

(* What InsertBest makes of a tree, in these terms. *)
LEMMA InsertBestFacts ==
    ASSUME NEW t, IsShaped(t), NEW ref \in Refs,
           ref.hash \notin DOMAIN t.heights, ref.prev \in DOMAIN t.heights
    PROVE  \E p, r, rest :
              /\ p = BranchPath(t)[ref.prev]
              /\ r = RootHeight(t, ref.prev)
              /\ IsPath(t, ref.prev, p, r)
              /\ IsRest(t, p, r, rest)
              /\ IsMoved(t, ref, p, r, rest, InsertBest(t, ref))
              /\ InsertBest(t, ref).acc =
                    Append(PushWork(SubSeq(t.acc, 1, r + 1), rest),
                           AccumulatedWork(t)[ref.prev] + ref.work)
<1> DEFINE p == BranchPath(t)[ref.prev]
           r == RootHeight(t, ref.prev)
           rest == SubSeq(t.trunk, 1, r + 1) \o Unwind(t, p)
           above == RangeOf(Hashes(TrunkAbove(t, r)))
           u == InsertBest(t, ref)
<1>1. IsPath(t, ref.prev, p, r)
  BY PathFacts
<1>2. IsRest(t, p, r, rest)
  BY <1>1, RestFacts
<1>3. r \in 0..TrunkHeight(t)
  BY <1>1 DEF IsPath
<1>4. above = {h \in DOMAIN t.heights : t.heights[h] > r}
  BY <1>3, AboveFacts
<1>5. u = [trunk    |-> Append(rest, ref),
           branches |-> [hash \in (DOMAIN t.branches \cup above) \ RangeOf(p) |->
                           At(t, hash)],
           heights  |-> [hash \in DOMAIN t.heights \cup {ref.hash} |->
                           IF hash = ref.hash THEN Len(rest)
                           ELSE IF hash \in above \cup RangeOf(p)
                           THEN -t.heights[hash] ELSE t.heights[hash]],
           acc      |-> Append(PushWork(SubSeq(t.acc, 1, r + 1), rest),
                               AccumulatedWork(t)[ref.prev] + ref.work)]
  BY DEF InsertBest
<1> HIDE DEF p, r, rest, above, u
<1>6. /\ IsRecord(u)
      /\ u.trunk = Append(rest, ref)
      /\ u.branches = [hash \in (DOMAIN t.branches \cup above) \ RangeOf(p) |->
                         At(t, hash)]
      /\ u.heights = [hash \in DOMAIN t.heights \cup {ref.hash} |->
                        IF hash = ref.hash THEN Len(rest)
                        ELSE IF hash \in above \cup RangeOf(p)
                        THEN -t.heights[hash] ELSE t.heights[hash]]
      /\ u.acc = Append(PushWork(SubSeq(t.acc, 1, r + 1), rest),
                        AccumulatedWork(t)[ref.prev] + ref.work)
  BY <1>5 DEF IsRecord
<1>7. u.heights = [hash \in DOMAIN t.heights \cup {ref.hash} |->
                    IF hash = ref.hash THEN Len(rest)
                    ELSE IF t.heights[hash] > r \/ hash \in RangeOf(p)
                    THEN -t.heights[hash] ELSE t.heights[hash]]
  BY <1>4, <1>6
<1>8. IsMoved(t, ref, p, r, rest, u)
  BY <1>4, <1>6, <1>7 DEF IsMoved
<1> QED
  BY <1>1, <1>2, <1>6, <1>8 DEF p, r, u
(* The blocks of a branch that moves have negative heights. *)
LEMMA PathIsBranch ==
    ASSUME NEW t, IsShaped(t), NEW p \in Seq(DOMAIN t.branches), NEW h \in RangeOf(p)
    PROVE  h \in DOMAIN t.branches /\ h \in DOMAIN t.heights /\ t.heights[h] < 0
<1>1. PICK i \in 1..Len(p) : h = p[i]
  BY DEF RangeOf
<1>2. h \in DOMAIN t.branches
  BY <1>1
<1>3. h \in DOMAIN t.heights
  BY <1>2 DEF IsShaped, IsSigned, Have
<1> QED
  BY <1>2, <1>3, BranchFacts

(* How the heights of u come from those of t. *)
HeightsMoved(t, ref, p, r, rest, u) ==
    /\ DOMAIN u.heights = DOMAIN t.heights \cup {ref.hash}
    /\ u.heights[ref.hash] = Len(rest)
    /\ \A h \in DOMAIN t.heights :
          /\ t.heights[h] > r => u.heights[h] = -t.heights[h]
          /\ h \in RangeOf(p) => u.heights[h] = -t.heights[h]
          /\ ~(t.heights[h] > r) /\ h \notin RangeOf(p)
                => u.heights[h] = t.heights[h]
          /\ u.heights[h] \in Int
          /\ AbsHeight(u.heights[h]) = AbsHeight(t.heights[h])

(* The heights after a reorganisation, in the cases of HeightsMoved. *)
LEMMA MovedHeights ==
    ASSUME NEW t, IsShaped(t), NEW ref \in Refs,
           ref.hash \notin DOMAIN t.heights, ref.prev \in DOMAIN t.heights,
           NEW p, NEW r, IsPath(t, ref.prev, p, r),
           NEW rest, IsRest(t, p, r, rest),
           NEW u, IsMoved(t, ref, p, r, rest, u)
    PROVE  HeightsMoved(t, ref, p, r, rest, u)
<1>1. /\ DOMAIN u.heights = DOMAIN t.heights \cup {ref.hash}
      /\ u.heights[ref.hash] = Len(rest)
  BY DEF IsMoved
<1>2. ASSUME NEW h \in DOMAIN t.heights
      PROVE  u.heights[h] = IF t.heights[h] > r \/ h \in RangeOf(p)
                            THEN -t.heights[h] ELSE t.heights[h]
  BY DEF IsMoved
<1>3. ASSUME NEW h \in DOMAIN t.heights
      PROVE  /\ u.heights[h] \in Int
             /\ AbsHeight(u.heights[h]) = AbsHeight(t.heights[h])
  <2>1. t.heights[h] \in Int
    BY BranchFacts
  <2>2. u.heights[h] = t.heights[h] \/ u.heights[h] = -t.heights[h]
    BY <1>2
  <2> QED
    BY <2>1, <2>2 DEF AbsHeight
<1> QED
  BY <1>1, <1>2, <1>3 DEF HeightsMoved

(* A reorganisation keeps the sign and size of every height. *)
LEMMA MovedSigned ==
    ASSUME NEW t, IsShaped(t), NEW ref \in Refs,
           ref.hash \notin DOMAIN t.heights, ref.prev \in DOMAIN t.heights,
           NEW p, NEW r, IsPath(t, ref.prev, p, r),
           NEW rest, IsRest(t, p, r, rest),
           NEW u, IsMoved(t, ref, p, r, rest, u)
    PROVE  IsSigned(u) /\ IsLinked(u) /\ u.trunk \in Seq(Refs) /\ u.trunk # << >>
<1> DEFINE D == DOMAIN t.heights
           n == Len(rest)
<1>1. /\ r \in Nat
      /\ p \in Seq(DOMAIN t.branches)
      /\ Len(p) \in Nat
      /\ rest \in Seq(Refs)
      /\ n \in Nat
      /\ n = r + 1 + Len(p)
  BY TrunkFacts DEF IsPath, IsRest, IsShaped
<1>2. /\ u.trunk \in Seq(Refs)
      /\ Len(u.trunk) = n + 1
      /\ \A i \in 1..n : u.trunk[i] = rest[i]
      /\ u.trunk[n + 1] = ref
      /\ u.trunk # << >>
  <2>1. u.trunk = Append(rest, ref) /\ rest \in Seq(Refs)
    BY <1>1 DEF IsMoved
  <2>2. u.trunk \in Seq(Refs) /\ IsAppend(u.trunk, rest, ref)
    BY <2>1, AppendFacts, Zenon
  <2> QED
    BY <2>2 DEF IsAppend
<1>3. /\ rest[1].hash = Genesis
      /\ \A i \in 2..n : rest[i].prev = rest[i - 1].hash
      /\ rest[n].hash = ref.prev
      /\ \A i \in 1..n :
            /\ rest[i].hash \in D
            /\ i <= r + 1 => t.heights[rest[i].hash] = i - 1
            /\ i > r + 1 => /\ rest[i].hash \in RangeOf(p)
                           /\ t.heights[rest[i].hash] = -(i - 1)
  BY RestLinked
<1>h. /\ DOMAIN u.heights = D \cup {ref.hash}
      /\ u.heights[ref.hash] = n
      /\ \A h \in D :
            /\ t.heights[h] > r => u.heights[h] = -t.heights[h]
            /\ h \in RangeOf(p) => u.heights[h] = -t.heights[h]
            /\ ~(t.heights[h] > r) /\ h \notin RangeOf(p)
                  => u.heights[h] = t.heights[h]
            /\ AbsHeight(u.heights[h]) = AbsHeight(t.heights[h])
  <2>1. HeightsMoved(t, ref, p, r, rest, u)
    BY MovedHeights
  <2> QED
    BY <2>1 DEF HeightsMoved
<1> HIDE DEF n
<1>4. IsLinked(u)
  <2>1. u.trunk[1].hash = Genesis
    BY <1>1, <1>2, <1>3
  <2>2. ASSUME NEW i \in 2..Len(u.trunk)
        PROVE  u.trunk[i].prev = u.trunk[i - 1].hash
    <3>1. CASE i = n + 1
      <4>1. i - 1 = n /\ n \in 1..n
        BY <1>1, <3>1
      <4> QED
        BY <1>2, <1>3, <3>1, <4>1
    <3>2. CASE i \in 2..n
      <4>1. i \in 1..n /\ i - 1 \in 1..n
        BY <1>1, <3>2
      <4> QED
        BY <1>2, <1>3, <3>2, <4>1
    <3> QED
      BY <1>1, <1>2, <3>1, <3>2
  <2> QED
    BY <2>1, <2>2 DEF IsLinked
<1>5. ASSUME NEW i \in 1..Len(u.trunk)
      PROVE  Have(u, u.trunk[i].hash) /\ u.heights[u.trunk[i].hash] = i - 1
  <2>1. CASE i = n + 1
    <3>1. u.trunk[i] = ref /\ n = i - 1
      BY <1>1, <1>2, <2>1
    <3> QED
      BY <3>1, <1>h DEF Have, n
  <2>2. CASE i \in 1..(r + 1)
    <3>1. i \in 1..n /\ i <= r + 1
      BY <1>1, <2>2
    <3>2. /\ u.trunk[i] = rest[i]
          /\ rest[i].hash \in D
          /\ t.heights[rest[i].hash] = i - 1
      BY <1>2, <1>3, <3>1
    <3>3. ~(i - 1 > r) /\ ~(i - 1 < 0)
      BY <1>1, <2>2
    <3>4. rest[i].hash \notin RangeOf(p)
      BY <1>1, <3>2, <3>3, PathIsBranch
    <3> QED
      BY <3>2, <3>3, <3>4, <1>h DEF Have
  <2>3. CASE i > r + 1 /\ i \in 1..n
    <3>1. /\ u.trunk[i] = rest[i]
          /\ rest[i].hash \in D
          /\ rest[i].hash \in RangeOf(p)
          /\ t.heights[rest[i].hash] = -(i - 1)
      BY <1>2, <1>3, <2>3
    <3>2. -(-(i - 1)) = i - 1
      BY <2>3
    <3>3. u.heights[rest[i].hash] = -(-(i - 1)) /\ Have(u, rest[i].hash)
      BY <3>1, <1>h DEF Have
    <3> QED
      BY <3>1, <3>2, <3>3
  <2> QED
    BY <1>1, <1>2, <2>1, <2>2, <2>3
<1>6. DOMAIN u.branches =
        (DOMAIN t.branches \cup {h \in D : t.heights[h] > r}) \ RangeOf(p)
  BY DEF IsMoved
<1>7. ASSUME NEW h \in DOMAIN u.branches
      PROVE  /\ u.branches[h] \in Refs
             /\ u.branches[h].hash = h
             /\ Have(u, h)
             /\ Have(u, u.branches[h].prev)
             /\ u.heights[h] = -AbsHeight(u.heights[u.branches[h].prev]) - 1
  <2>1. h \in D
    BY <1>6 DEF IsShaped, IsSigned, Have
  <2>2. u.branches[h] = At(t, h)
    BY <1>6 DEF IsMoved
  <2>3. CASE t.heights[h] < 0
    <3> DEFINE prev == t.branches[h].prev
    <3>1. At(t, h) = t.branches[h]
      BY <2>3 DEF At
    <3>2. h \in DOMAIN t.branches
      BY <2>1, <2>3, BranchFacts
    <3>3. /\ t.branches[h].hash = h
          /\ t.branches[h] \in Refs
          /\ prev \in D
      BY <2>1, <2>3, BranchFacts
    <3>4. t.heights[h] = -AbsHeight(t.heights[prev]) - 1
      BY <3>2 DEF IsShaped, IsSigned
    <3>5. ~(t.heights[h] > r) /\ h \notin RangeOf(p)
      BY <1>1, <1>6, <2>1, <2>3, BranchFacts
    <3>6. u.heights[h] = t.heights[h]
      BY <2>1, <3>5, <1>h
    <3>7. AbsHeight(u.heights[prev]) = AbsHeight(t.heights[prev])
      BY <3>3, <1>h
    <3>8. Have(u, h) /\ Have(u, prev)
      BY <2>1, <3>3, <1>h DEF Have
    <3> QED
      BY <2>2, <3>1, <3>3, <3>4, <3>6, <3>7, <3>8
  <2>4. CASE ~(t.heights[h] < 0)
    <3> DEFINE k == t.heights[h]
    <3>1. k > r
      BY <1>6, <2>1, <2>4, BranchFacts
    <3>2. /\ k \in Int
          /\ k + 1 \in 1..Len(t.trunk)
          /\ t.trunk[k + 1] \in Refs
          /\ t.trunk[k + 1].hash = h
      <4>1. k \in Int /\ k >= 0
        BY <2>1, <2>4, BranchFacts
      <4> QED
        BY <2>1, <4>1, BranchFacts
    <3>3. At(t, h) = t.trunk[k + 1]
      BY <2>4 DEF At
    <3>4. k + 1 \in 2..Len(t.trunk) /\ (k + 1) - 1 = k /\ k \in 1..Len(t.trunk)
      BY <1>1, <3>1, <3>2, SMTT(30)
    <3> DEFINE prev == t.trunk[k].hash
    <3>5. t.trunk[k + 1].prev = prev
      BY <3>4 DEF IsShaped, IsLinked
    <3>6. prev \in D /\ t.heights[prev] = k - 1
      BY <3>4 DEF IsShaped, IsSigned, Have
    <3>7. AbsHeight(u.heights[prev]) = AbsHeight(t.heights[prev])
      BY <3>6, <1>h
    <3>8. AbsHeight(t.heights[prev]) = k - 1
      BY <3>4, <3>6 DEF AbsHeight
    <3>9. u.heights[h] = -k
      BY <2>1, <3>1, <1>h
    <3>10. -k = -(k - 1) - 1
      BY <3>2
    <3>11. Have(u, h) /\ Have(u, prev)
      BY <2>1, <3>6, <1>h DEF Have
    <3> QED
      BY <2>2, <3>2, <3>3, <3>5, <3>7, <3>8, <3>9, <3>10, <3>11
  <2> QED
    BY <2>3, <2>4
<1>8. DOMAIN u.heights = RangeOf(Hashes(u.trunk)) \cup DOMAIN u.branches
  <2>1. RangeOf(Hashes(u.trunk)) = {u.trunk[i].hash : i \in 1..Len(u.trunk)}
    BY <1>2, HashesFacts
  <2>2. ASSUME NEW h \in DOMAIN u.heights
        PROVE  h \in RangeOf(Hashes(u.trunk)) \cup DOMAIN u.branches
    <3>1. CASE h = ref.hash
      <4>1. n + 1 \in 1..Len(u.trunk)
        BY <1>1, <1>2
      <4> QED
        BY <1>2, <2>1, <3>1, <4>1
    <3>2. CASE h \in RangeOf(p)
      <4>1. PICK k \in 1..Len(p) : h = p[k]
        BY <3>2 DEF RangeOf
      <4>2. rest[r + Len(p) + 2 - k] = t.branches[h] /\ t.branches[h].hash = h
        <5>1. h \in DOMAIN t.branches
          BY <1>1, <3>2, PathIsBranch
        <5> QED
          BY <4>1, <5>1 DEF IsRest, IsShaped, IsSigned
      <4>3. r + Len(p) + 2 - k \in 1..n /\ r + Len(p) + 2 - k \in 1..Len(u.trunk)
        BY <1>1, <1>2, <4>1
      <4> QED
        BY <1>2, <2>1, <4>2, <4>3
    <3>3. CASE h \in D /\ h \notin RangeOf(p)
      <4>1. CASE t.heights[h] < 0
        BY <1>6, <3>3, <4>1, BranchFacts
      <4>2. CASE t.heights[h] > r
        BY <1>6, <3>3, <4>2
      <4>3. CASE t.heights[h] \in 0..r
        <5> DEFINE k == t.heights[h] + 1
        <5>1. k \in 1..(r + 1) /\ k \in 1..n /\ k \in 1..Len(u.trunk)
          BY <1>1, <1>2, <4>3, SMTT(30)
        <5>2. t.heights[h] >= 0
          BY <1>1, <4>3
        <5>3. t.trunk[k].hash = h
          BY <3>3, <5>2, BranchFacts
        <5> HIDE DEF k
        <5>4. u.trunk[k] = t.trunk[k]
          BY <1>2, <5>1 DEF IsRest
        <5> QED
          BY <2>1, <5>1, <5>3, <5>4
      <4>4. t.heights[h] \in Int
        BY <3>3, BranchFacts
      <4> QED
        BY <1>1, <4>1, <4>2, <4>3, <4>4
    <3> QED
      BY <3>1, <3>2, <3>3, <1>h
  <2>3. ASSUME NEW h \in RangeOf(Hashes(u.trunk)) \cup DOMAIN u.branches
        PROVE  h \in DOMAIN u.heights
    BY <1>5, <1>7, <2>1 DEF Have
  <2> QED
    BY <2>2, <2>3
<1>9. IsSigned(u)
  BY <1>5, <1>7, <1>8 DEF IsSigned
<1> QED
  BY <1>2, <1>4, <1>9
(* A reorganisation keeps the shape of the tree. *)
LEMMA MovedShaped ==
    ASSUME NEW t, IsShaped(t), NEW ref \in Refs,
           ref.hash \notin DOMAIN t.heights, ref.prev \in DOMAIN t.heights,
           NEW p, NEW r, IsPath(t, ref.prev, p, r),
           NEW rest, IsRest(t, p, r, rest),
           NEW u, IsMoved(t, ref, p, r, rest, u), u.acc \in Seq(Nat)
    PROVE  IsShaped(u)
<1>1. IsSigned(u) /\ IsLinked(u) /\ u.trunk \in Seq(Refs) /\ u.trunk # << >>
  BY MovedSigned
<1>2. HeightsMoved(t, ref, p, r, rest, u)
  BY MovedHeights
<1>3. Len(rest) \in Nat
  BY DEF IsRest
<1>4. /\ DOMAIN u.heights = DOMAIN t.heights \cup {ref.hash}
      /\ u.heights[ref.hash] = Len(rest)
      /\ \A h \in DOMAIN t.heights :
            /\ u.heights[h] \in Int
            /\ AbsHeight(u.heights[h]) = AbsHeight(t.heights[h])
  BY <1>2 DEF HeightsMoved
<1>5. DOMAIN u.heights \subseteq Hash
  BY <1>4, RefFacts DEF IsShaped, IsTyped
<1>6. u.heights \in [DOMAIN u.heights -> Int]
  <2>1. u.heights = [h \in DOMAIN u.heights |-> u.heights[h]]
    BY DEF IsMoved
  <2>2. \A h \in DOMAIN u.heights : u.heights[h] \in Int
    BY <1>3, <1>4
  <2> QED
    BY <2>1, <2>2
<1>7. /\ DOMAIN u.branches \subseteq Hash
      /\ u.branches \in [DOMAIN u.branches -> Refs]
  <2>1. DOMAIN u.branches \subseteq Hash
    BY <1>1, <1>5 DEF IsSigned, Have
  <2>2. u.branches = [h \in DOMAIN u.branches |-> u.branches[h]]
    BY DEF IsMoved
  <2>3. ASSUME NEW h \in DOMAIN u.branches PROVE u.branches[h] \in Refs
    <3>1. u.branches[h] = At(t, h) /\ h \in DOMAIN t.heights
      BY DEF IsMoved, IsShaped, IsSigned, Have
    <3>2. t.heights[h] \in Int
      BY <3>1, BranchFacts
    <3>3. t.heights[h] < 0 => t.branches[h] \in Refs
      BY <3>1, BranchFacts
    <3>4. t.heights[h] >= 0 => t.trunk[t.heights[h] + 1] \in Refs
      BY <3>1, BranchFacts
    <3> QED
      BY <3>1, <3>2, <3>3, <3>4 DEF At
  <2> QED
    BY <2>1, <2>2, <2>3
<1>8. IsRecord(u)
  BY DEF IsMoved
<1>9. IsTyped(u)
  BY <1>1, <1>5, <1>6, <1>7, <1>8 DEF IsTyped
<1>10. IsBounded(u)
  <2>1. PICK m \in Nat : \A h \in DOMAIN t.heights : AbsHeight(t.heights[h]) <= m
    BY DEF IsShaped, IsBounded
  <2>2. m + Len(rest) \in Nat
    BY <1>3
  <2>3. ASSUME NEW h \in DOMAIN u.heights
        PROVE  AbsHeight(u.heights[h]) <= m + Len(rest)
    <3>1. CASE h = ref.hash
      BY <1>3, <1>4, <3>1 DEF AbsHeight
    <3>2. CASE h \in DOMAIN t.heights
      <4>1. /\ AbsHeight(u.heights[h]) = AbsHeight(t.heights[h])
            /\ AbsHeight(t.heights[h]) <= m
            /\ AbsHeight(t.heights[h]) \in Nat
        BY <1>4, <2>1, <3>2, BranchFacts
      <4> QED
        BY <1>3, <4>1
    <3> QED
      BY <1>4, <3>1, <3>2
  <2> QED
    BY <2>2, <2>3 DEF IsBounded
<1> QED
  BY <1>1, <1>9, <1>10 DEF IsShaped

(* u is t with ref added to its branches. *)
IsBranched(t, ref, u) ==
    /\ IsRecord(u)
    /\ u.trunk = t.trunk
    /\ u.acc = t.acc
    /\ u.branches = [hash \in DOMAIN t.branches \cup {ref.hash} |->
                       IF hash = ref.hash THEN ref ELSE t.branches[hash]]
    /\ u.heights = [hash \in DOMAIN t.heights \cup {ref.hash} |->
                      IF hash = ref.hash
                      THEN -AbsHeight(t.heights[ref.prev]) - 1
                      ELSE t.heights[hash]]

(* What InsertBranch makes of a tree, in these terms. *)
LEMMA InsertBranchFacts ==
    ASSUME NEW t, NEW ref
    PROVE  IsBranched(t, ref, InsertBranch(t, ref))
<1> DEFINE x == [hash \in DOMAIN t.branches \cup {ref.hash} |->
                   IF hash = ref.hash THEN ref ELSE t.branches[hash]]
           y == [hash \in DOMAIN t.heights \cup {ref.hash} |->
                   IF hash = ref.hash
                   THEN -AbsHeight(t.heights[ref.prev]) - 1
                   ELSE t.heights[hash]]
           u == InsertBranch(t, ref)
<1>1. u = [trunk |-> t.trunk, branches |-> x, heights |-> y, acc |-> t.acc]
  BY DEF InsertBranch
<1> HIDE DEF x, y, u
<1>2. /\ IsRecord(u)
      /\ u.trunk = t.trunk
      /\ u.branches = x
      /\ u.heights = y
      /\ u.acc = t.acc
  BY <1>1 DEF IsRecord
<1>3. IsBranched(t, ref, u)
  BY <1>2 DEF IsBranched, x, y
<1> QED
  BY <1>3 DEF u

(* A reference put on a branch keeps the shape of the tree. *)
LEMMA BranchedShaped ==
    ASSUME NEW t, IsShaped(t), NEW ref \in Refs,
           ref.hash \notin DOMAIN t.heights, ref.prev \in DOMAIN t.heights,
           NEW u, IsBranched(t, ref, u)
    PROVE  IsShaped(u)
<1> DEFINE D == DOMAIN t.heights
           n == AbsHeight(t.heights[ref.prev])
<1>1. n \in Nat /\ -n - 1 \in Int /\ AbsHeight(-n - 1) = n + 1
  <2>1. n \in Nat
    BY BranchFacts
  <2> QED
    BY <2>1 DEF AbsHeight
<1>2. ref.hash \in Hash
  BY RefFacts
<1>3. /\ DOMAIN u.heights = D \cup {ref.hash}
      /\ u.heights[ref.hash] = -n - 1
      /\ \A h \in D : u.heights[h] = t.heights[h]
      /\ u.heights = [h \in DOMAIN u.heights |-> u.heights[h]]
  BY DEF IsBranched
<1>4. /\ DOMAIN u.branches = DOMAIN t.branches \cup {ref.hash}
      /\ u.branches[ref.hash] = ref
      /\ ref.hash \notin DOMAIN t.branches
      /\ \A h \in DOMAIN t.branches : u.branches[h] = t.branches[h]
      /\ u.branches = [h \in DOMAIN u.branches |-> u.branches[h]]
  BY DEF IsBranched, IsShaped, IsSigned, Have
<1> HIDE DEF n
<1>5. IsTyped(u)
  <2>1. DOMAIN u.heights \subseteq Hash /\ DOMAIN u.branches \subseteq Hash
    BY <1>2, <1>3, <1>4 DEF IsShaped, IsTyped
  <2>2. u.heights \in [DOMAIN u.heights -> Int]
    <3>1. \A h \in D : t.heights[h] \in Int
      BY BranchFacts
    <3> QED
      BY <1>1, <1>3, <3>1
  <2>3. u.branches \in [DOMAIN u.branches -> Refs]
    <3>1. \A h \in DOMAIN t.branches : t.branches[h] \in Refs
      BY DEF IsShaped, IsTyped
    <3> QED
      BY <1>4, <3>1
  <2> QED
    BY <2>1, <2>2, <2>3 DEF IsShaped, IsTyped, IsBranched
<1>6. IsLinked(u)
  BY DEF IsBranched, IsShaped, IsLinked
<1>7. IsSigned(u)
  <2>1. ASSUME NEW i \in 1..Len(u.trunk)
        PROVE  Have(u, u.trunk[i].hash) /\ u.heights[u.trunk[i].hash] = i - 1
    BY <1>3 DEF IsBranched, IsShaped, IsSigned, Have
  <2>2. ASSUME NEW h \in DOMAIN u.branches
        PROVE  /\ u.branches[h].hash = h
               /\ Have(u, h)
               /\ Have(u, u.branches[h].prev)
               /\ u.heights[h] = -AbsHeight(u.heights[u.branches[h].prev]) - 1
    <3>1. CASE h = ref.hash
      <4>1. u.branches[h] = ref /\ u.heights[ref.prev] = t.heights[ref.prev]
        BY <1>3, <1>4, <3>1
      <4> QED
        BY <1>3, <3>1, <4>1 DEF Have, n
    <3>2. CASE h \in DOMAIN t.branches
      <4>1. /\ t.branches[h].hash = h
            /\ h \in D
            /\ t.branches[h].prev \in D
            /\ t.heights[h] = -AbsHeight(t.heights[t.branches[h].prev]) - 1
        BY <3>2 DEF IsShaped, IsSigned, Have
      <4>2. u.branches[h] = t.branches[h]
        BY <1>4, <3>2
      <4> QED
        BY <1>3, <4>1, <4>2 DEF Have
    <3> QED
      BY <1>4, <3>1, <3>2
  <2>3. DOMAIN u.heights = RangeOf(Hashes(u.trunk)) \cup DOMAIN u.branches
    BY <1>3, <1>4 DEF IsBranched, IsShaped, IsSigned
  <2> QED
    BY <2>1, <2>2, <2>3 DEF IsSigned
<1>8. IsBounded(u)
  <2>1. PICK m \in Nat : \A h \in D : AbsHeight(t.heights[h]) <= m
    BY DEF IsShaped, IsBounded
  <2>2. ASSUME NEW h \in DOMAIN u.heights
        PROVE  AbsHeight(u.heights[h]) <= m + 1
    <3>1. CASE h = ref.hash
      <4>1. n <= m
        BY <2>1 DEF n
      <4> QED
        BY <1>1, <1>3, <3>1, <4>1
    <3>2. CASE h \in D
      <4>1. AbsHeight(u.heights[h]) <= m /\ AbsHeight(u.heights[h]) \in Nat
        BY <1>3, <2>1, <3>2, BranchFacts
      <4> QED
        BY <4>1
    <3> QED
      BY <1>3, <3>1, <3>2
  <2>3. m + 1 \in Nat
    OBVIOUS
  <2> QED
    BY <2>2, <2>3 DEF IsBounded
<1> QED
  BY <1>5, <1>6, <1>7, <1>8 DEF IsShaped
----------------------------------------------------------------------------
(* The accumulated work. *)

(* w continues acc by the works of trunk. *)
IsPushed(w, acc, trunk) ==
    \A i \in 1..Len(trunk) :
        /\ i <= Len(acc) => w[i] = acc[i]
        /\ i > Len(acc) /\ i = 1 => w[i] = trunk[1].work
        /\ i > Len(acc) /\ i # 1 => w[i] = w[i - 1] + trunk[i].work

(* What the recursive function of PushWork satisfies. *)
LEMMA PushWorkDef ==
    ASSUME NEW acc \in Seq(Nat), NEW trunk \in Seq(Refs)
    PROVE  /\ PushWork(acc, trunk) = [i \in 1..Len(trunk) |-> PushWork(acc, trunk)[i]]
           /\ IsPushed(PushWork(acc, trunk), acc, trunk)
<1> DEFINE D == 1..Len(trunk)
           Step(f, i) == IF i <= Len(acc) THEN acc[i]
                         ELSE IF i = 1 THEN trunk[1].work
                         ELSE f[i - 1] + trunk[i].work
           Below(n) == {i \in D : i <= n}
           Defined(n) == \E f : f = [i \in Below(n) |-> Step(f, i)]
<1>0. Len(trunk) \in Nat
  OBVIOUS
<1>1. ASSUME NEW n \in Nat, n > 0 => Defined(n - 1)
      PROVE  Defined(n)
  <2>1. CASE n = 0
    <3> DEFINE f == [i \in Below(n) |-> 0]
    <3>1. Below(n) = {}
      BY <1>0, <2>1
    <3>2. f = [i \in Below(n) |-> Step(f, i)]
      BY <3>1
    <3> QED
      BY <3>2
  <2>2. CASE n > 0
    <3>1. PICK f : f = [i \in Below(n - 1) |-> Step(f, i)]
      BY <1>1, <2>2
    <3> DEFINE g == [i \in Below(n) |-> Step(f, i)]
    <3>2. ASSUME NEW i \in Below(n), i # 1
          PROVE  g[i - 1] = f[i - 1]
      <4>1. i - 1 \in Below(n - 1) /\ i - 1 \in Below(n)
        BY <1>0, <3>2
      <4> QED
        BY <3>1, <4>1
    <3>3. g = [i \in Below(n) |-> Step(g, i)]
      BY <3>2
    <3> QED
      BY <3>3
  <2> HIDE DEF Defined
  <2> QED
    BY <2>1, <2>2
<1>2. \A n \in Nat : Defined(n)
  <2> DEFINE T == {n \in Nat : ~Defined(n)}
  <2> HIDE DEF Defined
  <2>1. SUFFICES ASSUME T # {} PROVE FALSE
    OBVIOUS
  <2>2. PICK n \in T : \A m \in T : n <= m
    BY <2>1, LeastElement
  <2>3. n > 0 => Defined(n - 1)
    BY <2>2
  <2> QED
    BY <1>1, <2>2, <2>3
<1>3. D = Below(Len(trunk))
  BY <1>0
<1>4. \E f : f = [i \in D |-> Step(f, i)]
  BY <1>0, <1>2, <1>3, ZenonT(60)
<1>5. PushWork(acc, trunk) = [i \in D |-> Step(PushWork(acc, trunk), i)]
  BY <1>4 DEF PushWork
<1> DEFINE w == PushWork(acc, trunk)
<1>6. ASSUME NEW i \in D PROVE w[i] = Step(w, i)
  BY <1>5
<1>7. w = [i \in D |-> w[i]]
  BY <1>5
<1> HIDE DEF w
<1>8. Len(acc) \in Nat
  OBVIOUS
<1>9. IsPushed(w, acc, trunk)
  BY <1>6, <1>8 DEF IsPushed
<1> QED
  BY <1>7, <1>9 DEF w

(* A tree and its accumulated work. *)
IsTree(t) == IsShaped(t) /\ IsSummed(t)

(* The work accumulated at a block of the trunk is in _acc_work. *)
LEMMA TrunkWork ==
    ASSUME NEW t, IsTree(t), NEW i \in 1..Len(t.trunk)
    PROVE  /\ t.trunk[i].hash \in DOMAIN t.heights
           /\ AccumulatedWork(t)[t.trunk[i].hash] = t.acc[i]
           /\ t.acc[i] \in Nat
<1>1. t.trunk[i].hash \in DOMAIN t.heights /\ t.heights[t.trunk[i].hash] = i - 1
  BY DEF IsTree, IsShaped, IsSigned, Have
<1>2. i - 1 >= 0 /\ i - 1 + 1 = i
  BY TrunkFacts DEF IsTree, IsShaped
<1>3. t.acc \in Seq(Nat) /\ Len(t.acc) = Len(t.trunk)
  BY DEF IsTree, IsShaped, IsTyped, IsSummed
<1>4. t.acc[i] \in Nat
  BY <1>3
<1>5. AccumulatedWork(t)[t.trunk[i].hash] = t.acc[t.heights[t.trunk[i].hash] + 1]
  BY <1>1, <1>2, WorkDef DEF IsTree
<1> QED
  BY <1>1, <1>2, <1>4, <1>5

(* Accumulated work is a natural number. *)
LEMMA WorkType ==
    ASSUME NEW t, IsTree(t), NEW hash \in DOMAIN t.heights
    PROVE  AccumulatedWork(t)[hash] \in Nat
<1> DEFINE D == DOMAIN t.heights
           P(h) == AccumulatedWork(t)[h] \in Nat
           T == {n \in Nat : \E h \in D : AbsHeight(t.heights[h]) = n /\ ~P(h)}
<1>0. IsShaped(t)
  BY DEF IsTree
<1>1. ASSUME NEW h \in D, t.heights[h] >= 0 PROVE P(h)
  <2>1. t.heights[h] + 1 \in 1..Len(t.trunk) /\ t.trunk[t.heights[h] + 1].hash = h
    BY <1>0, <1>1, BranchFacts
  <2> QED
    BY <2>1, TrunkWork
<1>2. ASSUME NEW h \in D, t.heights[h] < 0, P(t.branches[h].prev) PROVE P(h)
  <2>1. AccumulatedWork(t)[h] =
          t.branches[h].work + AccumulatedWork(t)[t.branches[h].prev]
    BY <1>0, <1>2, WorkDef
  <2>2. t.branches[h].work \in Nat
    BY <1>0, <1>2, BranchFacts, RefFacts
  <2> QED
    BY <1>2, <2>1, <2>2
<1>3. T = {}
  <2> HIDE DEF P
  <2>1. SUFFICES ASSUME T # {} PROVE FALSE
    OBVIOUS
  <2>2. PICK n \in T : \A m \in T : n <= m
    BY <2>1, LeastElement
  <2>3. PICK h \in D : AbsHeight(t.heights[h]) = n /\ ~P(h)
    BY <2>2
  <2>4. t.heights[h] < 0
    BY <1>0, <1>1, <2>3, BranchFacts
  <2>5. /\ t.branches[h].prev \in D
        /\ AbsHeight(t.heights[t.branches[h].prev]) \in Nat
        /\ AbsHeight(t.heights[t.branches[h].prev]) = n - 1
    BY <1>0, <2>3, <2>4, BranchFacts
  <2>6. P(t.branches[h].prev)
    BY <2>2, <2>5
  <2> QED
    BY <1>2, <2>3, <2>4, <2>6
<1>4. AbsHeight(t.heights[hash]) \in Nat
  BY <1>0, BranchFacts
<1> HIDE DEF P
<1>5. P(hash)
  BY <1>3, <1>4
<1> QED
  BY <1>5 DEF P

(* w satisfies the equations of accumulatedWork(). *)
IsWork(t, w) ==
    /\ w = [h \in DOMAIN t.heights |-> w[h]]
    /\ \A h \in DOMAIN t.heights :
          /\ t.heights[h] < 0 => w[h] = t.branches[h].work + w[t.branches[h].prev]
          /\ t.heights[h] >= 0 => w[h] = t.acc[t.heights[h] + 1]

(* Only one function does. *)
LEMMA WorkUnique ==
    ASSUME NEW t, IsShaped(t), NEW w, IsWork(t, w), DOMAIN t.heights # {}
    PROVE  AccumulatedWork(t) = w
<1> DEFINE D == DOMAIN t.heights
           v == AccumulatedWork(t)
           P(h) == v[h] = w[h]
           T == {n \in Nat : \E h \in D : AbsHeight(t.heights[h]) = n /\ ~P(h)}
<1>1. ASSUME NEW h \in D, t.heights[h] >= 0 PROVE P(h)
  BY <1>1, WorkDef DEF IsWork
<1>2. ASSUME NEW h \in D, t.heights[h] < 0, P(t.branches[h].prev) PROVE P(h)
  BY <1>2, WorkDef DEF IsWork
<1>3. T = {}
  <2> HIDE DEF P
  <2>1. SUFFICES ASSUME T # {} PROVE FALSE
    OBVIOUS
  <2>2. PICK n \in T : \A m \in T : n <= m
    BY <2>1, LeastElement
  <2>3. PICK h \in D : AbsHeight(t.heights[h]) = n /\ ~P(h)
    BY <2>2
  <2>4. t.heights[h] < 0
    BY <1>1, <2>3, BranchFacts
  <2>5. /\ t.branches[h].prev \in D
        /\ AbsHeight(t.heights[t.branches[h].prev]) \in Nat
        /\ AbsHeight(t.heights[t.branches[h].prev]) = n - 1
    BY <2>3, <2>4, BranchFacts
  <2>6. P(t.branches[h].prev)
    BY <2>2, <2>5
  <2> QED
    BY <1>2, <2>3, <2>4, <2>6
<1>4. ASSUME NEW h \in D PROVE P(h)
  <2>1. AbsHeight(t.heights[h]) \in Nat
    BY BranchFacts
  <2> HIDE DEF P
  <2> QED
    BY <1>3, <2>1
<1>5. PICK g \in D : TRUE
  OBVIOUS
<1>6. v = [h \in D |-> v[h]]
  BY <1>5, WorkDef
<1>7. w = [h \in D |-> w[h]]
  BY DEF IsWork
<1> QED
  BY <1>4, <1>6, <1>7
----------------------------------------------------------------------------
(* The accumulated work after insert(): that of the old blocks is the same. *)

WorkWith(t, ref) ==
    [h \in DOMAIN t.heights \cup {ref.hash} |->
        IF h = ref.hash THEN AccumulatedWork(t)[ref.prev] + ref.work
        ELSE AccumulatedWork(t)[h]]

(* A reference put on a branch adds its work and changes no other. *)
LEMMA BranchedWork ==
    ASSUME NEW t, IsTree(t), NEW ref \in Refs,
           ref.hash \notin DOMAIN t.heights, ref.prev \in DOMAIN t.heights,
           NEW u, IsBranched(t, ref, u)
    PROVE  IsTree(u) /\ AccumulatedWork(u) = WorkWith(t, ref)
<1> DEFINE D == DOMAIN t.heights
           v == AccumulatedWork(t)
           w == WorkWith(t, ref)
<1>1. IsShaped(t) /\ IsShaped(u)
  BY BranchedShaped DEF IsTree
<1>2. IsTree(u)
  BY <1>1 DEF IsTree, IsSummed, IsBranched
<1>3. /\ w = [h \in D \cup {ref.hash} |-> w[h]]
      /\ w[ref.hash] = v[ref.prev] + ref.work
      /\ \A h \in D : w[h] = v[h]
  BY DEF WorkWith
<1>4. /\ DOMAIN u.heights = D \cup {ref.hash}
      /\ u.heights[ref.hash] = -AbsHeight(t.heights[ref.prev]) - 1
      /\ u.branches[ref.hash] = ref
      /\ u.acc = t.acc
      /\ \A h \in D : u.heights[h] = t.heights[h]
      /\ \A h \in DOMAIN t.branches : u.branches[h] = t.branches[h]
  BY DEF IsBranched, IsTree, IsShaped, IsSigned, Have
<1> HIDE DEF w, v
<1>5. ASSUME NEW h \in DOMAIN u.heights
      PROVE  /\ u.heights[h] < 0 => w[h] = u.branches[h].work + w[u.branches[h].prev]
             /\ u.heights[h] >= 0 => w[h] = u.acc[u.heights[h] + 1]
  <2>1. CASE h = ref.hash
    <3>1. v[ref.prev] \in Nat /\ ref.work \in Nat
      BY WorkType, RefFacts DEF v
    <3>2. ~(u.heights[h] >= 0)
      <4>1. AbsHeight(t.heights[ref.prev]) \in Nat
        BY <1>1, BranchFacts
      <4> QED
        BY <1>4, <2>1, <4>1
    <3>3. w[h] = ref.work + w[ref.prev]
      <4>1. w[h] = v[ref.prev] + ref.work /\ w[ref.prev] = v[ref.prev]
        BY <1>3, <2>1
      <4>2. v[ref.prev] + ref.work = ref.work + v[ref.prev]
        BY <3>1
      <4> QED
        BY <4>1, <4>2
    <3> QED
      BY <1>4, <2>1, <3>2, <3>3
  <2>2. CASE h \in D
    <3>1. CASE t.heights[h] < 0
      <4>1. h \in DOMAIN t.branches /\ t.branches[h].prev \in D
        BY <1>1, <2>2, <3>1, BranchFacts
      <4>2. v[h] = t.branches[h].work + v[t.branches[h].prev]
        BY <1>1, <2>2, <3>1, WorkDef DEF v
      <4>3. t.heights[h] \in Int
        BY <1>1, <2>2, BranchFacts
      <4>4. w[h] = u.branches[h].work + w[u.branches[h].prev]
        BY <1>3, <1>4, <2>2, <4>1, <4>2, ZenonT(30)
      <4> QED
        BY <1>4, <2>2, <3>1, <4>3, <4>4
    <3>2. CASE t.heights[h] >= 0
      <4>1. v[h] = t.acc[t.heights[h] + 1]
        BY <1>1, <2>2, <3>2, WorkDef DEF v
      <4>2. t.heights[h] \in Int
        BY <1>1, <2>2, BranchFacts
      <4>3. w[h] = u.acc[u.heights[h] + 1]
        BY <1>3, <1>4, <2>2, <4>1
      <4> QED
        BY <1>4, <2>2, <3>2, <4>2, <4>3
    <3> QED
      BY <1>1, <2>2, <3>1, <3>2, BranchFacts
  <2> QED
    BY <1>4, <2>1, <2>2
<1>6. IsWork(u, w)
  BY <1>3, <1>4, <1>5 DEF IsWork
<1>7. DOMAIN u.heights # {}
  BY <1>4
<1> QED
  BY <1>1, <1>2, <1>6, <1>7, WorkUnique DEF w

(* The blocks that come from a branch are the ones it has under their hash. *)
LEMMA RestBranch ==
    ASSUME NEW t, IsShaped(t), NEW prev \in DOMAIN t.heights,
           NEW p, NEW r, IsPath(t, prev, p, r),
           NEW rest, IsRest(t, p, r, rest),
           NEW i \in 1..Len(rest), i > r + 1
    PROVE  rest[i] = t.branches[rest[i].hash]
<1> DEFINE k == r + Len(p) + 2 - i
<1>1. /\ r \in Nat
      /\ p \in Seq(DOMAIN t.branches)
      /\ Len(p) \in Nat
      /\ Len(rest) = r + 1 + Len(p)
  BY TrunkFacts DEF IsPath, IsShaped, IsRest
<1>2. k \in 1..Len(p) /\ i = r + Len(p) + 2 - k
  BY <1>1
<1> HIDE DEF k
<1>3. rest[i] = t.branches[p[k]]
  BY <1>2 DEF IsRest
<1>4. p[k] \in DOMAIN t.branches
  BY <1>1, <1>2
<1>5. t.branches[p[k]].hash = p[k]
  BY <1>4 DEF IsShaped, IsSigned
<1> QED
  BY <1>3, <1>5

(* _acc_work, pushed on along the new trunk, is the accumulated work of the *)
(* blocks of the new trunk in the old tree.                                 *)
LEMMA PushedWork ==
    ASSUME NEW t, IsTree(t), NEW prev \in DOMAIN t.heights,
           NEW p, NEW r, IsPath(t, prev, p, r),
           NEW rest, IsRest(t, p, r, rest),
           NEW w, w = PushWork(SubSeq(t.acc, 1, r + 1), rest)
    PROVE  /\ w \in Seq(Nat)
           /\ Len(w) = Len(rest)
           /\ \A i \in 1..(r + 1) : w[i] = t.acc[i]
           /\ \A i \in 1..Len(rest) : /\ w[i] = AccumulatedWork(t)[rest[i].hash]
                                      /\ w[i] \in Nat
           /\ \A i \in 1..Len(rest) : i > r + 1 => w[i] = w[i - 1] + rest[i].work
<1> DEFINE n == Len(rest)
           low == SubSeq(t.acc, 1, r + 1)
           v == AccumulatedWork(t)
<1>0. IsShaped(t)
  BY DEF IsTree
<1>1. /\ r \in Nat
      /\ Len(p) \in Nat
      /\ rest \in Seq(Refs)
      /\ n = r + 1 + Len(p)
      /\ n \in Nat
      /\ r + 1 \in 1..Len(t.trunk)
  BY <1>0, TrunkFacts DEF IsPath, IsShaped, IsRest
<1>2. /\ t.acc \in Seq(Nat)
      /\ r + 1 \in 0..Len(t.acc)
  <2>1. t.acc \in Seq(Nat) /\ Len(t.acc) = Len(t.trunk)
    BY DEF IsTree, IsShaped, IsTyped, IsSummed
  <2> QED
    BY <1>1, <2>1
<1>3. /\ low \in Seq(Nat)
      /\ Len(low) = r + 1
      /\ \A i \in 1..(r + 1) : low[i] = t.acc[i]
  BY <1>2, PrefixFacts, Zenon
<1> HIDE DEF low
<1>4. w = PushWork(low, rest)
  BY DEF low
<1>5. w = [i \in 1..n |-> w[i]] /\ IsPushed(w, low, rest)
  BY <1>1, <1>3, <1>4, PushWorkDef
<1>6. /\ \A i \in 1..(r + 1) : w[i] = t.acc[i]
      /\ \A i \in 1..n : i > r + 1 => w[i] = w[i - 1] + rest[i].work
  <2>1. ASSUME NEW i \in 1..(r + 1) PROVE w[i] = t.acc[i]
    <3>1. i \in 1..n /\ i <= Len(low)
      BY <1>1, <1>3
    <3>2. w[i] = low[i]
      BY <1>5, <3>1 DEF IsPushed
    <3> QED
      BY <1>3, <3>2
  <2>2. ASSUME NEW i \in 1..n, i > r + 1 PROVE w[i] = w[i - 1] + rest[i].work
    <3>1. i > Len(low) /\ i # 1
      BY <1>1, <1>3, <2>2
    <3> QED
      BY <1>5, <3>1 DEF IsPushed
  <2> QED
    BY <2>1, <2>2
<1>7. /\ \A i \in 2..n : rest[i].prev = rest[i - 1].hash
      /\ \A i \in 1..n :
            /\ rest[i].hash \in DOMAIN t.heights
            /\ i <= r + 1 => t.heights[rest[i].hash] = i - 1
            /\ i > r + 1 => t.heights[rest[i].hash] = -(i - 1)
  BY <1>0, RestLinked
<1> HIDE DEF n
<1>8. ASSUME NEW i \in 1..n, i <= r + 1 PROVE w[i] = v[rest[i].hash]
  <2>1. i \in 1..(r + 1) /\ i \in 1..Len(t.trunk)
    BY <1>1, <1>8
  <2>2. rest[i] = t.trunk[i]
    BY <2>1 DEF IsRest
  <2> QED
    BY <1>6, <2>1, <2>2, TrunkWork
<1>9. ASSUME NEW i \in 1..n, i > r + 1, w[i - 1] = v[rest[i - 1].hash]
      PROVE  w[i] = v[rest[i].hash]
  <2> DEFINE h == rest[i].hash
  <2>1. h \in DOMAIN t.heights /\ t.heights[h] = -(i - 1) /\ t.heights[h] < 0
    BY <1>1, <1>7, <1>9
  <2>2. rest[i] = t.branches[h]
    BY <1>0, <1>9, RestBranch DEF n
  <2>3. v[h] = t.branches[h].work + v[t.branches[h].prev]
    BY <1>0, <2>1, WorkDef
  <2>4. i \in 2..n /\ i - 1 \in 1..n
    BY <1>1, <1>9
  <2>5. t.branches[h].prev = rest[i - 1].hash
    BY <1>7, <2>2, <2>4
  <2>6. v[rest[i - 1].hash] \in Nat
    BY <1>7, <2>4, WorkType
  <2>7. rest[i].work \in Nat
    BY <1>1, RefFacts DEF n
  <2>8. w[i] = v[rest[i - 1].hash] + rest[i].work
    BY <1>6, <1>9
  <2>9. v[h] = rest[i].work + v[rest[i - 1].hash]
    BY <2>2, <2>3, <2>5
  <2> QED
    BY <2>6, <2>7, <2>8, <2>9
<1>10. \A i \in 1..n : w[i] = v[rest[i].hash]
  <2> DEFINE T == {i \in Nat : i \in 1..n /\ w[i] # v[rest[i].hash]}
  <2> HIDE DEF v
  <2>1. SUFFICES ASSUME T # {} PROVE FALSE
    OBVIOUS
  <2>2. PICK i \in T : \A m \in T : i <= m
    BY <2>1, LeastElement
  <2>3. i > r + 1
    BY <1>1, <1>8, <2>2
  <2>4. i - 1 \in 1..n
    BY <1>1, <2>2, <2>3
  <2>5. i - 1 \notin T
    BY <1>1, <2>2, <2>4
  <2>6. w[i - 1] = v[rest[i - 1].hash]
    BY <2>4, <2>5
  <2> QED
    BY <1>9, <2>2, <2>3, <2>6
<1>11. \A i \in 1..n : w[i] \in Nat
  BY <1>7, <1>10, WorkType
<1>12. w \in [1..n -> Nat]
  BY <1>5, <1>11 DEF n
<1>13. w \in Seq(Nat) /\ Len(w) = n
  BY <1>1, <1>12, SequenceOf
<1> QED
  BY <1>6, <1>10, <1>11, <1>13 DEF n
(* A reorganisation keeps the work of every block and adds that of ref. *)
LEMMA MovedWork ==
    ASSUME NEW t, IsTree(t), NEW ref \in Refs,
           ref.hash \notin DOMAIN t.heights, ref.prev \in DOMAIN t.heights,
           NEW p, NEW r, IsPath(t, ref.prev, p, r),
           NEW rest, IsRest(t, p, r, rest),
           NEW u, IsMoved(t, ref, p, r, rest, u),
           u.acc = Append(PushWork(SubSeq(t.acc, 1, r + 1), rest),
                          AccumulatedWork(t)[ref.prev] + ref.work)
    PROVE  /\ IsTree(u)
           /\ AccumulatedWork(u) = WorkWith(t, ref)
           /\ u.acc[Len(u.acc)] = AccumulatedWork(t)[ref.prev] + ref.work
<1> DEFINE D == DOMAIN t.heights
           n == Len(rest)
           s == PushWork(SubSeq(t.acc, 1, r + 1), rest)
           v == AccumulatedWork(t)
           w == WorkWith(t, ref)
           x == v[ref.prev] + ref.work
<1>0. IsShaped(t)
  BY DEF IsTree
<1>1. x \in Nat /\ v[ref.prev] \in Nat /\ ref.work \in Nat
  BY WorkType, RefFacts
<1>2. /\ s \in Seq(Nat)
      /\ Len(s) = n
      /\ \A i \in 1..(r + 1) : s[i] = t.acc[i]
      /\ \A i \in 1..n : s[i] = v[rest[i].hash] /\ s[i] \in Nat
      /\ \A i \in 1..n : i > r + 1 => s[i] = s[i - 1] + rest[i].work
  BY PushedWork
<1>3. u.acc = Append(s, x)
  OBVIOUS
<1>4. /\ r \in Nat
      /\ Len(p) \in Nat
      /\ rest \in Seq(Refs)
      /\ n = r + 1 + Len(p)
      /\ n \in Nat
      /\ r + 1 \in 1..Len(t.trunk)
  BY <1>0, TrunkFacts, SMTT(30) DEF IsPath, IsShaped, IsRest
<1>5. u.trunk = Append(rest, ref)
  BY DEF IsMoved
<1> HIDE DEF n, s, v, w, x
<1>6. /\ u.acc \in Seq(Nat)
      /\ Len(u.acc) = n + 1
      /\ \A i \in 1..n : u.acc[i] = s[i]
      /\ u.acc[n + 1] = x
  <2>1. u.acc \in Seq(Nat) /\ IsAppend(u.acc, s, x)
    BY <1>1, <1>2, <1>3, AppendFacts
  <2> QED
    BY <1>2, <2>1 DEF IsAppend
<1>7. /\ Len(u.trunk) = n + 1
      /\ \A i \in 1..n : u.trunk[i] = rest[i]
      /\ u.trunk[n + 1] = ref
  <2>1. IsAppend(u.trunk, rest, ref)
    BY <1>4, <1>5, AppendFacts
  <2> QED
    BY <2>1 DEF IsAppend, n
<1>8. IsShaped(u)
  BY <1>0, <1>6, MovedShaped
<1>9. /\ \A i \in 1..n : rest[i].hash \in D
      /\ rest[n].hash = ref.prev
  BY <1>0, RestLinked DEF n
<1>10. IsSummed(u)
  <2>1. u.acc[1] = u.trunk[1].work
    <3>1. 1 \in 1..n /\ 1 \in 1..(r + 1)
      BY <1>4
    <3>2. u.trunk[1] = t.trunk[1] /\ u.acc[1] = t.acc[1]
      BY <1>2, <1>6, <1>7, <3>1 DEF IsRest
    <3> QED
      BY <3>2 DEF IsTree, IsSummed
  <2>2. ASSUME NEW i \in 2..Len(u.trunk)
        PROVE  u.acc[i] = u.acc[i - 1] + u.trunk[i].work
    <3>1. CASE i = n + 1
      <4>1. n \in 1..n /\ i - 1 = n
        BY <1>4, <3>1
      <4>2. u.acc[i - 1] = v[ref.prev]
        BY <1>2, <1>6, <1>9, <4>1
      <4> QED
        BY <1>6, <1>7, <3>1, <4>2 DEF x
    <3>2. CASE i > r + 1 /\ i \in 2..n
      <4>1. i \in 1..n /\ i - 1 \in 1..n
        BY <1>4, <3>2
      <4>2. s[i] = s[i - 1] + rest[i].work
        BY <1>2, <3>2, <4>1
      <4>3. u.acc[i] = s[i] /\ u.acc[i - 1] = s[i - 1] /\ u.trunk[i] = rest[i]
        BY <1>6, <1>7, <4>1
      <4> QED
        BY <4>2, <4>3
    <3>3. CASE i \in 2..(r + 1)
      <4>1. /\ i \in 1..n
            /\ i - 1 \in 1..n
            /\ i \in 1..(r + 1)
            /\ i - 1 \in 1..(r + 1)
            /\ i \in 2..Len(t.trunk)
        BY <1>4, <3>3
      <4>2. u.acc[i] = t.acc[i] /\ u.acc[i - 1] = t.acc[i - 1]
        BY <1>2, <1>6, <4>1
      <4>3. u.trunk[i] = t.trunk[i]
        BY <1>7, <4>1 DEF IsRest
      <4>4. t.acc[i] = t.acc[i - 1] + t.trunk[i].work
        BY <4>1 DEF IsTree, IsSummed
      <4> QED
        BY <4>2, <4>3, <4>4
    <3>4. i = n + 1 \/ (i > r + 1 /\ i \in 2..n) \/ i \in 2..(r + 1)
      BY <1>4, <1>7
    <3> QED
      BY <3>1, <3>2, <3>3, <3>4
  <2> QED
    BY <1>6, <1>7, <2>1, <2>2 DEF IsSummed
<1>11. /\ w = [h \in D \cup {ref.hash} |-> w[h]]
       /\ w[ref.hash] = x
       /\ \A h \in D : w[h] = v[h]
  BY DEF WorkWith, w, v, x
<1>12. DOMAIN u.heights = D \cup {ref.hash}
  BY DEF IsMoved
<1>13. ASSUME NEW h \in DOMAIN u.heights, u.heights[h] < 0
       PROVE  w[h] = u.branches[h].work + w[u.branches[h].prev]
  <2>1. h \in DOMAIN u.branches
    BY <1>8, <1>13, BranchFacts
  <2>2. h \in D /\ u.branches[h] = At(t, h)
    BY <2>1 DEF IsMoved, IsTree, IsShaped, IsSigned, Have
  <2>3. CASE t.heights[h] < 0
    <3>1. u.branches[h] = t.branches[h]
      BY <2>2, <2>3 DEF At
    <3>2. v[h] = t.branches[h].work + v[t.branches[h].prev]
      BY <1>0, <2>2, <2>3, WorkDef DEF v
    <3>3. t.branches[h].prev \in D
      BY <1>0, <2>2, <2>3, BranchFacts
    <3> QED
      BY <1>11, <2>2, <3>1, <3>2, <3>3
  <2>4. CASE ~(t.heights[h] < 0)
    <3> DEFINE k == t.heights[h]
    <3>1. k \in Int /\ k >= 0
      BY <1>0, <2>2, <2>4, BranchFacts
    <3>2. k + 1 \in 1..Len(t.trunk) /\ t.trunk[k + 1].hash = h
      BY <1>0, <2>2, <3>1, BranchFacts
    <3>3. k > r
      BY <2>1, <1>0, <2>2, <2>4, BranchFacts DEF IsMoved
    <3>4. u.branches[h] = t.trunk[k + 1]
      BY <2>2, <2>4 DEF At
    <3> HIDE DEF k
    <3>5. k + 1 \in 2..Len(t.trunk) /\ (k + 1) - 1 = k /\ k \in 1..Len(t.trunk)
      BY <1>4, <3>1, <3>2, <3>3
    <3>6. t.trunk[k + 1].prev = t.trunk[k].hash
      BY <1>0, <3>5 DEF IsShaped, IsLinked
    <3>7. v[h] = t.acc[k + 1] /\ t.acc[k + 1] \in Nat
      BY <3>2, TrunkWork DEF v
    <3>8. /\ t.trunk[k].hash \in D
          /\ v[t.trunk[k].hash] = t.acc[k]
          /\ t.acc[k] \in Nat
      BY <3>5, TrunkWork DEF v
    <3>9. t.acc[k + 1] = t.acc[k] + t.trunk[k + 1].work
      BY <3>5 DEF IsTree, IsSummed
    <3>10. t.trunk[k + 1].work \in Nat
      <4>1. t.trunk[k + 1] \in Refs
        BY <1>0, <3>2, TrunkFacts DEF IsShaped
      <4> QED
        BY <4>1, RefFacts
    <3>11. v[h] = t.trunk[k + 1].work + v[t.trunk[k].hash]
      <4>1. t.acc[k] + t.trunk[k + 1].work = t.trunk[k + 1].work + t.acc[k]
        BY <3>8, <3>10
      <4> QED
        BY <3>7, <3>8, <3>9, <4>1
    <3> QED
      BY <1>11, <2>2, <3>4, <3>6, <3>8, <3>11, ZenonT(60)
  <2> QED
    BY <2>3, <2>4
<1>14. ASSUME NEW h \in DOMAIN u.heights, u.heights[h] >= 0
       PROVE  w[h] = u.acc[u.heights[h] + 1]
  <2> DEFINE i == u.heights[h] + 1
  <2>1. i \in 1..(n + 1) /\ u.trunk[i].hash = h
    BY <1>7, <1>8, <1>14, BranchFacts
  <2> HIDE DEF i
  <2>2. CASE i = n + 1
    BY <1>6, <1>7, <1>11, <2>1, <2>2 DEF i
  <2>3. CASE i \in 1..n
    <3>1. rest[i].hash = h /\ h \in D
      BY <1>7, <1>9, <2>1, <2>3
    <3>2. u.acc[i] = v[h]
      BY <1>2, <1>6, <2>3, <3>1
    <3> QED
      BY <1>11, <3>1, <3>2 DEF i
  <2>4. i = n + 1 \/ i \in 1..n
    BY <1>4, <2>1, SMTT(30)
  <2> QED
    BY <2>2, <2>3, <2>4
<1>15. IsWork(u, w)
  BY <1>11, <1>12, <1>13, <1>14 DEF IsWork
<1>16. AccumulatedWork(u) = w
  BY <1>8, <1>12, <1>15, WorkUnique
<1> QED
  BY <1>6, <1>8, <1>10, <1>16 DEF IsTree, w, x, v
----------------------------------------------------------------------------
(* insert() as a whole. *)

(* The last sum of _acc_work is the accumulated work of the best block. *)
LEMMA BestFacts ==
    ASSUME NEW t, IsTree(t)
    PROVE  /\ Best(t).hash \in DOMAIN t.heights
           /\ AccumulatedWork(t)[Best(t).hash] = t.acc[Len(t.acc)]
           /\ t.acc[Len(t.acc)] \in Nat
<1>1. Len(t.trunk) \in 1..Len(t.trunk) /\ Len(t.acc) = Len(t.trunk)
  BY TrunkFacts DEF IsTree, IsShaped, IsSummed
<1> QED
  BY <1>1, TrunkWork DEF Best

(* What insert() returns is a list of hashes that go and one of hashes that *)
(* come.                                                                    *)
LEMMA ChangesType ==
    ASSUME NEW t, IsShaped(t), NEW ref \in Refs, ref.prev \in DOMAIN t.heights
    PROVE  Insert(t, ref).changes \in [deleted : Seq(Hash), inserted : Seq(Hash)]
<1> DEFINE p == BranchPath(t)[ref.prev]
           r == RootHeight(t, ref.prev)
<1>1. IsPath(t, ref.prev, p, r)
  BY PathFacts
<1>2. p \in Seq(DOMAIN t.branches) /\ r \in 0..TrunkHeight(t)
  BY <1>1 DEF IsPath
<1>3. Hashes(TrunkAbove(t, r)) \in Seq(Hash)
  BY <1>2, AboveFacts
<1>4. DOMAIN t.branches \subseteq Hash /\ ref.hash \in Hash
  BY RefFacts DEF IsShaped, IsTyped
<1> HIDE DEF p, r
<1>5. p \in Seq(Hash)
  BY <1>2, <1>4
<1>6. <<ref.hash>> \o p \in Seq(Hash)
  BY <1>4, <1>5
<1>7. InsertChanges(t, ref) \in [deleted : Seq(Hash), inserted : Seq(Hash)]
  BY <1>3, <1>6 DEF InsertChanges, p, r
<1>8. NoChanges \in [deleted : Seq(Hash), inserted : Seq(Hash)]
  BY DEF NoChanges
<1>9. CASE BeatsTrunk(t, ref)
  BY <1>7, <1>9 DEF Insert
<1>10. CASE ~BeatsTrunk(t, ref)
  BY <1>8, <1>10 DEF Insert
<1> QED
  BY <1>9, <1>10

(* The empty tuple, which stands for an empty map, is the empty function. *)
LEMMA EmptyFunction ==
    ASSUME NEW S
    PROVE  DOMAIN << >> = {} /\ << >> \in [{} -> S]
<1>1. << >> \in Seq(S) /\ Len(<< >>) = 0
  OBVIOUS
<1>2. DOMAIN << >> = 1..0 /\ << >> \in [1..0 -> S]
  BY <1>1
<1>3. 1..0 = {}
  OBVIOUS
<1> QED
  BY <1>2, <1>3


(* What insert() does to the invariant, to the work and to the best block. *)
LEMMA InsertFacts ==
    ASSUME NEW t, IsTree(t), IsHeaviest(t), NEW ref \in Refs,
           ref.hash \notin DOMAIN t.heights, ref.prev \in DOMAIN t.heights,
           NEW u, u = Insert(t, ref).tree
    PROVE  /\ IsTree(u)
           /\ IsHeaviest(u)
           /\ AccumulatedWork(u) = WorkWith(t, ref)
           /\ Best(u).hash =
                 IF AccumulatedWork(t)[ref.prev] + ref.work
                      > AccumulatedWork(t)[Best(t).hash]
                 THEN ref.hash ELSE Best(t).hash
<1> DEFINE v == AccumulatedWork(t)
           w == WorkWith(t, ref)
           x == v[ref.prev] + ref.work
           top == t.acc[Len(t.acc)]
<1>0. IsShaped(t)
  BY DEF IsTree
<1>1. /\ v[Best(t).hash] = top
      /\ top \in Nat
  BY BestFacts
<1>2. x \in Nat
  BY WorkType, RefFacts
<1>3. \A h \in DOMAIN t.heights : v[h] \in Nat /\ v[h] <= top
  BY WorkType DEF IsHeaviest
<1>4. /\ DOMAIN w = DOMAIN t.heights \cup {ref.hash}
      /\ w[ref.hash] = x
      /\ \A h \in DOMAIN t.heights : w[h] = v[h]
  BY DEF WorkWith
<1>5. CASE BeatsTrunk(t, ref)
  <2>1. u = InsertBest(t, ref) /\ x > top
    BY <1>5 DEF Insert, BeatsTrunk
  <2>2. PICK p, r, rest :
              /\ IsPath(t, ref.prev, p, r)
              /\ IsRest(t, p, r, rest)
              /\ IsMoved(t, ref, p, r, rest, u)
              /\ u.acc = Append(PushWork(SubSeq(t.acc, 1, r + 1), rest), x)
    BY <1>0, <2>1, InsertBestFacts
  <2>3. /\ IsTree(u)
        /\ AccumulatedWork(u) = w
        /\ u.acc[Len(u.acc)] = x
    BY <2>2, MovedWork
  <2>4. DOMAIN u.heights = DOMAIN t.heights \cup {ref.hash}
    BY <2>2 DEF IsMoved
  <2>5. Best(u).hash = ref.hash
    <3>1. u.trunk = Append(rest, ref) /\ rest \in Seq(Refs)
      BY <2>2 DEF IsMoved, IsRest
    <3>2. IsAppend(u.trunk, rest, ref)
      BY <3>1, AppendFacts
    <3> QED
      BY <3>2 DEF IsAppend, Best
  <2> HIDE DEF w, x, top, v
  <2>6. ASSUME NEW h \in DOMAIN u.heights PROVE w[h] <= x
    <3>1. CASE h = ref.hash
      BY <1>2, <1>4, <3>1
    <3>2. CASE h \in DOMAIN t.heights
      <4>1. w[h] \in Nat /\ w[h] <= top
        BY <1>3, <1>4, <3>2
      <4> QED
        BY <1>1, <1>2, <2>1, <4>1
    <3> QED
      BY <2>4, <3>1, <3>2
  <2>7. IsHeaviest(u)
    BY <2>3, <2>6 DEF IsHeaviest
  <2>8. x > v[Best(t).hash]
    BY <1>1, <2>1
  <2> QED
    BY <2>3, <2>5, <2>7, <2>8 DEF w, x, v
<1>6. CASE ~BeatsTrunk(t, ref)
  <2>1. u = InsertBranch(t, ref) /\ ~(x > top)
    BY <1>6 DEF Insert, BeatsTrunk
  <2>2. IsBranched(t, ref, u)
    BY <2>1, InsertBranchFacts
  <2>3. IsTree(u) /\ AccumulatedWork(u) = w
    BY <2>2, BranchedWork
  <2>4. /\ DOMAIN u.heights = DOMAIN t.heights \cup {ref.hash}
        /\ u.acc = t.acc
        /\ u.trunk = t.trunk
    BY <2>2 DEF IsBranched
  <2> HIDE DEF w, x, top, v
  <2>5. ASSUME NEW h \in DOMAIN u.heights PROVE w[h] <= top
    <3>1. CASE h = ref.hash
      BY <1>1, <1>2, <1>4, <2>1, <3>1
    <3>2. CASE h \in DOMAIN t.heights
      BY <1>3, <1>4, <3>2
    <3> QED
      BY <2>4, <3>1, <3>2
  <2>6. IsHeaviest(u)
    BY <2>3, <2>4, <2>5 DEF IsHeaviest, top
  <2>7. ~(x > v[Best(t).hash])
    BY <1>1, <2>1
  <2>8. Best(u) = Best(t)
    BY <2>4 DEF Best
  <2> QED
    BY <2>3, <2>6, <2>7, <2>8 DEF w, x, v
<1> QED
  BY <1>5, <1>6

(* The tree of the first block alone. *)
LEMMA AssignFacts ==
    ASSUME NEW work \in Works, NEW t,
           t = Assign(<<BlockRef(Genesis, NoHash, work)>>)
    PROVE  /\ IsTree(t)
           /\ IsHeaviest(t)
           /\ AccumulatedWork(t) = [h \in {Genesis} |-> work]
           /\ Best(t).hash = Genesis
<1> DEFINE ref == BlockRef(Genesis, NoHash, work)
           refs == <<ref>>
<1>1. /\ ref \in Refs
      /\ ref.hash = Genesis
      /\ ref.work = work
      /\ work \in Nat
      /\ Genesis \in Hash
  BY TreeAssumption DEF BlockRef, Refs
<1> HIDE DEF ref
<1>2. refs \in Seq(Refs) /\ Len(refs) = 1 /\ refs[1] = ref /\ refs # << >>
  BY <1>1
<1>3. t = [trunk    |-> refs,
           branches |-> << >>,
           heights  |-> [hash \in RangeOf(Hashes(refs)) |->
                           (CHOOSE i \in 1..Len(refs) : refs[i].hash = hash) - 1],
           acc      |-> PushWork(<< >>, refs)]
  BY DEF Assign, ref
<1> HIDE DEF refs
<1>4. RangeOf(Hashes(refs)) = {Genesis}
  BY <1>1, <1>2, HashesFacts
<1>5. (CHOOSE i \in 1..Len(refs) : refs[i].hash = Genesis) = 1
  BY <1>1, <1>2
<1>6. PushWork(<< >>, refs) \in Seq(Nat) /\ Len(PushWork(<< >>, refs)) = 1
      /\ PushWork(<< >>, refs)[1] = work
  <2> DEFINE w == PushWork(<< >>, refs)
  <2>1. << >> \in Seq(Nat) /\ Len(<< >>) = 0
    OBVIOUS
  <2>2. w = [i \in 1..Len(refs) |-> w[i]] /\ IsPushed(w, << >>, refs)
    BY <1>2, <2>1, PushWorkDef
  <2> HIDE DEF w
  <2>3. w[1] = work
    <3>1. 1 \in 1..Len(refs) /\ 1 > Len(<< >>)
      BY <1>2, <2>1
    <3>2. w[1] = refs[1].work
      BY <2>2, <3>1 DEF IsPushed
    <3> QED
      BY <1>1, <1>2, <3>2
  <2>4. w \in [1..1 -> Nat]
    <3>1. w = [i \in 1..1 |-> w[i]]
      BY <1>2, <2>2
    <3>2. \A i \in 1..1 : w[i] \in Nat
      BY <1>1, <2>3
    <3> QED
      BY <3>1, <3>2
  <2>5. w \in Seq(Nat) /\ Len(w) = 1
    BY <2>4, SequenceOf
  <2> QED
    BY <2>3, <2>5 DEF w
<1>7. /\ IsRecord(t)
      /\ t.trunk = refs
      /\ t.branches = << >>
      /\ t.heights = [hash \in {Genesis} |->
                        (CHOOSE i \in 1..Len(refs) : refs[i].hash = hash) - 1]
      /\ t.acc = PushWork(<< >>, refs)
  BY <1>3, <1>4 DEF IsRecord
<1>8. /\ DOMAIN t.heights = {Genesis}
      /\ t.heights[Genesis] = 0
      /\ t.heights = [h \in {Genesis} |-> 0]
  <2> DEFINE f == [hash \in {Genesis} |->
                     (CHOOSE i \in 1..Len(refs) : refs[i].hash = hash) - 1]
  <2>1. \A h \in {Genesis} :
           (CHOOSE i \in 1..Len(refs) : refs[i].hash = h) - 1 = 0
    BY <1>5
  <2>2. f = [h \in {Genesis} |-> 0]
    BY <2>1, Zenon
  <2>3. t.heights = f
    BY <1>7, Zenon
  <2>4. t.heights = [h \in {Genesis} |-> 0]
    BY <2>2, <2>3, Zenon
  <2> QED
    BY <2>4, Zenon
<1>9. DOMAIN t.branches = {} /\ t.branches \in [{} -> Refs]
  BY <1>7, EmptyFunction, Zenon
<1>10. IsTyped(t)
  BY <1>1, <1>2, <1>6, <1>7, <1>8, <1>9 DEF IsTyped
<1>11. IsLinked(t)
  BY <1>1, <1>2, <1>7 DEF IsLinked
<1>12. IsSigned(t)
  <2>1. ASSUME NEW i \in 1..Len(t.trunk)
        PROVE  Have(t, t.trunk[i].hash) /\ t.heights[t.trunk[i].hash] = i - 1
    BY <1>1, <1>2, <1>7, <1>8 DEF Have
  <2> QED
    BY <1>4, <1>7, <1>8, <1>9, <2>1 DEF IsSigned
<1>13. IsBounded(t)
  BY <1>8 DEF IsBounded, AbsHeight
<1>14. IsSummed(t)
  BY <1>1, <1>2, <1>6, <1>7 DEF IsSummed
<1>15. IsTree(t)
  BY <1>10, <1>11, <1>12, <1>13, <1>14 DEF IsTree, IsShaped
<1>16. Best(t).hash = Genesis
  BY <1>1, <1>2, <1>7 DEF Best
<1>17. AccumulatedWork(t)[Genesis] = work /\ t.acc[Len(t.acc)] = work
  BY <1>6, <1>7, <1>15, <1>16, BestFacts
<1>18. AccumulatedWork(t) = [h \in {Genesis} |-> work]
  <2>1. AccumulatedWork(t) = [h \in DOMAIN t.heights |-> AccumulatedWork(t)[h]]
    BY <1>8, <1>15, WorkDef DEF IsTree
  <2> QED
    BY <1>8, <1>17, <2>1
<1>19. IsHeaviest(t)
  BY <1>1, <1>8, <1>17 DEF IsHeaviest
<1> QED
  BY <1>15, <1>16, <1>18, <1>19

----------------------------------------------------------------------------
(* The inductive invariant: the shape of the tree, its sums, and that no    *)
(* known block has more work than the best.                                 *)
TreeInv ==
    /\ IsTree(tree)
    /\ IsHeaviest(tree)
    /\ changes \in [deleted : Seq(Hash), inserted : Seq(Hash)]

InsertStep ==
    \E hash \in Hash, prev \in Hash, work \in Works : InsertRef(hash, prev, work)

(* The tree of the first block satisfies the invariant. *)
LEMMA InitInv == Init => TreeInv
<1> SUFFICES ASSUME Init PROVE TreeInv
  OBVIOUS
<1>1. PICK work \in Works : tree = Assign(<<BlockRef(Genesis, NoHash, work)>>)
  BY DEF Init
<1>2. IsTree(tree) /\ IsHeaviest(tree)
  BY <1>1, AssignFacts
<1>3. changes \in [deleted : Seq(Hash), inserted : Seq(Hash)]
  BY DEF Init, NoChanges
<1> QED
  BY <1>2, <1>3 DEF TreeInv

(* insert() preserves the invariant. *)
LEMMA InsertInv == TreeInv /\ InsertStep => TreeInv'
<1> SUFFICES ASSUME TreeInv, InsertStep PROVE TreeInv'
  OBVIOUS
<1>1. PICK hash \in Hash, prev \in Hash, work \in Works : InsertRef(hash, prev, work)
  BY DEF InsertStep
<1> DEFINE ref == BlockRef(hash, prev, work)
<1>2. ref \in Refs /\ ref.hash = hash /\ ref.prev = prev
  BY DEF BlockRef, Refs
<1>3. /\ hash \notin DOMAIN tree.heights
      /\ prev \in DOMAIN tree.heights
      /\ tree' = Insert(tree, ref).tree
      /\ changes' = Insert(tree, ref).changes
  BY <1>1 DEF InsertRef, Have
<1> HIDE DEF ref
<1>4. IsTree(tree') /\ IsHeaviest(tree')
  BY <1>2, <1>3, InsertFacts DEF TreeInv
<1>5. changes' \in [deleted : Seq(Hash), inserted : Seq(Hash)]
  BY <1>2, <1>3, ChangesType DEF TreeInv, IsTree
<1> QED
  BY <1>4, <1>5 DEF TreeInv

(* A step that changes nothing preserves the invariant. *)
LEMMA StutterInv == TreeInv /\ UNCHANGED vars => TreeInv'
  BY DEF TreeInv, vars

(* The invariant holds in every state insert() can reach. *)
LEMMA InsertInvariance == InsertSpec => []TreeInv
<1>1. TreeInv /\ [InsertStep]_vars => TreeInv'
  BY InsertInv, StutterInv
<1> QED
  BY <1>1, InitInv, PTL DEF InsertSpec, InsertStep

----------------------------------------------------------------------------
(* Every member of the tree keeps the type of its C++ declaration, and the  *)
(* trunk is never empty, however BlockTree::insert is called.               *)
THEOREM InsertTypeOK == InsertSpec => []TypeOK
<1>1. TreeInv => TypeOK
  BY DEF TreeInv, IsTree, IsShaped, TypeOK
<1> QED
  BY <1>1, InsertInvariance, PTL

(* The trunk stays one chain from the first block through every             *)
(* reorganisation BlockTree::insert makes.                                  *)
THEOREM InsertTrunkLinked == InsertSpec => []TrunkLinked
<1>1. TreeInv => TrunkLinked
  BY DEF TreeInv, IsTree, IsShaped, TrunkLinked
<1> QED
  BY <1>1, InsertInvariance, PTL

(* BlockTree::insert keeps the sign and the size of every height: positive  *)
(* on the trunk, negative on a branch, the distance to the first block.     *)
THEOREM InsertHeightsSigned == InsertSpec => []HeightsSigned
<1>1. TreeInv => HeightsSigned
  BY DEF TreeInv, IsTree, IsShaped, HeightsSigned
<1> QED
  BY <1>1, InsertInvariance, PTL

(* BlockTree::insert keeps _acc_work the running sum of the trunk's work.   *)
THEOREM InsertAccWorkSums == InsertSpec => []AccWorkSums
<1>1. TreeInv => AccWorkSums
  BY DEF TreeInv, IsTree, AccWorkSums
<1> QED
  BY <1>1, InsertInvariance, PTL

(* After any number of inserts no known block has more accumulated work     *)
(* than best(): the trunk is a heaviest chain.                              *)
THEOREM InsertBestIsHeaviest == InsertSpec => []BestIsHeaviest
<1>1. TreeInv => BestIsHeaviest
  BY DEF TreeInv, BestIsHeaviest
<1> QED
  BY <1>1, InsertInvariance, PTL

(* However BlockTree::insert is called, its containers, heights and work    *)
(* agree with one another and with the chain of most work.                  *)
THEOREM InsertConsistent == InsertSpec => []Consistent
  BY InsertTypeOK, InsertTrunkLinked, InsertHeightsSigned, InsertAccWorkSums,
     InsertBestIsHeaviest, PTL DEF Consistent

(* BlockTree::insert implements the abstract heaviest chain: every insert   *)
(* adds exactly one block with the work of its predecessor plus its own,    *)
(* and moves the best block only to a strictly heavier one.                 *)
THEOREM InsertImplements == InsertSpec => ImplementsHeaviestChain
<1>1. Init => Heaviest!HInit
  <2> SUFFICES ASSUME Init PROVE Heaviest!HInit
    OBVIOUS
  <2>1. PICK work \in Works : tree = Assign(<<BlockRef(Genesis, NoHash, work)>>)
    BY DEF Init
  <2>2. /\ AccumulatedWork(tree) = [h \in {Genesis} |-> work]
        /\ Best(tree).hash = Genesis
    BY <2>1, AssignFacts
  <2> QED
    BY <2>2 DEF Heaviest!HInit
<1>2. TreeInv /\ InsertStep => Heaviest!HNext
  <2> SUFFICES ASSUME TreeInv, InsertStep PROVE Heaviest!HNext
    OBVIOUS
  <2>1. PICK hash \in Hash, prev \in Hash, work \in Works :
               InsertRef(hash, prev, work)
    BY DEF InsertStep
  <2> DEFINE ref == BlockRef(hash, prev, work)
             total == AccumulatedWork(tree)
  <2>2. ref \in Refs /\ ref.hash = hash /\ ref.prev = prev /\ ref.work = work
    BY DEF BlockRef, Refs
  <2>3. /\ hash \notin DOMAIN tree.heights
        /\ prev \in DOMAIN tree.heights
        /\ tree' = Insert(tree, ref).tree
    BY <2>1 DEF InsertRef, Have
  <2> HIDE DEF ref
  <2>4. DOMAIN total = DOMAIN tree.heights
    BY <2>3, WorkDef DEF TreeInv, IsTree
  <2>5. /\ AccumulatedWork(tree') = WorkWith(tree, ref)
        /\ Best(tree').hash =
              IF total[ref.prev] + ref.work > total[Best(tree).hash]
              THEN ref.hash ELSE Best(tree).hash
    BY <2>2, <2>3, InsertFacts DEF TreeInv
  <2>6. WorkWith(tree, ref) =
          [h \in DOMAIN total \cup {hash} |->
             IF h = hash THEN total[prev] + work ELSE total[h]]
    BY <2>2, <2>4 DEF WorkWith
  <2>7. Heaviest!HAdd(hash, prev, work)
    BY <2>2, <2>3, <2>4, <2>5, <2>6 DEF Heaviest!HAdd
  <2> QED
    BY <2>3, <2>4, <2>7 DEF Heaviest!HNext
<1>3. UNCHANGED vars => UNCHANGED Heaviest!hvars
  BY DEF vars, Heaviest!hvars
<1>4. TreeInv /\ [InsertStep]_vars => [Heaviest!HNext]_(Heaviest!hvars)
  BY <1>2, <1>3
<1> QED
  BY <1>1, <1>4, InsertInvariance, PTL
  DEF InsertSpec, InsertStep, ImplementsHeaviestChain, Heaviest!HSpec


----------------------------------------------------------------------------
(* That the report of insert() is exact. *)

(* Two sequences with the same elements are the same. *)
LEMMA SameSequence ==
    ASSUME NEW S, NEW s \in Seq(S), NEW w \in Seq(S), Len(s) = Len(w),
           \A i \in 1..Len(s) : s[i] = w[i]
    PROVE  s = w
  OBVIOUS

(* The end of a sequence, from a place on. *)
LEMMA SuffixFacts ==
    ASSUME NEW S, NEW s \in Seq(S), NEW n \in 0..Len(s)
    PROVE  /\ SubSeq(s, Len(s) - n + 1, Len(s)) \in Seq(S)
           /\ Len(SubSeq(s, Len(s) - n + 1, Len(s))) = n
           /\ \A i \in 1..n : SubSeq(s, Len(s) - n + 1, Len(s))[i] = s[Len(s) - n + i]
<1>1. Len(s) \in Nat /\ n \in Nat /\ n <= Len(s)
  OBVIOUS
<1> DEFINE m == Len(s) - n + 1
           w == SubSeq(s, m, Len(s))
<1>2. m \in 1..(Len(s) + 1) /\ Len(s) - m + 1 = n
  BY <1>1
<1>3. \A i \in 1..n : m + i - 1 = Len(s) - n + i /\ m + i - 1 \in 1..Len(s)
  BY <1>1
<1> HIDE DEF m
<1>4. w = [i \in 1..n |-> s[m + i - 1]]
  BY <1>2
<1>5. \A i \in 1..n : s[m + i - 1] \in S
  BY <1>3
<1>6. w \in Seq(S) /\ Len(w) = n
  BY <1>1, <1>4, <1>5, SequenceOf
<1>7. \A i \in 1..n : w[i] = s[Len(s) - n + i]
  BY <1>3, <1>4
<1> QED
  BY <1>6, <1>7 DEF m

(* A sequence turned round. *)
LEMMA ReverseFacts ==
    ASSUME NEW S, NEW s \in Seq(S), NEW w, w = [i \in 1..Len(s) |-> s[Len(s) + 1 - i]]
    PROVE  /\ w \in Seq(S)
           /\ Len(w) = Len(s)
           /\ \A i \in 1..Len(s) : w[i] = s[Len(s) + 1 - i]
<1>1. Len(s) \in Nat
  OBVIOUS
<1>2. \A i \in 1..Len(s) : Len(s) + 1 - i \in 1..Len(s)
  BY <1>1
<1>3. \A i \in 1..Len(s) : s[Len(s) + 1 - i] \in S
  BY <1>2
<1>4. w \in Seq(S) /\ Len(w) = Len(s)
  BY <1>1, <1>3, SequenceOf
<1> QED
  BY <1>4

(* ch leads from the hashes old to the hashes new. *)
IsExact(old, ch, new) ==
    /\ ch.deleted = SubSeq(old, Len(old) - Len(ch.deleted) + 1, Len(old))
    /\ new = Replay(old, ch)

(* A block that stays on a branch changes nothing. *)
LEMMA BranchExact ==
    ASSUME NEW old \in Seq(Hash) PROVE IsExact(old, NoChanges, old)
<1> DEFINE e == NoChanges.deleted
           w == [i \in 1..Len(NoChanges.inserted) |->
                   NoChanges.inserted[Len(NoChanges.inserted) + 1 - i]]
           low == SubSeq(old, 1, Len(old))
<1>1. /\ NoChanges.deleted = << >> /\ NoChanges.inserted = << >>
      /\ e \in Seq(Hash) /\ Len(e) = 0 /\ NoChanges.inserted \in Seq(Hash)
      /\ Len(NoChanges.inserted) = 0
  BY DEF NoChanges
<1>2. Len(old) \in Nat /\ 0 \in 0..Len(old) /\ Len(old) \in 0..Len(old) /\ Len(old) - 0 = Len(old)
  OBVIOUS
<1>3. w \in Seq(Hash) /\ Len(w) = 0
  BY <1>1, ReverseFacts
<1>4. low \in Seq(Hash) /\ Len(low) = Len(old) /\ \A i \in 1..Len(old) : low[i] = old[i]
  BY <1>2, PrefixFacts
<1>5. Replay(old, NoChanges) = SubSeq(old, 1, Len(old) - Len(e)) \o w
  BY DEF Replay
<1> DEFINE tail == SubSeq(old, Len(old) - 0 + 1, Len(old))
<1>6. tail \in Seq(Hash) /\ Len(tail) = 0
  BY <1>2, SuffixFacts
<1> HIDE DEF w, low, tail
<1>7. low \o w \in Seq(Hash) /\ IsConcat(low \o w, low, w)
  BY <1>3, <1>4, ConcatFacts
<1>8. Len(low \o w) = Len(old) /\ \A i \in 1..Len(old) : (low \o w)[i] = old[i]
  BY <1>2, <1>3, <1>4, <1>7 DEF IsConcat
<1>9. old = low \o w
  BY <1>7, <1>8, SameSequence
<1>10. e = tail
  BY <1>1, <1>6, SameSequence
<1>11. SubSeq(old, Len(old) - Len(e) + 1, Len(old)) = tail
  BY <1>1 DEF tail
<1>12. Replay(old, NoChanges) = low \o w
  BY <1>1, <1>2, <1>5 DEF low
<1> QED
  BY <1>9, <1>10, <1>11, <1>12 DEF IsExact

(* d is the end of old, above the root r. *)
IsEnd(d, old, r) ==
    /\ d \in Seq(Hash)
    /\ Len(old) - Len(d) = r + 1
    /\ d = SubSeq(old, Len(old) - Len(d) + 1, Len(old))

(* The hashes that a reorganisation takes off the trunk are its end. *)
LEMMA DeletedExact ==
    ASSUME NEW t, IsShaped(t), NEW r \in 0..TrunkHeight(t)
    PROVE  IsEnd(Hashes(TrunkAbove(t, r)), Hashes(t.trunk), r)
<1> DEFINE d == Hashes(TrunkAbove(t, r))
           old == Hashes(t.trunk)
           above == TrunkAbove(t, r)
           n == TrunkHeight(t) - r
<1>1. /\ t.trunk \in Seq(Refs)
      /\ Len(t.trunk) \in Nat
      /\ r \in Nat
      /\ TrunkHeight(t) = Len(t.trunk) - 1
      /\ r <= TrunkHeight(t)
  BY TrunkFacts DEF IsShaped
<1>2. n \in Nat /\ n = Len(t.trunk) - 1 - r /\ n \in 0..Len(t.trunk) /\ Len(t.trunk) - n = r + 1
  <2> DEFINE l == Len(t.trunk)
             h == TrunkHeight(t)
  <2>1. l \in Nat /\ r \in Nat /\ h = l - 1 /\ r <= h
    BY <1>1
  <2> HIDE DEF l, h
  <2>2. h - r \in Nat /\ h - r = l - 1 - r /\ h - r \in 0..l /\ l - (h - r) = r + 1
    BY <2>1
  <2> QED
    BY <2>2 DEF l, h
<1>3. above = [i \in 1..n |-> t.trunk[r + 1 + i]]
  BY DEF TrunkAbove
<1> HIDE DEF n
<1>4. \A i \in 1..n : r + 1 + i \in 1..Len(t.trunk)
  BY <1>1, <1>2
<1>5. above \in [1..n -> Refs]
  BY <1>1, <1>3, <1>4
<1> HIDE DEF above
<1>6. above \in Seq(Refs) /\ Len(above) = n
  BY <1>2, <1>5, SequenceOf
<1>7. /\ d \in Seq(Hash) /\ Len(d) = n
      /\ \A i \in 1..n : d[i] = above[i].hash
  BY <1>6, HashesFacts DEF above
<1>8. /\ old \in Seq(Hash) /\ Len(old) = Len(t.trunk)
      /\ \A i \in 1..Len(t.trunk) : old[i] = t.trunk[i].hash
  BY <1>1, HashesFacts
<1>9. \A i \in 1..n : d[i] = old[Len(old) - n + i]
  <2> TAKE i \in 1..n
  <2>1. d[i] = t.trunk[r + 1 + i].hash
    BY <1>3, <1>7
  <2>2. old[r + 1 + i] = t.trunk[r + 1 + i].hash
    BY <1>4, <1>8
  <2> QED
    BY <1>2, <1>8, <2>1, <2>2
<1> HIDE DEF d, old
<1> DEFINE tail == SubSeq(old, Len(old) - n + 1, Len(old))
<1>10. tail \in Seq(Hash) /\ Len(tail) = n /\ \A i \in 1..n : tail[i] = old[Len(old) - n + i]
  BY <1>2, <1>8, SuffixFacts
<1> HIDE DEF tail
<1>11. d = tail
  BY <1>7, <1>9, <1>10, SameSequence
<1>12. IsEnd(d, old, r)
  BY <1>2, <1>7, <1>8, <1>11 DEF IsEnd, tail
<1> QED
  BY <1>12 DEF d, old

(* The trunk after a reorganisation is the old one with the changes made. *)
LEMMA BestExact ==
    ASSUME NEW t, IsShaped(t), NEW ref \in Refs,
           ref.hash \notin DOMAIN t.heights, ref.prev \in DOMAIN t.heights
    PROVE  IsExact(Hashes(t.trunk), InsertChanges(t, ref), Hashes(InsertBest(t, ref).trunk))
<1> DEFINE p == BranchPath(t)[ref.prev]
           r == RootHeight(t, ref.prev)
           rest == SubSeq(t.trunk, 1, r + 1) \o Unwind(t, p)
           old == Hashes(t.trunk)
           d == Hashes(TrunkAbove(t, r))
           ins == <<ref.hash>> \o p
           back == [i \in 1..Len(ins) |-> ins[Len(ins) + 1 - i]]
           low == SubSeq(old, 1, r + 1)
           trunk == Append(rest, ref)
           new == Hashes(trunk)
<1>1. IsPath(t, ref.prev, p, r)
  BY PathFacts
<1>2. IsRest(t, p, r, rest)
  BY <1>1, RestFacts
<1>3. InsertChanges(t, ref) = [deleted |-> d, inserted |-> ins]
  BY DEF InsertChanges
<1>4. InsertBest(t, ref).trunk = trunk
  BY DEF InsertBest
<1> HIDE DEF p, r, rest
<1>5. /\ p \in Seq(DOMAIN t.branches) /\ Len(p) \in Nat
      /\ r \in 0..TrunkHeight(t) /\ r \in Nat
  BY <1>1, TrunkFacts DEF IsPath, IsShaped
<1>6. p \in Seq(Hash) /\ ref.hash \in Hash /\ \A i \in 1..Len(p) : t.branches[p[i]].hash = p[i]
  <2>1. DOMAIN t.branches \subseteq Hash
    BY DEF IsShaped, IsTyped
  <2>2. \A i \in 1..Len(p) : p[i] \in DOMAIN t.branches
    BY <1>5
  <2> QED
    BY <1>5, <2>1, <2>2, RefFacts DEF IsShaped, IsSigned
<1>7. /\ d \in Seq(Hash)
      /\ Len(old) - Len(d) = r + 1
      /\ d = SubSeq(old, Len(old) - Len(d) + 1, Len(old))
  <2>1. IsEnd(d, old, r)
    BY <1>5, DeletedExact
  <2> HIDE DEF old, d
  <2> QED
    BY <2>1 DEF IsEnd
<1>8. /\ old \in Seq(Hash) /\ Len(old) = Len(t.trunk)
      /\ \A i \in 1..Len(t.trunk) : old[i] = t.trunk[i].hash
      /\ r + 1 \in 0..Len(t.trunk)
  <2>1. t.trunk \in Seq(Refs) /\ TrunkHeight(t) = Len(t.trunk) - 1
    BY TrunkFacts DEF IsShaped
  <2> QED
    BY <1>5, <2>1, HashesFacts
<1>9. ins \in Seq(Hash) /\ IsCons(ins, ref.hash, p)
  BY <1>6, ConsFacts
<1> HIDE DEF ins
<1>10. /\ Len(ins) = Len(p) + 1
       /\ ins[1] = ref.hash
       /\ \A i \in 2..(Len(p) + 1) : ins[i] = p[i - 1]
  BY <1>9 DEF IsCons
<1>11. /\ back \in Seq(Hash) /\ Len(back) = Len(ins)
       /\ \A i \in 1..Len(ins) : back[i] = ins[Len(ins) + 1 - i]
  BY <1>9, ReverseFacts
<1>12. low \in Seq(Hash) /\ Len(low) = r + 1 /\ \A i \in 1..(r + 1) : low[i] = old[i]
  BY <1>8, PrefixFacts
<1> HIDE DEF back, low, old, d
<1>13. low \o back \in Seq(Hash) /\ IsConcat(low \o back, low, back)
  BY <1>11, <1>12, ConcatFacts
<1>14. Replay(old, InsertChanges(t, ref)) = low \o back
  <2>1. InsertChanges(t, ref).deleted = d /\ InsertChanges(t, ref).inserted = ins
    BY <1>3
  <2>2. Replay(old, InsertChanges(t, ref)) = SubSeq(old, 1, Len(old) - Len(d)) \o back
    BY <2>1, Zenon DEF Replay, back
  <2> QED
    BY <1>7, <2>2 DEF low
<1>15. /\ rest \in Seq(Refs)
       /\ Len(rest) = r + 1 + Len(p)
       /\ \A i \in 1..(r + 1) : rest[i] = t.trunk[i]
       /\ \A i \in 1..Len(p) : rest[r + Len(p) + 2 - i] = t.branches[p[i]]
  BY <1>2 DEF IsRest
<1>16. trunk \in Seq(Refs) /\ IsAppend(trunk, rest, ref)
  BY <1>15, AppendFacts
<1> HIDE DEF trunk
<1>17. /\ Len(trunk) = r + Len(p) + 2
       /\ \A i \in 1..(r + 1 + Len(p)) : trunk[i] = rest[i]
       /\ trunk[r + Len(p) + 2] = ref
  BY <1>5, <1>15, <1>16 DEF IsAppend
<1>18. /\ new \in Seq(Hash) /\ Len(new) = r + Len(p) + 2
       /\ \A i \in 1..(r + Len(p) + 2) : new[i] = trunk[i].hash
  BY <1>16, <1>17, HashesFacts
<1> HIDE DEF new
<1> DEFINE w == low \o back
<1>19. /\ Len(w) = r + Len(p) + 2
       /\ \A i \in 1..(r + 1) : w[i] = low[i]
       /\ \A i \in 1..(Len(p) + 1) : w[r + 1 + i] = back[i]
  BY <1>5, <1>10, <1>11, <1>12, <1>13 DEF IsConcat
<1> HIDE DEF w
<1>20. ASSUME NEW i \in 1..(r + Len(p) + 2) PROVE new[i] = w[i]
  <2>1. new[i] = trunk[i].hash
    BY <1>18
  <2>2. CASE i \in 1..(r + 1)
    <3>1. trunk[i] = t.trunk[i]
      BY <1>5, <1>15, <1>17, <2>2
    <3>2. w[i] = t.trunk[i].hash
      <4>1. i \in 1..Len(t.trunk)
        BY <1>8, <2>2
      <4>2. w[i] = old[i]
        BY <1>12, <1>19, <2>2
      <4> QED
        BY <1>8, <4>1, <4>2
    <3> QED
      BY <2>1, <3>1, <3>2
  <2>3. CASE i = r + Len(p) + 2
    <3>1. r + 1 + (Len(p) + 1) = i /\ Len(p) + 1 \in 1..(Len(p) + 1)
          /\ Len(p) + 1 + 1 - (Len(p) + 1) = 1
      BY <1>5, <2>3
    <3>2. w[i] = back[Len(p) + 1]
      BY <1>19, <3>1
    <3>3. back[Len(p) + 1] = ref.hash
      BY <1>10, <1>11, <3>1
    <3> QED
      BY <1>17, <2>1, <2>3, <3>2, <3>3
  <2>4. CASE i \in (r + 2)..(r + 1 + Len(p))
    <3> DEFINE j == i - (r + 1)
               k == r + Len(p) + 2 - i
    <3>1. /\ j \in 1..Len(p) /\ j \in 1..(Len(p) + 1) /\ r + 1 + j = i
          /\ k \in 1..Len(p) /\ r + Len(p) + 2 - k = i
          /\ Len(p) + 1 + 1 - j = k + 1 /\ k + 1 \in 2..(Len(p) + 1) /\ k + 1 - 1 = k
          /\ i \in 1..(r + 1 + Len(p))
      BY <1>5, <2>4
    <3> HIDE DEF j, k
    <3>2. trunk[i] = t.branches[p[k]]
      BY <1>15, <1>17, <3>1
    <3>3. w[i] = back[j]
      BY <1>19, <3>1
    <3>4. back[j] = ins[k + 1]
      BY <1>10, <1>11, <3>1
    <3>5. ins[k + 1] = p[k]
      BY <1>10, <3>1
    <3> QED
      BY <1>6, <2>1, <3>1, <3>2, <3>3, <3>4, <3>5
  <2>5. i \in 1..(r + 1) \/ i = r + Len(p) + 2 \/ i \in (r + 2)..(r + 1 + Len(p))
    BY <1>5
  <2> QED
    BY <2>2, <2>3, <2>4, <2>5
<1>21. w \in Seq(Hash)
  BY <1>13 DEF w
<1>22. new = w
  BY <1>18, <1>19, <1>20, <1>21, SameSequence
<1>23. InsertChanges(t, ref).deleted = d
  BY <1>3
<1>24. IsExact(old, InsertChanges(t, ref), new)
  BY <1>7, <1>14, <1>22, <1>23 DEF IsExact, w
<1> QED
  BY <1>4, <1>24 DEF old, new

(* However BlockTree::insert is called, the changes that it returns lead    *)
(* from the old trunk to the new one: what BlockChain detaches is the end   *)
(* of the old trunk, and what it attaches on top makes the new one.         *)
THEOREM InsertChangesExact == InsertSpec => ChangesAreExact
<1>1. ASSUME TreeInv, InsertStep
      PROVE  IsExact(Hashes(tree.trunk), changes', Hashes(tree'.trunk))
  <2>1. PICK hash \in Hash, prev \in Hash, work \in Works : InsertRef(hash, prev, work)
    BY <1>1 DEF InsertStep
  <2> DEFINE ref == BlockRef(hash, prev, work)
  <2>2. ref \in Refs /\ ref.hash = hash /\ ref.prev = prev
    BY DEF BlockRef, Refs
  <2>3. /\ hash \notin DOMAIN tree.heights
        /\ prev \in DOMAIN tree.heights
        /\ tree' = Insert(tree, ref).tree
        /\ changes' = Insert(tree, ref).changes
    BY <2>1 DEF InsertRef, Have
  <2> HIDE DEF ref
  <2>4. IsShaped(tree) /\ tree.trunk \in Seq(Refs)
    BY <1>1, TrunkFacts DEF TreeInv, IsTree, IsShaped
  <2>5. CASE BeatsTrunk(tree, ref)
    <3>1. tree' = InsertBest(tree, ref) /\ changes' = InsertChanges(tree, ref)
      BY <2>3, <2>5 DEF Insert
    <3> QED
      BY <2>2, <2>3, <2>4, <3>1, BestExact
  <2>6. CASE ~BeatsTrunk(tree, ref)
    <3>1. tree' = InsertBranch(tree, ref) /\ changes' = NoChanges
      BY <2>3, <2>6 DEF Insert
    <3>2. tree'.trunk = tree.trunk
      BY <3>1 DEF InsertBranch
    <3>3. Hashes(tree.trunk) \in Seq(Hash)
      BY <2>4, HashesFacts
    <3> QED
      BY <3>1, <3>2, <3>3, BranchExact
  <2> QED
    BY <2>5, <2>6
<1>2. TreeInv /\ [InsertStep]_vars =>
        [(\E hash \in Hash, prev \in Hash, work \in Works : InsertRef(hash, prev, work))
         => LET old == Hashes(tree.trunk) IN
            /\ changes'.deleted =
                  SubSeq(old, Len(old) - Len(changes'.deleted) + 1, Len(old))
            /\ Hashes(tree'.trunk) = Replay(old, changes')]_vars
  BY <1>1 DEF InsertStep, IsExact
<1> QED
  BY <1>2, InsertInvariance, PTL DEF InsertSpec, InsertStep, ChangesAreExact
=============================================================================
