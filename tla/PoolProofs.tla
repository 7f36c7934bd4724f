----------------------------- MODULE PoolProofs -----------------------------
(***************************************************************************)
(* That templates are for one block and kept while it is best, and that no *)
(* long poll loses its handler, for every number of miners, claims and     *)
(* handlers, and every point at which a handler is installed.              *)
(*                                                                         *)
(* What the templates are made of: that the containers of Claims agree and *)
(* that TransactionFilter retries every orphan, for any transactions.      *)
(***************************************************************************)
EXTENDS Pool, TransactionFilter, FiniteSetTheorems, NaturalsInduction, TLAPS

----------------------------------------------------------------------------
(* Sequences *)

(* Every nonempty set of natural numbers has a least element. *)
LEMMA LeastElement ==
    ASSUME NEW T, T \subseteq Nat, T # {}
    PROVE  \E x \in T : \A y \in T : x <= y
<1>1. IsWellFoundedOn(OpToRel(<, Nat), Nat)
  BY NatLessThanWellFounded
<1>2. PICK x \in T : \A y \in T : ~(<<y, x>> \in OpToRel(<, Nat))
  BY <1>1, WFMin
<1>3. ASSUME NEW y \in T PROVE x <= y
  <2>1. ~(y < x)
    BY <1>2 DEF OpToRel
  <2> QED
    BY <2>1
<1> QED
  BY <1>3

(* r is s with e put at k. *)
IsInserted(r, s, k, e) ==
    /\ Len(r) = Len(s) + 1
    /\ \A i \in 1..Len(s) : i < k => r[i] = s[i]
    /\ \A i \in 1..Len(s) : k <= i => r[i + 1] = s[i]
    /\ r[k] = e

(* r is s without what is at a or after, and before b. *)
IsErased(r, s, a, b) ==
    /\ Len(r) = Len(s) - (b - a)
    /\ \A i \in 1..(a - 1) : r[i] = s[i]
    /\ \A i \in a..Len(r) : r[i] = s[i + (b - a)]

(* w is u followed by v. *)
IsConcat(w, u, v) ==
    /\ Len(w) = Len(u) + Len(v)
    /\ \A i \in 1..Len(u) : w[i] = u[i]
    /\ \A i \in 1..Len(v) : w[Len(u) + i] = v[i]

(* What concatenation makes of two sequences. *)
LEMMA ConcatFacts ==
    ASSUME NEW S, NEW u \in Seq(S), NEW v \in Seq(S)
    PROVE  u \o v \in Seq(S) /\ IsConcat(u \o v, u, v)
  BY DEF IsConcat

(* The multimap's insert. *)
LEMMA InsertFacts ==
    ASSUME NEW S, NEW s \in Seq(S), NEW k \in 1..(Len(s) + 1), NEW e \in S
    PROVE  /\ InsertAt(s, k, e) \in Seq(S)
           /\ IsInserted(InsertAt(s, k, e), s, k, e)
<1> DEFINE low == SubSeq(s, 1, k - 1)
           high == SubSeq(s, k, Len(s))
           u == low \o <<e>>
           r == u \o high
<1>1. /\ low \in Seq(S)
      /\ Len(low) = k - 1
      /\ \A i \in 1..(k - 1) : low[i] = s[i]
  OBVIOUS
<1>2. /\ high \in Seq(S)
      /\ Len(high) = Len(s) - k + 1
      /\ \A i \in 1..(Len(s) - k + 1) : high[i] = s[k + i - 1]
  OBVIOUS
<1> HIDE DEF low, high
<1>3. /\ u \in Seq(S)
      /\ Len(u) = k
      /\ \A i \in 1..(k - 1) : u[i] = s[i]
      /\ u[k] = e
  BY <1>1
<1> HIDE DEF u
<1>4. /\ r \in Seq(S)
      /\ Len(r) = Len(u) + Len(high)
      /\ \A i \in 1..Len(u) : r[i] = u[i]
      /\ \A i \in 1..Len(high) : r[Len(u) + i] = high[i]
  <2>1. u \in Seq(S) /\ high \in Seq(S)
    BY <1>2, <1>3
  <2>2. r \in Seq(S) /\ IsConcat(r, u, high)
    BY <2>1, ConcatFacts, Zenon
  <2> QED
    BY <2>2 DEF IsConcat
<1>5. r = InsertAt(s, k, e)
  BY DEF InsertAt, low, high, u
<1> HIDE DEF r
<1>6. Len(r) = Len(s) + 1
  BY <1>2, <1>3, <1>4
<1>7. ASSUME NEW i \in 1..Len(s), i < k PROVE r[i] = s[i]
  BY <1>3, <1>4, <1>7
<1>8. ASSUME NEW i \in 1..Len(s), k <= i PROVE r[i + 1] = s[i]
  <2> DEFINE j == i - k + 1
  <2>1. j \in 1..Len(high) /\ k + j = i + 1 /\ k + j - 1 = i
    BY <1>2, <1>8
  <2> HIDE DEF j
  <2>2. r[k + j] = high[j] /\ high[j] = s[k + j - 1]
    BY <1>2, <1>3, <1>4, <2>1
  <2> QED
    BY <2>1, <2>2
<1>9. r[k] = e
  BY <1>3, <1>4
<1> QED
  BY <1>4, <1>5, <1>6, <1>7, <1>8, <1>9 DEF IsInserted

(* The multimap's erase. *)
LEMMA EraseFacts ==
    ASSUME NEW S, NEW s \in Seq(S), NEW a \in 1..(Len(s) + 1), NEW b \in a..(Len(s) + 1)
    PROVE  /\ SubSeq(s, 1, a - 1) \o SubSeq(s, b, Len(s)) \in Seq(S)
           /\ IsErased(SubSeq(s, 1, a - 1) \o SubSeq(s, b, Len(s)), s, a, b)
<1> DEFINE low == SubSeq(s, 1, a - 1)
           high == SubSeq(s, b, Len(s))
           r == low \o high
<1>1. /\ low \in Seq(S)
      /\ Len(low) = a - 1
      /\ \A i \in 1..(a - 1) : low[i] = s[i]
  OBVIOUS
<1>2. /\ high \in Seq(S)
      /\ Len(high) = Len(s) - b + 1
      /\ \A i \in 1..(Len(s) - b + 1) : high[i] = s[b + i - 1]
  OBVIOUS
<1> HIDE DEF low, high
<1>3. /\ r \in Seq(S)
      /\ Len(r) = Len(low) + Len(high)
      /\ \A i \in 1..Len(low) : r[i] = low[i]
      /\ \A i \in 1..Len(high) : r[Len(low) + i] = high[i]
  <2>1. low \in Seq(S) /\ high \in Seq(S)
    BY <1>1, <1>2
  <2>2. r \in Seq(S) /\ IsConcat(r, low, high)
    BY <2>1, ConcatFacts, Zenon
  <2> QED
    BY <2>2 DEF IsConcat
<1> HIDE DEF r
<1>4. Len(r) = Len(s) - (b - a)
  BY <1>1, <1>2, <1>3
<1>5. \A i \in 1..(a - 1) : r[i] = s[i]
  BY <1>1, <1>3
<1>6. ASSUME NEW i \in a..Len(r) PROVE r[i] = s[i + (b - a)]
  <2> DEFINE j == i - a + 1
  <2>1. j \in 1..Len(high) /\ (a - 1) + j = i /\ b + j - 1 = i + (b - a)
    BY <1>2, <1>4
  <2> HIDE DEF j
  <2>2. r[(a - 1) + j] = high[j] /\ high[j] = s[b + j - 1]
    BY <1>1, <1>2, <1>3, <2>1
  <2> QED
    BY <2>1, <2>2
<1>7. r \in Seq(S) /\ IsErased(r, s, a, b)
  BY <1>3, <1>4, <1>5, <1>6 DEF IsErased
<1> QED
  BY <1>7 DEF r, low, high

----------------------------------------------------------------------------
(* Templates *)

(* getWork() keeps the templates for one block. *)
LEMMA GetWorkTemplates ==
    ASSUME TemplatesShareParent, GetWork
    PROVE  TemplatesShareParent' /\ \A r \in templates \ templates' : r.prev # best
<1>1. CASE templates = {} \/ latest.prev # best \/ recent
  <2>1. templates' = Kept \cup {Template} /\ latest' = Template
    BY <1>1 DEF GetWork
  <2>2. Template.prev = best
    BY DEF Template
  <2>3. \A r \in Kept : r.prev = best
    BY DEF Kept, TemplatesShareParent
  <2>4. TemplatesShareParent'
    BY <2>1, <2>2, <2>3 DEF TemplatesShareParent
  <2>5. \A r \in templates \ Kept : r.prev # best
    BY DEF Kept, TemplatesShareParent
  <2> QED
    BY <2>1, <2>4, <2>5
<1>2. CASE ~(templates = {} \/ latest.prev # best \/ recent)
  BY <1>2 DEF GetWork, TemplatesShareParent
<1> QED
  BY <1>1, <1>2

(* Only getWork() changes the templates. *)
LEMMA NextTemplates ==
    TemplatesShareParent /\ [Next]_vars =>
        TemplatesShareParent' /\ \A r \in templates \ templates' : r.prev # best
<1> SUFFICES ASSUME TemplatesShareParent, [Next]_vars
             PROVE  TemplatesShareParent' /\ \A r \in templates \ templates' : r.prev # best
  OBVIOUS
<1>1. CASE UNCHANGED <<templates, latest>>
  BY <1>1 DEF TemplatesShareParent
<1>2. CASE GetWork
  BY <1>2, GetWorkTemplates
<1>3. ASSUME NEW m \in Miners, InstallHandler(m) PROVE UNCHANGED <<templates, latest>>
  BY <1>3 DEF InstallHandler
<1>4. ASSUME NEW m \in Miners, FirstCall(m) PROVE GetWork
  BY <1>4 DEF FirstCall, Served
<1>5. ASSUME NEW b \in Blocks, NEW count, NewBest(b, count)
      PROVE  UNCHANGED <<templates, latest>>
  BY <1>5 DEF NewBest
<1>6. ASSUME NEW m \in Miners, NEW b \in Blocks, SubmitBlock(m, b)
      PROVE  UNCHANGED <<templates, latest>>
  BY <1>5, <1>6 DEF SubmitBlock
<1>7. ASSUME NEW b \in Blocks, NEW count \in 0..MaxClaims, NewBlock(b, count)
      PROVE  UNCHANGED <<templates, latest>>
  BY <1>5, <1>7 DEF NewBlock
<1>8. NewTransaction \/ EraseHandlers \/ TimePasses \/ UNCHANGED vars =>
        UNCHANGED <<templates, latest>>
  BY DEF NewTransaction, EraseHandlers, TimePasses, vars
<1>9. CallHandler => GetWork
  BY DEF CallHandler, Served
<1> QED
  BY <1>1, <1>2, <1>3, <1>4, <1>6, <1>7, <1>8, <1>9 DEF Next

(* The work getWork() keeps is for one block, with the last template in it, *)
(* and no step drops a template for the block that is best: a miner's       *)
(* submitBlock() for it is not turned away (Pool.cpp).                      *)
THEOREM TemplatesSound == Spec => TemplatesAreSound
<1>1. Init => TemplatesShareParent
  BY DEF Init, TemplatesShareParent
<1>2. TemplatesShareParent /\ [Next]_vars =>
        TemplatesShareParent' /\ \A r \in templates \ templates' : r.prev # best
  BY NextTemplates
<1>3. TemplatesShareParent /\ [Next]_vars =>
        [TemplatesShareParent' /\ \A r \in templates \ templates' : r.prev # best]_vars
  BY <1>2
<1> QED
  BY <1>1, <1>2, <1>3, PTL DEF Spec, TemplatesAreSound

----------------------------------------------------------------------------
(* The multimap of handlers *)

Handler == [node : Nodes, miner : Miners, count : 0..(MaxClaims + Threshold)]

(* h is in the order of counts, and its elements are different nodes. *)
IsMap(h) ==
    /\ h \in Seq(Handler)
    /\ \A i, j \in 1..Len(h) : i <= j => h[i].count <= h[j].count
    /\ \A i, j \in 1..Len(h) : h[i].node = h[j].node => i = j

(* The iterators of h that are valid, and where they are. *)
Iterators(h) == {End} \cup {h[i].node : i \in 1..Len(h)}

Pos(h, it) == IF it = End THEN Len(h) + 1 ELSE CHOOSE i \in 1..Len(h) : h[i].node = it

(* The fields of a handler. *)
LEMMA HandlerFacts ==
    ASSUME NEW x \in Handler
    PROVE  /\ x.node \in Nodes
           /\ x.node # End
           /\ x.miner \in Miners
           /\ x.count \in 0..(MaxClaims + Threshold)
           /\ x.count \in Nat
<1>1. x.node \in Nodes /\ x.miner \in Miners /\ x.count \in 0..(MaxClaims + Threshold)
  BY DEF Handler
<1>2. x.node # End
  BY <1>1, PoolAssumption DEF End
<1>3. x.count \in Nat
  BY <1>1, PoolAssumption
<1> QED
  BY <1>1, <1>2, <1>3

(* The elements of the multimap are handlers. *)
LEMMA ElementFacts ==
    ASSUME NEW h, IsMap(h), NEW i \in 1..Len(h)
    PROVE  h[i] \in Handler
  BY DEF IsMap

(* What the range of a set of numbers is that has all the ones below any. *)
LEMMA DownSet ==
    ASSUME NEW n \in Nat, NEW D \in SUBSET (1..n),
           \A i \in D, j \in 1..n : j <= i => j \in D
    PROVE  Cardinality(D) \in 0..n /\ D = 1..Cardinality(D)
<1> DEFINE T == {x \in Nat : x + 1 \notin D}
<1>1. n \in T
  OBVIOUS
<1>2. PICK x \in T : \A y \in T : x <= y
  BY <1>1, LeastElement
<1>3. x \in 0..n /\ x + 1 \notin D
  BY <1>1, <1>2
<1>4. \A i \in 1..x : i \in D
  <2> TAKE i \in 1..x
  <2>1. i - 1 \in Nat /\ i - 1 < x /\ (i - 1) + 1 = i
    BY <1>3
  <2>2. i - 1 \notin T
    BY <1>2, <2>1
  <2> QED
    BY <2>1, <2>2
<1>5. \A i \in D : i <= x
  <2> TAKE i \in D
  <2>1. ~(x + 1 <= i)
    BY <1>3
  <2> QED
    BY <1>3, <2>1
<1>6. D = 1..x
  <2> HIDE DEF T
  <2>1. D \subseteq Nat \ {0}
    OBVIOUS
  <2>2. D \subseteq 1..x
    BY <1>3, <1>5, <2>1
  <2>3. 1..x \subseteq D
    BY <1>4
  <2> QED
    BY <2>2, <2>3
<1>7. Cardinality(1..x) = x
  BY <1>3, FS_Interval
<1> QED
  BY <1>3, <1>6, <1>7

(* upper_bound(): what is before waits for count claims or fewer, and what  *)
(* is there or after for more.                                              *)
LEMMA UpperBoundFacts ==
    ASSUME IsMap(handlers), NEW count \in Nat
    PROVE  /\ UpperBound(count) \in 1..(Len(handlers) + 1)
           /\ \A i \in 1..Len(handlers) :
                 i < UpperBound(count) <=> handlers[i].count <= count
<1> DEFINE D == {i \in 1..Len(handlers) : handlers[i].count <= count}
           n == Len(handlers)
<1>1. \A i \in 1..n : handlers[i].count \in Nat
  BY ElementFacts, HandlerFacts
<1>2. \A i, j \in 1..n : i <= j => handlers[i].count <= handlers[j].count
  BY DEF IsMap
<1>3. n \in Nat
  BY DEF IsMap
<1>4. \A i \in D, j \in 1..n : j <= i => j \in D
  BY <1>1, <1>2
<1>5. D \in SUBSET (1..n)
  OBVIOUS
<1>6. UpperBound(count) = 1 + Cardinality(D)
  BY DEF UpperBound
<1>7. Cardinality(D) \in 0..n /\ D = 1..Cardinality(D)
  <2> HIDE DEF D, n
  <2> QED
    BY <1>3, <1>4, <1>5, DownSet
<1>8. \A i \in 1..n : i \in D <=> handlers[i].count <= count
  OBVIOUS
<1> HIDE DEF D
<1>9. \A i \in 1..n : i \in D <=> i < UpperBound(count)
  BY <1>3, <1>6, <1>7
<1> QED
  BY <1>3, <1>6, <1>7, <1>8, <1>9

(* An iterator that is valid is the end or points to its node. *)
LEMMA PosFacts ==
    ASSUME NEW h, IsMap(h), NEW it \in Iterators(h)
    PROVE  /\ Pos(h, it) \in 1..(Len(h) + 1)
           /\ it = End <=> Pos(h, it) = Len(h) + 1
           /\ it # End => h[Pos(h, it)].node = it
<1>1. Len(h) \in Nat
  BY DEF IsMap
<1>2. CASE it = End
  BY <1>1, <1>2 DEF Pos
<1>3. CASE it # End
  <2>1. \E i \in 1..Len(h) : h[i].node = it
    BY <1>3 DEF Iterators
  <2>2. Pos(h, it) \in 1..Len(h) /\ h[Pos(h, it)].node = it
    BY <1>3, <2>1 DEF Pos
  <2> QED
    BY <1>1, <1>3, <2>2
<1> QED
  BY <1>2, <1>3

(* The node at i is found at i. *)
LEMMA PosOfNode ==
    ASSUME NEW h, IsMap(h), NEW i \in 1..Len(h)
    PROVE  /\ h[i].node \in Iterators(h) \cap Nodes
           /\ h[i].node # End
           /\ Pos(h, h[i].node) = i
<1>1. h[i].node \in Nodes /\ h[i].node # End
  BY ElementFacts, HandlerFacts
<1>2. h[i].node \in Iterators(h)
  BY DEF Iterators
<1>3. Pos(h, h[i].node) \in 1..(Len(h) + 1)
  BY <1>2, PosFacts
<1>4. Pos(h, h[i].node) # Len(h) + 1 /\ h[Pos(h, h[i].node)].node = h[i].node
  BY <1>1, <1>2, PosFacts
<1>5. Pos(h, h[i].node) \in 1..Len(h)
  BY <1>3, <1>4 DEF IsMap
<1> QED
  BY <1>1, <1>2, <1>4, <1>5 DEF IsMap

(* Inserting leaves iterators valid; those at or after k move on by one. *)
Moved(i, k) == IF i < k THEN i ELSE i + 1

LEMMA PosInserted ==
    ASSUME NEW h, IsMap(h), NEW r, IsMap(r), NEW k \in 1..(Len(h) + 1), NEW e,
           IsInserted(r, h, k, e), NEW it \in Iterators(h)
    PROVE  it \in Iterators(r) /\ Pos(r, it) = Moved(Pos(h, it), k)
<1>1. Len(h) \in Nat /\ Len(r) = Len(h) + 1
  BY DEF IsMap, IsInserted
<1>2. CASE it = End
  BY <1>1, <1>2 DEF Pos, Moved, Iterators
<1>3. CASE it # End
  <2>1. PICK i \in 1..Len(h) : h[i].node = it
    BY <1>3 DEF Iterators
  <2>2. Pos(h, it) = i
    BY <2>1, PosOfNode
  <2>3. Moved(i, k) \in 1..Len(r) /\ r[Moved(i, k)] = h[i]
    BY <1>1 DEF Moved, IsInserted
  <2>4. /\ r[Moved(i, k)].node \in Iterators(r)
        /\ Pos(r, r[Moved(i, k)].node) = Moved(i, k)
    BY <2>3, PosOfNode
  <2> QED
    BY <2>1, <2>2, <2>3, <2>4
<1> QED
  BY <1>2, <1>3

(* A handler inserted at the upper bound of its count leaves the order. *)
LEMMA MapInserted ==
    ASSUME NEW h, IsMap(h), NEW e \in Handler, NEW k \in 1..(Len(h) + 1),
           \A i \in 1..Len(h) : i < k <=> h[i].count <= e.count,
           \A i \in 1..Len(h) : h[i].node # e.node
    PROVE  /\ IsMap(InsertAt(h, k, e))
           /\ IsInserted(InsertAt(h, k, e), h, k, e)
<1>1. PICK r : r = InsertAt(h, k, e)
  OBVIOUS
<1>2. r \in Seq(Handler) /\ IsInserted(r, h, k, e)
  BY <1>1, InsertFacts DEF IsMap
<1>3. Len(h) \in Nat /\ Len(r) = Len(h) + 1
  BY <1>2 DEF IsMap, IsInserted
<1>4. e.count \in Nat /\ \A i \in 1..Len(h) : h[i].count \in Nat
  BY ElementFacts, HandlerFacts
<1> DEFINE From(i) == IF i < k THEN i ELSE i - 1
<1>5. \A i \in 1..Len(r) : i # k =>
         From(i) \in 1..Len(h) /\ r[i] = h[From(i)] /\ (From(i) < k <=> i < k)
  <2> TAKE i \in 1..Len(r)
  <2>1. CASE i < k
    BY <1>2, <1>3, <2>1 DEF IsInserted
  <2>2. CASE k < i
    <3>1. i - 1 \in 1..Len(h) /\ k <= i - 1 /\ (i - 1) + 1 = i
      BY <1>3, <2>2
    <3>2. r[(i - 1) + 1] = h[i - 1]
      BY <1>2, <3>1 DEF IsInserted
    <3> QED
      BY <2>2, <3>1, <3>2
  <2> QED
    BY <1>3, <2>1, <2>2
<1>6. r[k] = e
  BY <1>2 DEF IsInserted
<1>7. ASSUME NEW i \in 1..Len(r), NEW j \in 1..Len(r), i <= j PROVE r[i].count <= r[j].count
  <2>1. CASE i = k /\ j = k
    BY <1>4, <1>6, <2>1
  <2>2. CASE i = k /\ j # k
    <3>1. From(j) \in 1..Len(h) /\ r[j] = h[From(j)] /\ ~(From(j) < k)
      BY <1>3, <1>5, <1>7, <2>2
    <3> HIDE DEF From
    <3> QED
      BY <1>4, <1>6, <2>2, <3>1
  <2>3. CASE i # k /\ j = k
    <3>1. From(i) \in 1..Len(h) /\ r[i] = h[From(i)] /\ From(i) < k
      BY <1>3, <1>5, <1>7, <2>3
    <3> HIDE DEF From
    <3> QED
      BY <1>6, <2>3, <3>1
  <2>4. CASE i # k /\ j # k
    <3>1. From(i) <= From(j)
      BY <1>3, <1>7, <2>4
    <3> HIDE DEF From
    <3>2. /\ From(i) \in 1..Len(h) /\ r[i] = h[From(i)]
          /\ From(j) \in 1..Len(h) /\ r[j] = h[From(j)]
      BY <1>5, <2>4
    <3> QED
      BY <3>1, <3>2 DEF IsMap
  <2> QED
    BY <2>1, <2>2, <2>3, <2>4
<1>8. ASSUME NEW i \in 1..Len(r), NEW j \in 1..Len(r), r[i].node = r[j].node PROVE i = j
  <2>1. CASE i = k \/ j = k
    <3> HIDE DEF From
    <3> QED
      BY <1>5, <1>6, <1>8, <2>1
  <2>2. CASE i # k /\ j # k
    <3>1. /\ From(i) \in 1..Len(h) /\ r[i] = h[From(i)] /\ (From(i) < k <=> i < k)
          /\ From(j) \in 1..Len(h) /\ r[j] = h[From(j)] /\ (From(j) < k <=> j < k)
      BY <1>5, <2>2
    <3>2. From(i) = From(j)
      <4> HIDE DEF From
      <4> QED
        BY <1>8, <3>1 DEF IsMap
    <3> QED
      BY <1>3, <2>2, <3>1, <3>2
  <2> QED
    BY <2>1, <2>2
<1>9. IsMap(r)
  BY <1>2, <1>7, <1>8 DEF IsMap
<1> QED
  BY <1>1, <1>2, <1>9

(* Where what is at i after erasing came from. *)
Origin(i, a, b) == IF i < a THEN i ELSE i + (b - a)

LEMMA ErasedOrigin ==
    ASSUME NEW h, IsMap(h), NEW a \in 1..(Len(h) + 1), NEW b \in a..(Len(h) + 1),
           NEW r, IsErased(r, h, a, b)
    PROVE  /\ Len(r) \in Nat
           /\ \A i \in 1..Len(r) :
                 /\ Origin(i, a, b) \in 1..Len(h)
                 /\ r[i] = h[Origin(i, a, b)]
                 /\ Origin(i, a, b) < a \/ b <= Origin(i, a, b)
           /\ \A i, j \in 1..Len(r) : i <= j => Origin(i, a, b) <= Origin(j, a, b)
           /\ \A i, j \in 1..Len(r) : Origin(i, a, b) = Origin(j, a, b) => i = j
           /\ \A x \in 1..Len(h) : x < a \/ b <= x => \E i \in 1..Len(r) : r[i] = h[x]
<1>1. Len(h) \in Nat
  BY DEF IsMap
<1>2. Len(r) \in Nat /\ Len(r) = Len(h) - (b - a)
  BY <1>1 DEF IsErased
<1>3. ASSUME NEW i \in 1..Len(r)
      PROVE  /\ Origin(i, a, b) \in 1..Len(h)
             /\ r[i] = h[Origin(i, a, b)]
             /\ Origin(i, a, b) < a \/ b <= Origin(i, a, b)
  <2>1. CASE i < a
    BY <1>1, <1>2, <2>1 DEF Origin, IsErased
  <2>2. CASE a <= i
    <3>1. i \in a..Len(r) /\ i + (b - a) \in 1..Len(h) /\ b <= i + (b - a)
      BY <1>1, <1>2, <2>2
    <3>2. Origin(i, a, b) = i + (b - a)
      BY <1>1, <1>2, <2>2 DEF Origin
    <3>3. r[i] = h[i + (b - a)]
      BY <3>1 DEF IsErased
    <3> QED
      BY <3>1, <3>2, <3>3
  <2> QED
    BY <1>1, <1>2, <2>1, <2>2
<1>4. \A i, j \in 1..Len(r) : i <= j => Origin(i, a, b) <= Origin(j, a, b)
  BY <1>1, <1>2 DEF Origin
<1>5. \A i, j \in 1..Len(r) : Origin(i, a, b) = Origin(j, a, b) => i = j
  BY <1>1, <1>2 DEF Origin
<1>6. ASSUME NEW x \in 1..Len(h), x < a \/ b <= x PROVE \E i \in 1..Len(r) : r[i] = h[x]
  <2>1. CASE x < a
    BY <1>1, <1>2, <2>1 DEF IsErased
  <2>2. CASE b <= x
    <3> DEFINE i == x - (b - a)
    <3>1. i \in a..Len(r) /\ i \in 1..Len(r) /\ i + (b - a) = x
      BY <1>1, <1>2, <2>2
    <3> HIDE DEF i
    <3>2. r[i] = h[i + (b - a)]
      BY <3>1 DEF IsErased
    <3> QED
      BY <3>1, <3>2
  <2> QED
    BY <1>6, <2>1, <2>2
<1> QED
  BY <1>2, <1>3, <1>4, <1>5, <1>6

(* Erasing a range leaves the order. *)
LEMMA MapErased ==
    ASSUME NEW h, IsMap(h), NEW a \in 1..(Len(h) + 1), NEW b \in a..(Len(h) + 1),
           NEW r, r \in Seq(Handler), IsErased(r, h, a, b)
    PROVE  IsMap(r)
<1>1. /\ \A i \in 1..Len(r) : Origin(i, a, b) \in 1..Len(h) /\ r[i] = h[Origin(i, a, b)]
      /\ \A i, j \in 1..Len(r) : i <= j => Origin(i, a, b) <= Origin(j, a, b)
      /\ \A i, j \in 1..Len(r) : Origin(i, a, b) = Origin(j, a, b) => i = j
  BY ErasedOrigin
<1>2. ASSUME NEW i \in 1..Len(r), NEW j \in 1..Len(r), i <= j PROVE r[i].count <= r[j].count
  BY <1>1, <1>2 DEF IsMap
<1>3. ASSUME NEW i \in 1..Len(r), NEW j \in 1..Len(r), r[i].node = r[j].node PROVE i = j
  BY <1>1, <1>3 DEF IsMap
<1> QED
  BY <1>2, <1>3 DEF IsMap

----------------------------------------------------------------------------
(* Long polls.  U is the set of places whose handlers are still to be       *)
(* called: of those in the range of a listener, the ones it has not         *)
(* reached.                                                                 *)
Polls(h, U, ms, rs) ==
    /\ \A i \in 1..Len(h) : i \in U => ms[h[i].miner].waiting
    /\ \A i, j \in 1..Len(h) : i \in U /\ j \in U /\ h[i].miner = h[j].miner => i = j
    /\ \A i \in 1..Len(h) : i \notin U => ~ms[h[i].miner].waiting \/ h[i].miner \in rs
    /\ \A m \in Miners : ms[m].waiting /\ m \notin rs => \E i \in 1..Len(h) : h[i].miner = m

(* dispatch() installs a handler for m, which had none to be called. *)
LEMMA InstallPolls ==
    ASSUME NEW h, IsMap(h), NEW k \in 1..(Len(h) + 1), NEW e \in Handler,
           NEW r, IsInserted(r, h, k, e), NEW U, NEW V, NEW ms, NEW ns, NEW rs, NEW ss,
           Polls(h, U, ms, rs),
           \A i \in 1..Len(h) : Moved(i, k) \in V <=> i \in U,
           ~ms[e.miner].waiting,
           \A m \in Miners : ns[m].waiting <=> ms[m].waiting \/ m = e.miner,
           \A m \in Miners : m # e.miner => (m \in ss <=> m \in rs),
           e.miner \in ss \/ 1..Len(r) \subseteq V
    PROVE  Polls(r, V, ns, ss)
<1> DEFINE From(i) == IF i < k THEN i ELSE i - 1
<1>1. Len(h) \in Nat /\ Len(r) = Len(h) + 1 /\ r[k] = e
  BY DEF IsMap, IsInserted
<1>2. \A i \in 1..Len(r) : i # k =>
         From(i) \in 1..Len(h) /\ r[i] = h[From(i)] /\ Moved(From(i), k) = i
  <2> TAKE i \in 1..Len(r)
  <2>1. CASE i < k
    BY <1>1, <2>1 DEF IsInserted, Moved
  <2>2. CASE k < i
    <3>1. i - 1 \in 1..Len(h) /\ k <= i - 1 /\ (i - 1) + 1 = i
      BY <1>1, <2>2
    <3>2. r[(i - 1) + 1] = h[i - 1]
      BY <3>1 DEF IsInserted
    <3> QED
      BY <1>1, <2>2, <3>1, <3>2 DEF Moved
  <2> QED
    BY <1>1, <2>1, <2>2
<1>3. \A i \in 1..Len(h) : Moved(i, k) \in 1..Len(r) /\ r[Moved(i, k)] = h[i]
  BY <1>1 DEF IsInserted, Moved
<1>4. k \in 1..Len(r)
  BY <1>1
<1>5. e.miner \in Miners /\ \A i \in 1..Len(h) : h[i].miner \in Miners
  BY ElementFacts, HandlerFacts
<1> HIDE DEF From, Moved
<1>6. \A i \in 1..Len(r) : i # k =>
         /\ From(i) \in 1..Len(h)
         /\ r[i] = h[From(i)]
         /\ i \in V <=> From(i) \in U
  BY <1>2
<1>7. ASSUME NEW i \in 1..Len(r), i \in V PROVE ns[r[i].miner].waiting
  <2>1. CASE i = k
    <3>1. ns[e.miner].waiting
      BY <1>5
    <3> QED
      BY <1>1, <2>1, <3>1
  <2>2. CASE i # k
    <3>1. From(i) \in 1..Len(h) /\ r[i] = h[From(i)] /\ From(i) \in U
      BY <1>6, <1>7, <2>2
    <3>2. ms[h[From(i)].miner].waiting
      BY <3>1 DEF Polls
    <3> QED
      BY <1>5, <3>1, <3>2
  <2> QED
    BY <2>1, <2>2
<1>8. \A i \in 1..Len(h) : i \in U => h[i].miner # e.miner
  BY DEF Polls
<1>9. ASSUME NEW i \in 1..Len(r), NEW j \in 1..Len(r), i \in V, j \in V,
             r[i].miner = r[j].miner
      PROVE  i = j
  <2>1. CASE i = k \/ j = k
    BY <1>1, <1>6, <1>8, <1>9, <2>1
  <2>2. CASE i # k /\ j # k
    <3>1. From(i) = From(j)
      BY <1>6, <1>9, <2>2 DEF Polls
    <3> QED
      BY <1>2, <2>2, <3>1
  <2> QED
    BY <2>1, <2>2
<1>10. ASSUME NEW i \in 1..Len(r), i \notin V
       PROVE  ~ns[r[i].miner].waiting \/ r[i].miner \in ss
  <2>1. e.miner \in ss
    BY <1>10
  <2>2. CASE r[i].miner = e.miner
    BY <2>1, <2>2
  <2>3. CASE r[i].miner # e.miner
    BY <1>1, <1>5, <1>6, <1>10, <2>3 DEF Polls
  <2> QED
    BY <2>2, <2>3
<1>11. ASSUME NEW m \in Miners, ns[m].waiting, m \notin ss
       PROVE  \E i \in 1..Len(r) : r[i].miner = m
  <2>1. CASE m = e.miner
    BY <1>1, <1>4, <2>1
  <2>2. CASE m # e.miner
    <3>1. PICK i \in 1..Len(h) : h[i].miner = m
      BY <1>11, <2>2 DEF Polls
    <3> QED
      BY <1>3, <3>1
  <2> QED
    BY <2>1, <2>2
<1> QED
  BY <1>7, <1>9, <1>10, <1>11 DEF Polls

(* The listener calls the handler at c: its miner does not wait any more. *)
LEMMA CallPolls ==
    ASSUME NEW h, IsMap(h), NEW c \in 1..Len(h), NEW U, NEW V, NEW ms, NEW ns, NEW rs,
           Polls(h, U, ms, rs), c \in U,
           \A i \in 1..Len(h) : i \in V <=> i \in U /\ i # c,
           \A m \in Miners : ns[m].waiting <=> ms[m].waiting /\ m # h[c].miner
    PROVE  Polls(h, V, ns, rs)
<1>1. \A i \in 1..Len(h) : h[i].miner \in Miners
  BY ElementFacts, HandlerFacts
<1>2. ASSUME NEW i \in 1..Len(h), i \in V PROVE ns[h[i].miner].waiting
  BY <1>1, <1>2 DEF Polls
<1>3. ASSUME NEW i \in 1..Len(h), i \notin V
      PROVE  ~ns[h[i].miner].waiting \/ h[i].miner \in rs
  BY <1>1, <1>3 DEF Polls
<1> QED
  BY <1>2, <1>3 DEF Polls

(* The range is erased: all of it was called, or skipped by a miner that    *)
(* raced.                                                                   *)
LEMMA ErasePolls ==
    ASSUME NEW h, IsMap(h), NEW a \in 1..(Len(h) + 1), NEW b \in a..(Len(h) + 1),
           NEW r, IsErased(r, h, a, b), NEW U, NEW V, NEW ms, NEW rs,
           Polls(h, U, ms, rs),
           \A i \in 1..Len(h) : i \in U <=> i < a \/ b <= i,
           1..Len(r) \subseteq V
    PROVE  Polls(r, V, ms, rs)
<1>1. /\ \A i \in 1..Len(r) :
            /\ Origin(i, a, b) \in 1..Len(h)
            /\ r[i] = h[Origin(i, a, b)]
            /\ Origin(i, a, b) \in U
      /\ \A i, j \in 1..Len(r) : Origin(i, a, b) = Origin(j, a, b) => i = j
      /\ \A x \in 1..Len(h) : x \in U => \E i \in 1..Len(r) : r[i] = h[x]
  <2>1. /\ \A i \in 1..Len(r) :
              /\ Origin(i, a, b) \in 1..Len(h)
              /\ r[i] = h[Origin(i, a, b)]
              /\ Origin(i, a, b) < a \/ b <= Origin(i, a, b)
        /\ \A i, j \in 1..Len(r) : Origin(i, a, b) = Origin(j, a, b) => i = j
        /\ \A x \in 1..Len(h) : x < a \/ b <= x => \E i \in 1..Len(r) : r[i] = h[x]
    BY ErasedOrigin
  <2> QED
    BY <2>1, Zenon
<1>2. ASSUME NEW m \in Miners, ms[m].waiting, m \notin rs
      PROVE  \E i \in 1..Len(r) : r[i].miner = m
  <2>1. PICK x \in 1..Len(h) : h[x].miner = m
    BY <1>2 DEF Polls
  <2>2. x \in U
    BY <1>2, <2>1 DEF Polls
  <2> QED
    BY <1>1, <2>1, <2>2
<1>3. ASSUME NEW i \in 1..Len(r) PROVE ms[r[i].miner].waiting
  <2>1. \A x \in 1..Len(h) : x \in U => ms[h[x].miner].waiting
    BY DEF Polls
  <2> QED
    BY <1>1, <2>1, Zenon
<1>4. ASSUME NEW i \in 1..Len(r), NEW j \in 1..Len(r), r[i].miner = r[j].miner PROVE i = j
  <2>1. Origin(i, a, b) = Origin(j, a, b)
    <3>1. \A x, y \in 1..Len(h) : x \in U /\ y \in U /\ h[x].miner = h[y].miner => x = y
      BY DEF Polls
    <3>2. /\ Origin(i, a, b) \in 1..Len(h) /\ Origin(j, a, b) \in 1..Len(h)
          /\ Origin(i, a, b) \in U /\ Origin(j, a, b) \in U
          /\ h[Origin(i, a, b)].miner = h[Origin(j, a, b)].miner
      BY <1>1, <1>4
    <3> QED
      BY <3>1, <3>2, Zenon
  <2> QED
    BY <1>1, <2>1
<1> QED
  BY <1>2, <1>3, <1>4 DEF Polls

----------------------------------------------------------------------------
(* The invariant *)

ServerOK ==
    /\ best \in Blocks
    /\ claims \in 0..MaxClaims
    /\ templates \subseteq Root
    /\ latest \in Root \cup {NoRoot}
    /\ recent \in BOOLEAN
    /\ miners \in [Miners -> Miner]
    /\ raced \subseteq Miners

(* The iterators of a listener that runs are valid and in order. *)
IsListener(h, l) ==
    /\ l \in [from : Nodes \cup {End}, to : Nodes \cup {End}, at : Nodes \cup {End},
              running : BOOLEAN]
    /\ l.running => /\ l.from \in Iterators(h)
                    /\ l.at \in Iterators(h)
                    /\ l.to \in Iterators(h)
                    /\ Pos(h, l.from) <= Pos(h, l.at)
                    /\ Pos(h, l.at) <= Pos(h, l.to)

(* The places whose handlers are still to be called. *)
Uncalled(h, l) ==
    {i \in 1..Len(h) : l.running => i < Pos(h, l.from) \/ Pos(h, l.at) <= i}

PInv ==
    /\ ServerOK
    /\ IsMap(handlers)
    /\ IsListener(handlers, listener)
    /\ Polls(handlers, Uncalled(handlers, listener), miners, raced)

(* A node is found where it is. *)
LEMMA AtIsPos == \A it : At(it) = Pos(handlers, it)
  BY DEF At, Pos

(* An iterator made from a place points to it. *)
LEMMA IteratorFacts ==
    ASSUME IsMap(handlers), NEW i \in 1..(Len(handlers) + 1)
    PROVE  /\ Iterator(i) \in Iterators(handlers)
           /\ Iterator(i) \in Nodes \cup {End}
           /\ Pos(handlers, Iterator(i)) = i
<1>1. Len(handlers) \in Nat
  BY DEF IsMap
<1>2. CASE i = Len(handlers) + 1
  BY <1>1, <1>2 DEF Iterator, Iterators, Pos
<1>3. CASE i \in 1..Len(handlers)
  <2>1. Iterator(i) = handlers[i].node
    BY <1>1, <1>3 DEF Iterator
  <2> QED
    BY <1>3, <2>1, PosOfNode
<1> QED
  BY <1>1, <1>2, <1>3

(* What is waited for does not depend on what else the miners have. *)
LEMMA SamePolls ==
    ASSUME NEW h, IsMap(h), NEW U, NEW V, NEW ms, NEW ns, NEW rs, Polls(h, U, ms, rs),
           \A i \in 1..Len(h) : i \in V <=> i \in U,
           \A m \in Miners : ns[m].waiting <=> ms[m].waiting
    PROVE  Polls(h, V, ns, rs)
<1>1. \A i \in 1..Len(h) : h[i].miner \in Miners
  BY ElementFacts, HandlerFacts
<1> QED
  BY <1>1 DEF Polls

(* operator() of GetBlockTemplate leaves the types. *)
LEMMA ServedFacts ==
    ASSUME ServerOK, NEW m \in Miners, Served(m), UNCHANGED <<best, claims, raced>>
    PROVE  /\ ServerOK'
           /\ \A n \in Miners : miners'[n].waiting <=> miners[n].waiting /\ n # m
<1>1. Template \in Root
  BY DEF Template, Root, ServerOK
<1>2. templates' \subseteq Root /\ latest' \in Root \cup {NoRoot}
  BY <1>1 DEF ServerOK, Served, GetWork, Kept
<1> DEFINE x == [root |-> latest', id |-> claims + Threshold, waiting |-> FALSE]
<1>3. miners' = [miners EXCEPT ![m] = x]
  BY DEF Served
<1>4. claims + Threshold \in 0..(MaxClaims + Threshold)
  BY PoolAssumption DEF ServerOK
<1>5. x \in Miner /\ ~x.waiting
  BY <1>2, <1>4 DEF Miner
<1> HIDE DEF x
<1>6. miners' \in [Miners -> Miner]
  BY <1>3, <1>5 DEF ServerOK
<1>7. \A n \in Miners : miners'[n] = IF n = m THEN x ELSE miners[n]
  BY <1>3 DEF ServerOK
<1>8. recent' = TRUE
  BY DEF Served
<1>9. ServerOK'
  BY <1>2, <1>6, <1>8 DEF ServerOK
<1> QED
  BY <1>5, <1>7, <1>9

(* dispatch() with a longpollid: whatever listener runs, its iterators stay *)
(* where they point to.                                                     *)
LEMMA InstallHandlerStep ==
    ASSUME PInv, NEW m \in Miners, InstallHandler(m)
    PROVE  PInv'
<1> DEFINE k == UpperBound(miners[m].id)
           e == [node |-> CHOOSE n \in FreeNodes : TRUE, miner |-> m, count |-> miners[m].id]
           h == handlers
           r == handlers'
           l == listener
<1>1. /\ ServerOK
      /\ IsMap(h)
      /\ IsListener(h, l)
      /\ Polls(h, Uncalled(h, l), miners, raced)
  BY DEF PInv
<1>2. Len(h) \in Nat
  BY <1>1 DEF IsMap
<1>3. /\ miners[m].id \in 0..(MaxClaims + Threshold)
      /\ miners[m].id \in Nat
  BY <1>1, PoolAssumption DEF ServerOK, Miner
<1>4. (CHOOSE n \in FreeNodes : TRUE) \in FreeNodes
  BY DEF InstallHandler
<1>5. /\ e \in Handler
      /\ e.miner = m
      /\ e.count = miners[m].id
      /\ \A i \in 1..Len(h) : h[i].node # e.node
  <2>1. /\ e.node \in Nodes
        /\ \A i \in 1..Len(h) : h[i].node # e.node
    BY <1>1, <1>4 DEF FreeNodes, IsMap
  <2> QED
    BY <1>3, <2>1 DEF Handler
<1>6. /\ k \in 1..(Len(h) + 1)
      /\ \A i \in 1..Len(h) : i < k <=> h[i].count <= e.count
  BY <1>1, <1>3, <1>5, UpperBoundFacts
<1>7. r = InsertAt(h, k, e)
  BY DEF InstallHandler
<1> HIDE DEF k, e
<1>8. IsMap(r) /\ IsInserted(r, h, k, e)
  BY <1>1, <1>5, <1>6, <1>7, MapInserted
<1>9. listener' = l
  BY DEF InstallHandler
<1>10. \A it \in Iterators(h) : it \in Iterators(r) /\ Pos(r, it) = Moved(Pos(h, it), k)
  BY <1>1, <1>6, <1>8, PosInserted
<1>11. \A it \in Iterators(h) : Pos(h, it) \in 1..(Len(h) + 1)
  BY <1>1, PosFacts
<1>12. IsListener(r, l)
  <2>1. ASSUME l.running
        PROVE  /\ l.from \in Iterators(r) /\ l.at \in Iterators(r) /\ l.to \in Iterators(r)
               /\ Pos(r, l.from) <= Pos(r, l.at)
               /\ Pos(r, l.at) <= Pos(r, l.to)
    <3>1. /\ l.from \in Iterators(h) /\ l.at \in Iterators(h) /\ l.to \in Iterators(h)
          /\ Pos(h, l.from) <= Pos(h, l.at)
          /\ Pos(h, l.at) <= Pos(h, l.to)
      BY <1>1, <2>1 DEF IsListener
    <3>2. \A x, y \in 1..(Len(h) + 1) : x <= y => Moved(x, k) <= Moved(y, k)
      BY <1>2, <1>6 DEF Moved
    <3> QED
      BY <1>10, <1>11, <3>1, <3>2
  <2> QED
    BY <1>1, <2>1 DEF IsListener
<1>13. \A i \in 1..Len(h) : Moved(i, k) \in Uncalled(r, l) <=> i \in Uncalled(h, l)
  <2> TAKE i \in 1..Len(h)
  <2>1. Moved(i, k) \in 1..Len(r)
    BY <1>2, <1>6, <1>8 DEF Moved, IsInserted
  <2>2. CASE ~l.running
    BY <2>1, <2>2 DEF Uncalled
  <2>3. CASE l.running
    <3>1. l.from \in Iterators(h) /\ l.at \in Iterators(h)
      BY <1>1, <2>3 DEF IsListener
    <3>2. \A x \in 1..(Len(h) + 1) : /\ i < x <=> Moved(i, k) < Moved(x, k)
                                     /\ x <= i <=> Moved(x, k) <= Moved(i, k)
      BY <1>2, <1>6 DEF Moved
    <3> QED
      BY <1>10, <1>11, <2>1, <2>3, <3>1, <3>2 DEF Uncalled
  <2> QED
    BY <2>2, <2>3
<1>14. /\ miners' = [miners EXCEPT ![m].waiting = TRUE]
       /\ ~miners[m].waiting
       /\ raced' = IF l.running THEN raced \cup {m} ELSE raced \ {m}
       /\ UNCHANGED <<best, claims, templates, latest, recent>>
  BY DEF InstallHandler
<1>15. /\ miners' \in [Miners -> Miner]
       /\ \A n \in Miners : miners'[n].waiting <=> miners[n].waiting \/ n = m
  BY <1>1, <1>14 DEF ServerOK, Miner
<1>16. /\ raced' \subseteq Miners
       /\ \A n \in Miners : n # m => (n \in raced' <=> n \in raced)
       /\ m \in raced' \/ ~l.running
  BY <1>1, <1>14 DEF ServerOK
<1>17. ServerOK'
  BY <1>1, <1>14, <1>15, <1>16 DEF ServerOK
<1>18. ~l.running => 1..Len(r) \subseteq Uncalled(r, l)
  BY DEF Uncalled
<1>19. Polls(r, Uncalled(r, l), miners', raced')
  <2> HIDE DEF h, r, l
  <2>1. ~miners[e.miner].waiting
    BY <1>5, <1>14
  <2>2. \A n \in Miners : miners'[n].waiting <=> miners[n].waiting \/ n = e.miner
    BY <1>5, <1>15
  <2>3. /\ \A n \in Miners : n # e.miner => (n \in raced' <=> n \in raced)
        /\ e.miner \in raced' \/ 1..Len(r) \subseteq Uncalled(r, l)
    BY <1>5, <1>16, <1>18
  <2> QED
    BY <1>1, <1>5, <1>6, <1>8, <1>13, <2>1, <2>2, <2>3, InstallPolls
<1> QED
  BY <1>8, <1>9, <1>12, <1>17, <1>19 DEF PInv

(* dispatch() without a longpollid *)
LEMMA FirstCallStep ==
    ASSUME PInv, NEW m \in Miners, FirstCall(m)
    PROVE  PInv'
<1>1. /\ Served(m) /\ ~miners[m].waiting
      /\ UNCHANGED <<best, claims, handlers, listener, raced>>
  BY DEF FirstCall
<1>2. /\ ServerOK'
      /\ \A n \in Miners : miners'[n].waiting <=> miners[n].waiting
  BY <1>1, ServedFacts DEF PInv
<1>3. Polls(handlers, Uncalled(handlers, listener), miners', raced)
  BY <1>2, SamePolls DEF PInv
<1> QED
  BY <1>1, <1>2, <1>3 DEF PInv

(* A listener starts: it has called no handler. *)
LEMMA StartStep ==
    ASSUME PInv, ServerOK', ~listener.running, UNCHANGED <<handlers, miners, raced>>,
           NEW i \in 1..(Len(handlers) + 1),
           listener' = [from |-> Iterator(1), to |-> Iterator(i), at |-> Iterator(1),
                        running |-> TRUE]
    PROVE  PInv'
<1> DEFINE h == handlers
           l == listener'
<1>1. IsMap(h) /\ Polls(h, Uncalled(h, listener), miners, raced) /\ Len(h) \in Nat
  BY DEF PInv, IsMap
<1>2. /\ Iterator(1) \in Iterators(h) /\ Iterator(1) \in Nodes \cup {End}
      /\ Pos(h, Iterator(1)) = 1
      /\ Iterator(i) \in Iterators(h) /\ Iterator(i) \in Nodes \cup {End}
      /\ Pos(h, Iterator(i)) = i
  BY <1>1, IteratorFacts
<1>3. l.from = Iterator(1) /\ l.at = Iterator(1) /\ l.to = Iterator(i) /\ l.running
  OBVIOUS
<1>4. IsListener(h, l)
  BY <1>2, <1>3 DEF IsListener
<1>5. \A x \in 1..Len(h) : x \in Uncalled(h, l) <=> x \in Uncalled(h, listener)
  BY <1>1, <1>2, <1>3 DEF Uncalled
<1>6. Polls(h, Uncalled(h, l), miners, raced)
  BY <1>1, <1>5, SamePolls
<1> QED
  BY <1>1, <1>4, <1>6 DEF PInv

(* BlockListener *)
LEMMA NewBestStep ==
    ASSUME PInv, NEW b \in Blocks, NEW count \in 0..MaxClaims, NewBest(b, count)
    PROVE  PInv'
<1>1. Len(handlers) \in Nat
  BY DEF PInv, IsMap
<1>2. Iterator(Len(handlers) + 1) = End
  BY <1>1 DEF Iterator
<1>3. listener' = [from |-> Iterator(1), to |-> Iterator(Len(handlers) + 1),
                   at |-> Iterator(1), running |-> TRUE]
  BY <1>2 DEF NewBest, AllHandlers
<1>4. ServerOK' /\ ~listener.running /\ UNCHANGED <<handlers, miners, raced>>
  BY DEF NewBest, PInv, ServerOK
<1> QED
  BY <1>1, <1>3, <1>4, StartStep

(* TransactionListener *)
LEMMA NewTransactionStep ==
    ASSUME PInv, NewTransaction
    PROVE  PInv'
<1>1. claims + 1 \in 0..MaxClaims /\ claims + 1 \in Nat
  BY PoolAssumption DEF NewTransaction, PInv, ServerOK
<1>2. UpperBound(claims + 1) \in 1..(Len(handlers) + 1)
  BY <1>1, UpperBoundFacts DEF PInv
<1>3. listener' = [from |-> Iterator(1), to |-> Iterator(UpperBound(claims + 1)),
                   at |-> Iterator(1), running |-> TRUE]
  BY DEF NewTransaction, CurrentHandlers
<1>4. ServerOK' /\ ~listener.running /\ UNCHANGED <<handlers, miners, raced>>
  BY <1>1 DEF NewTransaction, PInv, ServerOK
<1> QED
  BY <1>2, <1>3, <1>4, StartStep

(* A handler of the range is called. *)
LEMMA CallHandlerStep ==
    ASSUME PInv, CallHandler
    PROVE  PInv'
<1> DEFINE h == handlers
           l == listener
           c == Pos(h, l.at)
           m == h[c].miner
<1>1. /\ ServerOK
      /\ IsMap(h)
      /\ IsListener(h, l)
      /\ Polls(h, Uncalled(h, l), miners, raced)
      /\ Len(h) \in Nat
  BY DEF PInv, IsMap
<1>2. l.running /\ l.at # l.to
  BY DEF CallHandler
<1>3. /\ l.from \in Iterators(h) /\ l.at \in Iterators(h) /\ l.to \in Iterators(h)
      /\ Pos(h, l.from) <= c
      /\ c <= Pos(h, l.to)
  BY <1>1, <1>2 DEF IsListener
<1>4. /\ Pos(h, l.from) \in 1..(Len(h) + 1)
      /\ c \in 1..(Len(h) + 1)
      /\ Pos(h, l.to) \in 1..(Len(h) + 1)
  BY <1>1, <1>3, PosFacts
<1>5. c # Pos(h, l.to)
  <2> SUFFICES ASSUME c = Pos(h, l.to) PROVE FALSE
    OBVIOUS
  <2>1. l.at = End <=> l.to = End
    BY <1>1, <1>3, PosFacts
  <2>2. l.at # End => h[c].node = l.at
    BY <1>1, <1>3, PosFacts
  <2>3. l.to # End => h[c].node = l.to
    BY <1>1, <1>3, PosFacts
  <2> QED
    BY <1>2, <2>1, <2>2, <2>3
<1>6. c \in 1..Len(h) /\ c + 1 \in 1..(Len(h) + 1) /\ c + 1 <= Pos(h, l.to)
  BY <1>1, <1>3, <1>4, <1>5
<1>7. m \in Miners
  BY <1>1, <1>6, ElementFacts, HandlerFacts
<1>8. /\ Served(m)
      /\ listener' = [l EXCEPT !.at = Iterator(c + 1)]
      /\ UNCHANGED <<best, claims, handlers, raced>>
  BY AtIsPos DEF CallHandler
<1> HIDE DEF m
<1>9. /\ ServerOK'
      /\ \A n \in Miners : miners'[n].waiting <=> miners[n].waiting /\ n # m
  BY <1>1, <1>7, <1>8, ServedFacts
<1> HIDE DEF c
<1>10. /\ Iterator(c + 1) \in Iterators(h)
       /\ Iterator(c + 1) \in Nodes \cup {End}
       /\ Pos(h, Iterator(c + 1)) = c + 1
  BY <1>1, <1>6, IteratorFacts
<1>11. /\ listener' \in [from : Nodes \cup {End}, to : Nodes \cup {End},
                         at : Nodes \cup {End}, running : BOOLEAN]
       /\ listener'.from = l.from /\ listener'.to = l.to /\ listener'.running
       /\ listener'.at = Iterator(c + 1)
  BY <1>1, <1>2, <1>8, <1>10 DEF IsListener
<1>12. Pos(h, l.from) <= c + 1
  BY <1>3, <1>4, <1>6 DEF c
<1>13. IsListener(h, listener')
  BY <1>3, <1>6, <1>10, <1>11, <1>12 DEF IsListener
<1>14. c \in Uncalled(h, l)
  BY <1>6 DEF Uncalled, c
<1>15. \A i \in 1..Len(h) : i \in Uncalled(h, listener') <=> i \in Uncalled(h, l) /\ i # c
  <2>1. \A i \in 1..Len(h) : i \in Uncalled(h, l) <=> i < Pos(h, l.from) \/ c <= i
    BY <1>2 DEF Uncalled, c
  <2>2. \A i \in 1..Len(h) : i \in Uncalled(h, listener') <=>
            i < Pos(h, l.from) \/ c + 1 <= i
    BY <1>10, <1>11 DEF Uncalled
  <2>3. Pos(h, l.from) \in Int /\ Pos(h, l.from) <= c /\ c \in Int
    BY <1>3, <1>4, <1>6 DEF c
  <2> QED
    BY <2>1, <2>2, <2>3
<1>16. Polls(h, Uncalled(h, listener'), miners', raced)
  <2>1. \A n \in Miners : miners'[n].waiting <=> miners[n].waiting /\ n # h[c].miner
    BY <1>9 DEF m
  <2> HIDE DEF h, l
  <2> QED
    BY <1>1, <1>6, <1>14, <1>15, <2>1, CallPolls
<1> QED
  BY <1>1, <1>8, <1>9, <1>13, <1>16 DEF PInv

(* The range is erased, and the listener ends. *)
LEMMA EraseHandlersStep ==
    ASSUME PInv, EraseHandlers
    PROVE  PInv'
<1> DEFINE h == handlers
           l == listener
           a == Pos(h, l.from)
           b == Pos(h, l.to)
           r == handlers'
<1>1. /\ ServerOK
      /\ IsMap(h)
      /\ IsListener(h, l)
      /\ Polls(h, Uncalled(h, l), miners, raced)
      /\ Len(h) \in Nat
  BY DEF PInv, IsMap
<1>2. /\ l.running /\ l.at = l.to
      /\ listener' = Idle
      /\ UNCHANGED <<best, claims, templates, latest, recent, miners, raced>>
  BY DEF EraseHandlers
<1>3. /\ l.from \in Iterators(h) /\ l.to \in Iterators(h)
      /\ a <= b
  BY <1>1, <1>2 DEF IsListener
<1>4. a \in 1..(Len(h) + 1) /\ b \in 1..(Len(h) + 1)
  BY <1>1, <1>3, PosFacts
<1>5. b \in a..(Len(h) + 1)
  BY <1>1, <1>3, <1>4
<1>6. r = SubSeq(h, 1, a - 1) \o SubSeq(h, b, Len(h))
  BY AtIsPos DEF EraseHandlers, Erased
<1>7. \A i \in 1..Len(h) : i \in Uncalled(h, l) <=> i < a \/ b <= i
  BY <1>2 DEF Uncalled
<1> HIDE DEF a, b
<1>8. r \in Seq(Handler) /\ IsErased(r, h, a, b)
  BY <1>1, <1>4, <1>5, <1>6, EraseFacts DEF IsMap
<1>9. IsMap(r)
  BY <1>1, <1>4, <1>5, <1>8, MapErased
<1>10. ~Idle.running /\ IsListener(r, Idle)
  BY DEF Idle, IsListener
<1>11. 1..Len(r) \subseteq Uncalled(r, Idle)
  BY <1>10 DEF Uncalled
<1>12. Polls(r, Uncalled(r, Idle), miners, raced)
  <2> HIDE DEF h, r, l
  <2> QED
    BY <1>1, <1>4, <1>5, <1>7, <1>8, <1>11, ErasePolls
<1>13. ServerOK'
  BY <1>1, <1>2 DEF ServerOK
<1> QED
  BY <1>2, <1>9, <1>10, <1>12, <1>13 DEF PInv

(* The constructors establish the invariant. *)
LEMMA InitPInv == Init => PInv
<1> SUFFICES ASSUME Init PROVE PInv
  OBVIOUS
<1>1. ServerOK
  <2>1. 0 \in 0..MaxClaims /\ 0 \in 0..(MaxClaims + Threshold)
    BY PoolAssumption
  <2>2. [root |-> NoRoot, id |-> 0, waiting |-> FALSE] \in Miner
    BY <2>1 DEF Miner
  <2> QED
    BY <2>1, <2>2, PoolAssumption DEF Init, ServerOK
<1>2. Len(handlers) = 0 /\ IsMap(handlers)
  BY DEF Init, IsMap
<1>3. ~listener.running /\ IsListener(handlers, listener)
  BY DEF Init, Idle, IsListener
<1>4. \A m \in Miners : ~miners[m].waiting
  BY DEF Init
<1>5. Polls(handlers, Uncalled(handlers, listener), miners, raced)
  BY <1>2, <1>4 DEF Polls
<1> QED
  BY <1>1, <1>2, <1>3, <1>5 DEF PInv

(* Every step of the two threads keeps the invariant. *)
LEMMA NextPInv == PInv /\ [Next]_vars => PInv'
<1> SUFFICES ASSUME PInv, [Next]_vars PROVE PInv'
  OBVIOUS
<1>1. CASE TimePasses
  BY <1>1 DEF TimePasses, PInv, ServerOK
<1>2. CASE UNCHANGED vars
  BY <1>2 DEF vars, PInv, ServerOK
<1>3. ASSUME NEW m \in Miners, NEW b \in Blocks, SubmitBlock(m, b) PROVE PInv'
  <2>1. 0 \in 0..MaxClaims
    BY PoolAssumption
  <2> QED
    BY <1>3, <2>1, NewBestStep DEF SubmitBlock
<1>4. ASSUME NEW b \in Blocks, NEW count \in 0..MaxClaims, NewBlock(b, count) PROVE PInv'
  BY <1>4, NewBestStep DEF NewBlock
<1> QED
  BY <1>1, <1>2, <1>3, <1>4, InstallHandlerStep, FirstCallStep, NewTransactionStep,
     CallHandlerStep, EraseHandlersStep DEF Next

(* The invariant says what the run checks. *)
LEMMA PInvSound == PInv => HandlersAreSound
<1> SUFFICES ASSUME PInv PROVE HandlersAreSound
  OBVIOUS
<1>1. Len(handlers) \in Nat /\ DOMAIN handlers = 1..Len(handlers)
  BY DEF PInv, IsMap
<1>2. \A i \in 2..Len(handlers) : handlers[i - 1].count <= handlers[i].count
  BY <1>1 DEF PInv, IsMap
<1>3. TypeOK
  BY <1>2 DEF PInv, ServerOK, IsMap, Handler, IsListener, TypeOK
<1>4. ~listener.running => \A i \in 1..Len(handlers) : i \in Uncalled(handlers, listener)
  BY DEF Uncalled
<1>5. WaitersAreInstalled
  BY <1>1, <1>4 DEF PInv, Polls, WaitersAreInstalled
<1> QED
  BY <1>3, <1>5 DEF HandlersAreSound

(* A long poll that waits has its handler installed, unless it was          *)
(* installed while a listener ran, and one that was answered has none once  *)
(* no listener runs: the erasing takes the handlers that were called and    *)
(* no others (GetBlockTemplate.cpp).                                        *)
THEOREM HandlersSound == Spec => []HandlersAreSound
<1>1. Init => PInv
  BY InitPInv
<1>2. PInv /\ [Next]_vars => PInv'
  BY NextPInv
<1>3. PInv => HandlersAreSound
  BY PInvSound
<1> QED
  BY <1>1, <1>2, <1>3, PTL DEF Spec

----------------------------------------------------------------------------
(* The loops of Claims and TransactionFilter, which are recursive functions *)
(* over the numbers up to a bound.                                          *)

(* What holds at first and is kept by every turn holds after every turn. *)
LEMMA UpTo ==
    ASSUME NEW N \in Nat, NEW T, 0 \in T, \A n \in 1..N : n - 1 \in T => n \in T
    PROVE  \A n \in 0..N : n \in T
<1> DEFINE U == {n \in 0..N : n \notin T}
<1>1. SUFFICES ASSUME U # {} PROVE FALSE
  OBVIOUS
<1>2. U \subseteq Nat
  OBVIOUS
<1> HIDE DEF U
<1>3. PICK n \in U : \A k \in U : n <= k
  BY <1>1, <1>2, LeastElement
<1>4. n \in 1..N /\ n \notin T
  BY <1>3 DEF U
<1>5. n - 1 \notin U
  BY <1>3, <1>4, <1>2
<1> QED
  BY <1>4, <1>5 DEF U

(* f has the states of a loop of N turns: a at first, then what G makes of  *)
(* the state before and the number of the turn.                             *)
IsLoop(f, N, X, a, G) ==
    /\ f \in [0..N -> X]
    /\ f[0] = a
    /\ \A n \in 1..N : f[n] = G[<<f[n - 1], n>>]

(* A loop whose turns stay in a set of states has its states. *)
LEMMA LoopExists ==
    ASSUME NEW N \in Nat, NEW X, NEW a \in X, NEW G \in [X \X (1..N) -> X]
    PROVE  \E f : IsLoop(f, N, X, a, G)
<1> DEFINE T == {n \in 0..N : \E f : IsLoop(f, n, X, a, G)}
<1>1. 0 \in T
  <2> DEFINE f == [i \in 0..0 |-> a]
  <2>1. f \in [0..0 -> X] /\ f[0] = a
    OBVIOUS
  <2>2. \A n \in 1..0 : FALSE
    OBVIOUS
  <2> HIDE DEF f
  <2>3. IsLoop(f, 0, X, a, G)
    BY <2>1, <2>2 DEF IsLoop
  <2> QED
    BY <2>3
<1>2. ASSUME NEW n \in 1..N, n - 1 \in T PROVE n \in T
  <2>1. PICK f : IsLoop(f, n - 1, X, a, G)
    BY <1>2
  <2> DEFINE x == G[<<f[n - 1], n>>]
             g == [i \in 0..n |-> IF i = n THEN x ELSE f[i]]
  <2>2. /\ f \in [0..(n - 1) -> X]
        /\ f[0] = a
        /\ \A i \in 1..(n - 1) : f[i] = G[<<f[i - 1], i>>]
    BY <2>1 DEF IsLoop
  <2>3. n - 1 \in 0..(n - 1)
    OBVIOUS
  <2>4. f[n - 1] \in X
    BY <2>2, <2>3
  <2>5. x \in X
    BY <2>4
  <2>6. g[n] = x /\ \A i \in 0..(n - 1) : g[i] = f[i]
    OBVIOUS
  <2>7. g \in [0..n -> X]
    BY <2>2, <2>5
  <2> HIDE DEF g
  <2>8. g[0] = a
    BY <2>2, <2>6
  <2>9. ASSUME NEW i \in 1..n PROVE g[i] = G[<<g[i - 1], i>>]
    <3>1. i - 1 \in 0..(n - 1)
      OBVIOUS
    <3>2. g[i - 1] = f[i - 1]
      BY <2>6, <3>1
    <3>3. CASE i = n
      BY <2>6, <3>2, <3>3
    <3>4. CASE i # n
      <4>1. i \in 1..(n - 1) /\ i \in 0..(n - 1)
        BY <3>4
      <4>2. f[i] = G[<<f[i - 1], i>>]
        BY <2>2, <4>1
      <4> QED
        BY <2>6, <3>2, <4>1, <4>2
    <3> QED
      BY <3>3, <3>4
  <2>10. IsLoop(g, n, X, a, G)
    BY <2>7, <2>8, <2>9 DEF IsLoop
  <2>11. \E h : IsLoop(h, n, X, a, G)
    BY <2>10
  <2> QED
    BY <2>11
<1> HIDE DEF T
<1>3. \A n \in 0..N : n \in T
  BY <1>1, <1>2, UpTo
<1>4. N \in T
  BY <1>3
<1> QED
  BY <1>4 DEF T

(* The sum of integers is an integer. *)
LEMMA TotalType ==
    ASSUME NEW s \in Seq(Int)
    PROVE  Total(s) \in Int
<1> DEFINE N == Len(s)
           a == 0
           G == [z \in Int \X (1..N) |-> z[1] + s[z[2]]]
           F == CHOOSE f : f = [n \in 0..N |-> IF n = 0 THEN a ELSE f[n - 1] + s[n]]
<1>1. N \in Nat /\ a \in Int /\ \A n \in 1..N : s[n] \in Int
  OBVIOUS
<1>2. Total(s) = F[N]
  BY DEF Total
<1>3. \A x \in Int, n \in 1..N : G[<<x, n>>] = x + s[n]
  OBVIOUS
<1>4. G \in [Int \X (1..N) -> Int]
  BY <1>1
<1>5. \E f : f = [n \in 0..N |-> IF n = 0 THEN a ELSE f[n - 1] + s[n]]
  <2> HIDE DEF N, G, a, F
  <2>1. PICK f : IsLoop(f, N, Int, a, G)
    BY <1>1, <1>4, LoopExists
  <2>2. f \in [0..N -> Int] /\ f[0] = a
    BY <2>1 DEF IsLoop
  <2>3. ASSUME NEW n \in 0..N, n # 0 PROVE f[n] = f[n - 1] + s[n]
    <3>1. n \in 1..N /\ n - 1 \in 0..N
      BY <1>1, <2>3
    <3>2. f[n - 1] \in Int
      BY <2>2, <3>1
    <3>3. f[n] = G[<<f[n - 1], n>>]
      BY <2>1, <3>1 DEF IsLoop
    <3> QED
      BY <1>3, <3>1, <3>2, <3>3
  <2>4. f = [n \in 0..N |-> IF n = 0 THEN a ELSE f[n - 1] + s[n]]
    BY <2>2, <2>3
  <2> QED
    BY <2>4
<1>6. F = [n \in 0..N |-> IF n = 0 THEN a ELSE F[n - 1] + s[n]]
  BY <1>5
<1> DEFINE T == {n \in 0..N : F[n] \in Int}
<1> HIDE DEF F, N, G
<1>7. 0 \in T
  BY <1>1, <1>6
<1>8. ASSUME NEW n \in 1..N, n - 1 \in T PROVE n \in T
  BY <1>1, <1>6, <1>8
<1> HIDE DEF T
<1>9. \A n \in 0..N : n \in T
  BY <1>1, <1>7, <1>8, UpTo
<1> QED
  BY <1>1, <1>2, <1>9 DEF T

----------------------------------------------------------------------------
(* Among() *)

(* f takes the elements of s that are in S, one after the other. *)
Filters(f, s, S) ==
    /\ f[0] = << >>
    /\ \A n \in 1..Len(s) : f[n] = IF s[n] \in S THEN Append(f[n - 1], s[n]) ELSE f[n - 1]

(* Among() is where a function that filters leads. *)
LEMMA AmongLoop ==
    ASSUME NEW V, NEW s \in Seq(V), NEW S
    PROVE  \E f \in [0..Len(s) -> Seq(V)] : Filters(f, s, S) /\ Among(s, S) = f[Len(s)]
<1> DEFINE N == Len(s)
           a == << >>
           Step(x, n) == IF s[n] \in S THEN Append(x, s[n]) ELSE x
           G == [z \in Seq(V) \X (1..N) |-> Step(z[1], z[2])]
           F == CHOOSE f : f = [n \in 0..N |-> IF n = 0 THEN a ELSE Step(f[n - 1], n)]
<1>1. N \in Nat /\ a \in Seq(V) /\ \A n \in 1..N : s[n] \in V
  OBVIOUS
<1>2. Among(s, S) = F[N]
  BY DEF Among
<1>3. \A x \in Seq(V), n \in 1..N : G[<<x, n>>] = Step(x, n) /\ Step(x, n) \in Seq(V)
  BY <1>1
<1>4. G \in [Seq(V) \X (1..N) -> Seq(V)]
  BY <1>1
<1>5. \E f : f = [n \in 0..N |-> IF n = 0 THEN a ELSE Step(f[n - 1], n)]
  <2> HIDE DEF N, G, a, F, Step
  <2>1. PICK f : IsLoop(f, N, Seq(V), a, G)
    BY <1>1, <1>4, LoopExists
  <2>2. f \in [0..N -> Seq(V)] /\ f[0] = a
    BY <2>1 DEF IsLoop
  <2>3. ASSUME NEW n \in 0..N, n # 0 PROVE f[n] = Step(f[n - 1], n)
    <3>1. n \in 1..N /\ n - 1 \in 0..N
      BY <1>1, <2>3
    <3>2. f[n - 1] \in Seq(V)
      BY <2>2, <3>1
    <3>3. f[n] = G[<<f[n - 1], n>>]
      BY <2>1, <3>1 DEF IsLoop
    <3> QED
      BY <1>3, <3>1, <3>2, <3>3
  <2>4. f = [n \in 0..N |-> IF n = 0 THEN a ELSE Step(f[n - 1], n)]
    BY <2>2, <2>3
  <2> QED
    BY <2>4
<1>6. F = [n \in 0..N |-> IF n = 0 THEN a ELSE Step(F[n - 1], n)]
  BY <1>5
<1> DEFINE T == {n \in 0..N : F[n] \in Seq(V)}
<1> HIDE DEF F, N, G, Step, a
<1>7. F[0] = a /\ \A n \in 1..N : F[n] = Step(F[n - 1], n)
  BY <1>1, <1>6
<1>8. 0 \in T
  BY <1>1, <1>7
<1>9. ASSUME NEW n \in 1..N, n - 1 \in T PROVE n \in T
  <2>1. F[n - 1] \in Seq(V)
    BY <1>9
  <2>2. F[n] = Step(F[n - 1], n)
    BY <1>7
  <2>3. Step(F[n - 1], n) \in Seq(V)
    BY <1>3, <2>1
  <2> QED
    BY <1>1, <2>2, <2>3
<1>10. \A n \in 0..N : F[n] \in Seq(V)
  <2> HIDE DEF T
  <2>1. \A n \in 0..N : n \in T
    BY <1>1, <1>8, <1>9, UpTo
  <2> QED
    BY <2>1 DEF T
<1>11. F \in [0..N -> Seq(V)]
  BY <1>6, <1>10
<1>12. Filters(F, s, S)
  BY <1>7 DEF Filters, N, Step, a
<1> QED
  BY <1>2, <1>11, <1>12 DEF N

(* Any function that filters leads there. *)
LEMMA AmongUnique ==
    ASSUME NEW V, NEW s \in Seq(V), NEW S, NEW g, Filters(g, s, S)
    PROVE  Among(s, S) = g[Len(s)]
<1>1. PICK f \in [0..Len(s) -> Seq(V)] : Filters(f, s, S) /\ Among(s, S) = f[Len(s)]
  BY AmongLoop
<1> DEFINE T == {n \in 0..Len(s) : f[n] = g[n]}
<1>2. 0 \in T
  BY <1>1 DEF Filters
<1>3. ASSUME NEW n \in 1..Len(s), n - 1 \in T PROVE n \in T
  BY <1>1, <1>3 DEF Filters
<1> HIDE DEF T
<1>4. \A n \in 0..Len(s) : n \in T
  <2>1. Len(s) \in Nat
    OBVIOUS
  <2> QED
    BY <1>2, <1>3, <2>1, UpTo
<1> QED
  BY <1>1, <1>4 DEF T

LEMMA AppendElements ==
    ASSUME NEW V, NEW s \in Seq(V), NEW e \in V
    PROVE  /\ Append(s, e) \in Seq(V) /\ Len(Append(s, e)) = Len(s) + 1
           /\ Append(s, e)[Len(s) + 1] = e /\ \A i \in 1..Len(s) : Append(s, e)[i] = s[i]
           /\ Elements(Append(s, e)) = Elements(s) \cup {e}
<1> DEFINE w == Append(s, e)
           n == Len(s)
<1>1. n \in Nat /\ DOMAIN s = 1..n
  OBVIOUS
<1>2. w \in Seq(V) /\ Len(w) = n + 1 /\ w[n + 1] = e /\ \A i \in 1..n : w[i] = s[i]
  OBVIOUS
<1> HIDE DEF w, n
<1>3. DOMAIN w = 1..(n + 1)
  BY <1>2
<1>4. 1..(n + 1) = 1..n \cup {n + 1}
  BY <1>1
<1>5. Elements(w) = Elements(s) \cup {e}
  BY <1>1, <1>2, <1>3, <1>4 DEF Elements
<1> QED
  BY <1>2, <1>5 DEF w, n

(* What is taken is a sequence of the elements that are in the set. *)
LEMMA AmongElements ==
    ASSUME NEW V, NEW s \in Seq(V), NEW S
    PROVE  Among(s, S) \in Seq(V) /\ Elements(Among(s, S)) = Elements(s) \cap S
<1>1. PICK f \in [0..Len(s) -> Seq(V)] : Filters(f, s, S) /\ Among(s, S) = f[Len(s)]
  BY AmongLoop
<1> DEFINE Upto(n) == {s[i] : i \in 1..n} \cap S
           T == {n \in 0..Len(s) : Elements(f[n]) = Upto(n)}
<1>2. 0 \in T
  BY <1>1 DEF Filters, Elements
<1>3. ASSUME NEW n \in 1..Len(s), n - 1 \in T PROVE n \in T
  <2>1. f[n - 1] \in Seq(V) /\ s[n] \in V
    OBVIOUS
  <2>2. Elements(Append(f[n - 1], s[n])) = Elements(f[n - 1]) \cup {s[n]}
    BY <2>1, AppendElements
  <2>3. 1..n = 1..(n - 1) \cup {n}
    OBVIOUS
  <2>4. Upto(n) = Upto(n - 1) \cup ({s[n]} \cap S)
    BY <2>3
  <2>5. f[n] = IF s[n] \in S THEN Append(f[n - 1], s[n]) ELSE f[n - 1]
    BY <1>1 DEF Filters
  <2>6. Elements(f[n - 1]) = Upto(n - 1)
    BY <1>3
  <2> HIDE DEF Upto
  <2>7. Elements(f[n]) = Upto(n)
    <3>1. CASE s[n] \in S
      BY <2>2, <2>4, <2>5, <2>6, <3>1
    <3>2. CASE s[n] \notin S
      BY <2>4, <2>5, <2>6, <3>2
    <3> QED
      BY <3>1, <3>2
  <2> QED
    BY <2>7
<1>4. \A n \in 0..Len(s) : n \in T
  <2> HIDE DEF T
  <2>1. Len(s) \in Nat
    OBVIOUS
  <2> QED
    BY <1>2, <1>3, <2>1, UpTo
<1>5. Elements(f[Len(s)]) = Upto(Len(s))
  <2>1. Len(s) \in 0..Len(s)
    OBVIOUS
  <2> QED
    BY <1>4, <2>1
<1>6. Elements(s) = {s[i] : i \in 1..Len(s)}
  BY DEF Elements
<1>7. f[Len(s)] \in Seq(V)
  OBVIOUS
<1> QED
  BY <1>1, <1>5, <1>6, <1>7

(* Only the elements of the sequence matter. *)
LEMMA AmongSame ==
    ASSUME NEW V, NEW s \in Seq(V), NEW S, NEW R,
           \A e \in Elements(s) : e \in S <=> e \in R
    PROVE  Among(s, S) = Among(s, R)
<1>1. PICK f \in [0..Len(s) -> Seq(V)] : Filters(f, s, S) /\ Among(s, S) = f[Len(s)]
  BY AmongLoop
<1>2. \A n \in 1..Len(s) : s[n] \in S <=> s[n] \in R
  BY DEF Elements
<1>3. Filters(f, s, R)
  BY <1>1, <1>2 DEF Filters
<1> QED
  BY <1>1, <1>3, AmongUnique

LEMMA AmongAll ==
    ASSUME NEW V, NEW s \in Seq(V), NEW S, Elements(s) \subseteq S
    PROVE  Among(s, S) = s
<1> DEFINE f == [n \in 0..Len(s) |-> SubSeq(s, 1, n)]
<1>1. f[0] = << >>
  OBVIOUS
<1>2. ASSUME NEW n \in 1..Len(s) PROVE f[n] = Append(f[n - 1], s[n])
  <2>1. n - 1 \in 0..Len(s)
    OBVIOUS
  <2>2. f[n] = SubSeq(s, 1, n) /\ f[n - 1] = SubSeq(s, 1, n - 1)
    BY <2>1
  <2>3. SubSeq(s, 1, n) = Append(SubSeq(s, 1, n - 1), s[n])
    OBVIOUS
  <2> HIDE DEF f
  <2> QED
    BY <2>2, <2>3
<1>3. \A n \in 1..Len(s) : s[n] \in S
  BY DEF Elements
<1>4. f[Len(s)] = s
  OBVIOUS
<1> HIDE DEF f
<1>5. Filters(f, s, S)
  BY <1>1, <1>2, <1>3 DEF Filters
<1> QED
  BY <1>4, <1>5, AmongUnique

LEMMA AmongNone ==
    ASSUME NEW V, NEW s \in Seq(V), NEW S, Elements(s) \cap S = {}
    PROVE  Among(s, S) = << >>
<1> DEFINE f == [n \in 0..Len(s) |-> << >>]
<1>1. f[0] = << >> /\ f[Len(s)] = << >> /\ \A n \in 1..Len(s) : f[n] = f[n - 1]
  OBVIOUS
<1>2. \A n \in 1..Len(s) : s[n] \notin S
  BY DEF Elements
<1> HIDE DEF f
<1>3. Filters(f, s, S)
  BY <1>1, <1>2 DEF Filters
<1> QED
  BY <1>1, <1>3, AmongUnique

LEMMA AmongAppend ==
    ASSUME NEW V, NEW s \in Seq(V), NEW e \in V, NEW S
    PROVE  Among(Append(s, e), S) = IF e \in S THEN Append(Among(s, S), e) ELSE Among(s, S)
<1> DEFINE t == Append(s, e)
<1>1. /\ t \in Seq(V) /\ Len(t) = Len(s) + 1 /\ Len(s) \in Nat
      /\ t[Len(s) + 1] = e /\ \A i \in 1..Len(s) : t[i] = s[i]
  OBVIOUS
<1> HIDE DEF t
<1>2. PICK f \in [0..Len(t) -> Seq(V)] : Filters(f, t, S) /\ Among(t, S) = f[Len(t)]
  BY <1>1, AmongLoop
<1>3. Filters(f, s, S)
  BY <1>1, <1>2 DEF Filters
<1>4. Among(s, S) = f[Len(s)]
  BY <1>3, AmongUnique
<1>5. Len(s) + 1 \in 1..Len(t) /\ Len(s) + 1 - 1 = Len(s)
  BY <1>1
<1>6. f[Len(s) + 1] = IF e \in S THEN Append(f[Len(s)], e) ELSE f[Len(s)]
  BY <1>1, <1>2, <1>5 DEF Filters
<1>7. Among(t, S) = IF e \in S THEN Append(Among(s, S), e) ELSE Among(s, S)
  BY <1>1, <1>2, <1>4, <1>6
<1> QED
  BY <1>7 DEF t

(* Taking twice is taking what is in both sets. *)
LEMMA AmongTwice ==
    ASSUME NEW V, NEW s \in Seq(V), NEW S, NEW R
    PROVE  Among(Among(s, S), R) = Among(s, S \cap R)
<1>1. PICK f \in [0..Len(s) -> Seq(V)] : Filters(f, s, S) /\ Among(s, S) = f[Len(s)]
  BY AmongLoop
<1> DEFINE g == [n \in 0..Len(s) |-> Among(f[n], R)]
<1>2. \A n \in 0..Len(s) : g[n] = Among(f[n], R)
  OBVIOUS
<1> HIDE DEF g
<1>3. g[0] = << >>
  <2> DEFINE e == << >>
  <2>1. e \in Seq(V) /\ Elements(e) \cap R = {}
    BY DEF Elements
  <2> HIDE DEF e
  <2>2. Among(e, R) = << >>
    BY <2>1, AmongNone
  <2>3. f[0] = e
    BY <1>1 DEF Filters, e
  <2> QED
    BY <1>2, <2>2, <2>3
<1>4. ASSUME NEW n \in 1..Len(s)
      PROVE  g[n] = IF s[n] \in S \cap R THEN Append(g[n - 1], s[n]) ELSE g[n - 1]
  <2>1. n - 1 \in 0..Len(s) /\ f[n - 1] \in Seq(V) /\ s[n] \in V
    OBVIOUS
  <2>2. f[n] = IF s[n] \in S THEN Append(f[n - 1], s[n]) ELSE f[n - 1]
    BY <1>1 DEF Filters
  <2>3. g[n] = Among(f[n], R) /\ g[n - 1] = Among(f[n - 1], R)
    BY <1>2, <2>1
  <2>4. Among(Append(f[n - 1], s[n]), R)
          = IF s[n] \in R THEN Append(Among(f[n - 1], R), s[n]) ELSE Among(f[n - 1], R)
    <3> DEFINE t == f[n - 1]
               e == s[n]
    <3>1. t \in Seq(V) /\ e \in V
      BY <2>1
    <3> HIDE DEF t, e
    <3>2. Among(Append(t, e), R) = IF e \in R THEN Append(Among(t, R), e) ELSE Among(t, R)
      BY <3>1, AmongAppend
    <3> QED
      BY <3>2 DEF t, e
  <2>5. CASE s[n] \in S
    BY <2>2, <2>3, <2>4, <2>5
  <2>6. CASE s[n] \notin S
    BY <2>2, <2>3, <2>6
  <2> QED
    BY <2>5, <2>6
<1>5. Filters(g, s, S \cap R)
  BY <1>3, <1>4 DEF Filters
<1>6. Among(s, S \cap R) = g[Len(s)]
  BY <1>5, AmongUnique
<1> QED
  BY <1>1, <1>2, <1>6

LEMMA AmongConcat ==
    ASSUME NEW V, NEW s \in Seq(V), NEW t \in Seq(V), NEW S
    PROVE  Among(s \o t, S) = Among(s, S) \o Among(t, S)
<1> DEFINE u(n) == SubSeq(t, 1, n)
           T == {n \in 0..Len(t) : Among(s \o u(n), S) = Among(s, S) \o Among(u(n), S)}
<1>1. 0 \in T
  <2> DEFINE e == << >>
  <2>1. e \in Seq(V) /\ Elements(e) \cap S = {} /\ u(0) = e /\ s \o e = s
    BY DEF Elements
  <2>2. Among(e, S) = << >>
    <3> HIDE DEF e
    <3> QED
      BY <2>1, AmongNone
  <2>3. Among(s, S) \in Seq(V)
    BY AmongElements
  <2>4. Among(s, S) \o << >> = Among(s, S)
    BY <2>3
  <2>5. 0 \in 0..Len(t)
    OBVIOUS
  <2>6. Among(s \o u(0), S) = Among(s, S) \o Among(u(0), S)
    <3> HIDE DEF u
    <3> QED
      BY <2>1, <2>2, <2>4
  <2> QED
    BY <2>5, <2>6
<1>2. ASSUME NEW n \in 1..Len(t), n - 1 \in T PROVE n \in T
  <2> DEFINE v == u(n - 1)
             e == t[n]
  <2>1. v \in Seq(V) /\ e \in V /\ u(n) = Append(v, e)
    OBVIOUS
  <2>2. Among(s \o v, S) = Among(s, S) \o Among(v, S)
    BY <1>2
  <2> HIDE DEF v, e
  <2>3. s \o v \in Seq(V) /\ s \o Append(v, e) = Append(s \o v, e)
    BY <2>1
  <2>4. Among(Append(v, e), S) = IF e \in S THEN Append(Among(v, S), e) ELSE Among(v, S)
    BY <2>1, AmongAppend, Zenon
  <2> DEFINE w == s \o v
  <2>5. Among(Append(w, e), S) = IF e \in S THEN Append(Among(w, S), e) ELSE Among(w, S)
    <3> HIDE DEF w
    <3>1. w \in Seq(V)
      BY <2>3 DEF w
    <3> QED
      BY <2>1, <3>1, AmongAppend
  <2>6. Among(s, S) \in Seq(V) /\ Among(v, S) \in Seq(V)
    BY <2>1, AmongElements
  <2> DEFINE x == Among(s, S)
             y == Among(v, S)
  <2>7. x \o Append(y, e) = Append(x \o y, e)
    <3> HIDE DEF x, y
    <3>1. x \in Seq(V) /\ y \in Seq(V)
      BY <2>6 DEF x, y
    <3> QED
      BY <2>1, <3>1
  <2>8. Among(s \o u(n), S) = Among(s, S) \o Among(u(n), S)
    BY <2>1, <2>2, <2>3, <2>4, <2>5, <2>7
  <2> QED
    BY <2>8
<1>3. \A n \in 0..Len(t) : n \in T
  <2> HIDE DEF T
  <2>1. Len(t) \in Nat
    OBVIOUS
  <2> QED
    BY <1>1, <1>2, <2>1, UpTo
<1>4. u(Len(t)) = t /\ Len(t) \in 0..Len(t)
  OBVIOUS
<1>5. Among(s \o u(Len(t)), S) = Among(s, S) \o Among(u(Len(t)), S)
  BY <1>3, <1>4
<1> QED
  BY <1>4, <1>5

----------------------------------------------------------------------------
(* The pool of claims *)

Claim == [ts : Int, depends : Seq(DOMAIN Txn), size : Int, fee : Int, delta : Int]

Outputs == UNION {Ins(txn) : txn \in DOMAIN Txn}

Confirmations == UNION {[D -> Claim] : D \in SUBSET DOMAIN Txn}

Pools == [confirmations : Confirmations, priorities : SUBSET DOMAIN Txn,
          spents : SUBSET Outputs]

(* The coins marked as spent are those of the claims, each spent by one of *)
(* them, and what is in order of preference is claimed.                    *)
Coherent(p) ==
    /\ p.spents = UNION {Ins(txn) : txn \in DOMAIN p.confirmations}
    /\ \A a, b \in DOMAIN p.confirmations : a # b => Ins(a) \cap Ins(b) = {}
    /\ p.priorities \subseteq DOMAIN p.confirmations

(* The order of preference tells all claims apart. *)
NoTies(p) ==
    \A a, b \in DOMAIN p.confirmations : a # b => ~Equivalent(p.confirmations, a, b)

Complete(p) == p.priorities = DOMAIN p.confirmations

(* What is claimed about the order depends on whether ties are excluded. *)
SoundPools(ties) ==
    {p \in Pools : Coherent(p) /\ (ties = "excluded" /\ NoTies(p) => Complete(p))}

(* q is p with a claim more. *)
Grown(p, q, txn) ==
    /\ DOMAIN q.confirmations = DOMAIN p.confirmations \cup {txn}
    /\ \A t \in DOMAIN p.confirmations : q.confirmations[t] = p.confirmations[t]
    /\ q.spents = p.spents \cup Ins(txn)

LEMMA ConfirmationsType ==
    ASSUME NEW m
    PROVE  m \in Confirmations <=> DOMAIN m \subseteq DOMAIN Txn /\ m \in [DOMAIN m -> Claim]
<1>1. ASSUME m \in Confirmations PROVE DOMAIN m \subseteq DOMAIN Txn /\ m \in [DOMAIN m -> Claim]
  <2>1. PICK D \in SUBSET DOMAIN Txn : m \in [D -> Claim]
    BY <1>1 DEF Confirmations
  <2> QED
    BY <2>1
<1>2. ASSUME DOMAIN m \subseteq DOMAIN Txn, m \in [DOMAIN m -> Claim] PROVE m \in Confirmations
  BY <1>2 DEF Confirmations
<1> QED
  BY <1>1, <1>2

(* A claim has a sum of sizes and of fees of claims there are. *)
LEMMA NewClaimType ==
    ASSUME NEW p \in Pools, NEW txn \in DOMAIN Txn, NEW ts \in Int
    PROVE  NewClaim(p, txn, ts) \in Claim
<1> DEFINE t     == Txn[txn]
           D     == DOMAIN p.confirmations
           prevs == [i \in DOMAIN t.ins |-> t.ins[i][1]]
           deps  == Among(prevs, D)
           sizes == [i \in DOMAIN deps |-> p.confirmations[deps[i]].size]
           fees  == [i \in DOMAIN deps |-> p.confirmations[deps[i]].fee]
           delta == t.outs - Len(t.ins)
<1>1. D \subseteq DOMAIN Txn /\ p.confirmations \in [D -> Claim]
  BY ConfirmationsType DEF Pools
<1>2. /\ t.ins \in Seq(Elements(t.ins))
      /\ t.outs \in Int /\ t.size \in Int /\ t.fee \in Int
  BY ClaimsAssumption
<1>3. deps \in Seq(D)
  <2> DEFINE V == {t.ins[i][1] : i \in DOMAIN t.ins}
  <2>1. prevs \in Seq(V)
    <3> DEFINE n == Len(t.ins)
    <3>1. n \in Nat /\ DOMAIN t.ins = 1..n
      BY <1>2
    <3>2. prevs \in [1..n -> V]
      BY <3>1
    <3> QED
      BY <3>1, <3>2
  <2> HIDE DEF prevs, V, D
  <2>2. deps \in Seq(V) /\ Elements(deps) = Elements(prevs) \cap D
    BY <2>1, AmongElements
  <2> HIDE DEF deps
  <2>3. \A i \in 1..Len(deps) : deps[i] \in D
    BY <2>2 DEF Elements
  <2> QED
    BY <2>2, <2>3
<1> HIDE DEF deps
<1>4. sizes \in Seq(Int) /\ fees \in Seq(Int)
  <2> DEFINE n == Len(deps)
  <2>1. n \in Nat /\ DOMAIN deps = 1..n /\ \A i \in 1..n : deps[i] \in D
    BY <1>3
  <2>2. \A i \in 1..n : p.confirmations[deps[i]].size \in Int /\ p.confirmations[deps[i]].fee \in Int
    BY <1>1, <2>1 DEF Claim
  <2> HIDE DEF n
  <2>3. sizes \in [1..n -> Int] /\ fees \in [1..n -> Int]
    BY <2>1, <2>2
  <2> QED
    BY <2>1, <2>3
<1>5. deps \in Seq(DOMAIN Txn)
  BY <1>1, <1>3
<1> DEFINE size == t.size + Total(sizes)
           fee == t.fee + Total(fees)
           gain == delta * (1 + Len(deps))
<1>6. size \in Int /\ fee \in Int
  <2> HIDE DEF sizes, fees
  <2>1. Total(sizes) \in Int /\ Total(fees) \in Int
    BY <1>4, TotalType
  <2> QED
    BY <1>2, <2>1
<1>7. gain \in Int
  <2>1. Len(t.ins) \in Int /\ Len(deps) \in Int
    BY <1>2, <1>3
  <2> QED
    BY <1>2, <2>1
<1>8. NewClaim(p, txn, ts) = [ts |-> ts, depends |-> deps, size |-> size, fee |-> fee, delta |-> gain]
  BY DEF NewClaim, deps
<1> HIDE DEF size, fee, gain
<1> QED
  BY <1>5, <1>6, <1>7, <1>8 DEF Claim

(* Claims that are the same compare the same. *)
LEMMA SameOrder ==
    ASSUME NEW c, NEW d, NEW a, NEW b, c[a] = d[a], c[b] = d[b]
    PROVE  Equivalent(c, a, b) <=> Equivalent(d, a, b)
BY DEF Equivalent, Better

LEMMA SelfOrder ==
    ASSUME NEW c, NEW a, c[a] \in Claim
    PROVE  Equivalent(c, a, a)
BY DEF Equivalent, Better, Claim

(* What insert() makes of a pool. *)
LEMMA InsertClaimFacts ==
    ASSUME NEW ties, NEW p \in SoundPools(ties), NEW txn \in DOMAIN Txn, NEW ts \in Int,
           txn \notin DOMAIN p.confirmations, Ins(txn) \cap p.spents = {}
    PROVE  /\ InsertClaim(p, txn, ts) \in SoundPools(ties)
           /\ Grown(p, InsertClaim(p, txn, ts), txn)
<1> DEFINE D == DOMAIN p.confirmations
           new == NewClaim(p, txn, ts)
           held == [t \in D \cup {txn} |-> IF t = txn THEN new ELSE p.confirmations[t]]
           order == IF \E t \in p.priorities : Equivalent(held, t, txn)
                    THEN p.priorities ELSE p.priorities \cup {txn}
           coins == p.spents \cup Ins(txn)
           q == InsertClaim(p, txn, ts)
<1>1. /\ p \in Pools /\ Coherent(p) /\ (ties = "excluded" /\ NoTies(p) => Complete(p))
      /\ D \subseteq DOMAIN Txn /\ p.confirmations \in [D -> Claim]
      /\ p.priorities \subseteq DOMAIN Txn /\ p.spents \subseteq Outputs
  BY ConfirmationsType DEF SoundPools, Pools
<1>2. new \in Claim
  BY <1>1, NewClaimType
<1>3. q = [confirmations |-> held, priorities |-> order, spents |-> coins]
  BY DEF InsertClaim
<1> HIDE DEF new
<1>4. /\ DOMAIN held = D \cup {txn}
      /\ held \in [D \cup {txn} -> Claim]
      /\ \A t \in D : held[t] = p.confirmations[t]
  BY <1>1, <1>2
<1> HIDE DEF held, q
<1>5. held \in Confirmations
  <2>1. D \cup {txn} \subseteq DOMAIN Txn
    BY <1>1
  <2> QED
    BY <1>4, <2>1, ConfirmationsType
<1>6. order \subseteq D \cup {txn} /\ order \subseteq DOMAIN Txn
  BY <1>1 DEF Coherent
<1>7. coins \subseteq Outputs
  BY <1>1 DEF Outputs
<1> HIDE DEF order, coins
<1>8. q.confirmations = held /\ q.priorities = order /\ q.spents = coins
  BY <1>3
<1>9. q \in Pools
  BY <1>3, <1>5, <1>6, <1>7 DEF Pools
<1>10. Grown(p, q, txn)
  BY <1>4, <1>8 DEF Grown, coins
<1>11. Coherent(q)
  <2>1. q.spents = UNION {Ins(t) : t \in DOMAIN q.confirmations}
    BY <1>1, <1>4, <1>8 DEF Coherent, coins
  <2>2. ASSUME NEW a \in D PROVE Ins(a) \cap Ins(txn) = {}
    BY <1>1, <2>2 DEF Coherent
  <2>3. \A a, b \in DOMAIN q.confirmations : a # b => Ins(a) \cap Ins(b) = {}
    BY <1>1, <1>4, <1>8, <2>2 DEF Coherent
  <2>4. q.priorities \subseteq DOMAIN q.confirmations
    BY <1>4, <1>6, <1>8
  <2> QED
    BY <2>1, <2>3, <2>4 DEF Coherent
<1>12. ASSUME ties = "excluded", NoTies(q) PROVE Complete(q)
  <2>1. ASSUME NEW a \in D, NEW b \in D, a # b PROVE ~Equivalent(p.confirmations, a, b)
    <3>1. ~Equivalent(held, a, b)
      BY <1>4, <1>8, <1>12, <2>1 DEF NoTies
    <3> QED
      BY <1>4, <3>1, SameOrder
  <2>2. p.priorities = D
    BY <1>1, <1>12, <2>1 DEF NoTies, Complete
  <2>3. ASSUME NEW t \in D PROVE ~Equivalent(held, t, txn)
    BY <1>4, <1>8, <1>12, <2>3 DEF NoTies
  <2>4. order = D \cup {txn}
    BY <2>2, <2>3 DEF order
  <2> QED
    BY <1>4, <1>8, <2>4 DEF Complete
<1> QED
  BY <1>9, <1>10, <1>11, <1>12 DEF SoundPools, q

(* What erase() makes of a pool. *)
LEMMA EraseClaimsFacts ==
    ASSUME NEW p \in Pools, Coherent(p), NEW txns
    PROVE  /\ EraseClaims(p, txns) \in Pools /\ Coherent(EraseClaims(p, txns))
           /\ NoTies(p) /\ Complete(p) =>
                 NoTies(EraseClaims(p, txns)) /\ Complete(EraseClaims(p, txns))
<1> DEFINE D == DOMAIN p.confirmations
           gone == txns \cap D
           held == [t \in D \ gone |-> p.confirmations[t]]
           order == {t \in p.priorities : \A g \in gone : ~Equivalent(p.confirmations, t, g)}
           coins == p.spents \ UNION {Ins(txn) : txn \in gone}
           q == EraseClaims(p, txns)
<1>1. /\ D \subseteq DOMAIN Txn /\ p.confirmations \in [D -> Claim]
      /\ p.priorities \subseteq DOMAIN Txn /\ p.spents \subseteq Outputs
  BY ConfirmationsType DEF Pools
<1>2. q = [confirmations |-> held, priorities |-> order, spents |-> coins]
  BY DEF EraseClaims
<1>3. /\ DOMAIN held = D \ gone
      /\ held \in [D \ gone -> Claim]
      /\ \A t \in D \ gone : held[t] = p.confirmations[t]
  BY <1>1
<1> HIDE DEF held, q
<1>4. held \in Confirmations
  <2>1. D \ gone \subseteq DOMAIN Txn
    BY <1>1
  <2> QED
    BY <1>3, <2>1, ConfirmationsType
<1>5. order \subseteq p.priorities /\ coins \subseteq p.spents
  OBVIOUS
<1>6. order \subseteq D \ gone
  <2>1. ASSUME NEW t \in order PROVE t \in D /\ t \notin gone
    <3>1. t \in D
      BY DEF Coherent
    <3>2. Equivalent(p.confirmations, t, t)
      BY <1>1, <3>1, SelfOrder
    <3> QED
      BY <3>1, <3>2
  <2> QED
    BY <2>1
<1>7. coins = UNION {Ins(txn) : txn \in D \ gone}
  <2>1. p.spents = UNION {Ins(txn) : txn \in D}
    BY DEF Coherent
  <2>2. \A a \in D \ gone, g \in gone : Ins(a) \cap Ins(g) = {}
    BY DEF Coherent
  <2> QED
    BY <2>1, <2>2
<1> HIDE DEF order, coins
<1>8. q.confirmations = held /\ q.priorities = order /\ q.spents = coins
  BY <1>2
<1>9. q \in Pools
  BY <1>1, <1>2, <1>4, <1>5 DEF Pools
<1>10. Coherent(q)
  <2>1. \A a, b \in DOMAIN q.confirmations : a # b => Ins(a) \cap Ins(b) = {}
    BY <1>3, <1>8 DEF Coherent
  <2> QED
    BY <1>3, <1>6, <1>7, <1>8, <2>1 DEF Coherent
<1>11. ASSUME NoTies(p), Complete(p) PROVE NoTies(q) /\ Complete(q)
  <2>1. ASSUME NEW a \in D \ gone, NEW b \in D \ gone, a # b PROVE ~Equivalent(held, a, b)
    <3>1. ~Equivalent(p.confirmations, a, b)
      BY <1>11, <2>1 DEF NoTies
    <3> QED
      BY <1>3, <3>1, SameOrder
  <2>2. \A t \in D \ gone, g \in gone : ~Equivalent(p.confirmations, t, g)
    BY <1>11 DEF NoTies
  <2>3. order = D \ gone
    BY <1>6, <1>11, <2>2 DEF order, Complete
  <2> QED
    BY <1>3, <1>8, <2>1, <2>3 DEF NoTies, Complete
<1> QED
  BY <1>9, <1>10, <1>11 DEF q

----------------------------------------------------------------------------
(* Claiming *)

(* All that a transaction spends is there. *)
Ready(D, txn, bs) ==
    \A out \in Ins(txn) :
        \/ out[1] \in D /\ out[2] < Txn[out[1]].outs
        \/ out \in Unspents(bs)

(* No further claim makes it claimable. *)
Blocked(p, txn) ==
    \/ txn \in DOMAIN p.confirmations
    \/ Ins(txn) \cap p.spents # {}
    \/ Cardinality(Ins(txn)) # Len(Txn[txn].ins)

LEMMA CanClaimFacts ==
    ASSUME NEW p, NEW txn, NEW bs
    PROVE  CanClaim(p, txn, bs) <=> ~Blocked(p, txn) /\ Ready(DOMAIN p.confirmations, txn, bs)
BY DEF CanClaim, Blocked, Ready

(* try_claim() and insert() *)
LEMMA ClaimFacts ==
    ASSUME NEW ties, NEW p \in SoundPools(ties), NEW txn \in DOMAIN Txn, NEW bs, now \in Int,
           CanClaim(p, txn, bs)
    PROVE  /\ InsertClaim(p, txn, now) \in SoundPools(ties)
           /\ Grown(p, InsertClaim(p, txn, now), txn)
           /\ txn \notin DOMAIN p.confirmations
<1>1. txn \notin DOMAIN p.confirmations /\ Ins(txn) \cap p.spents = {}
  BY DEF CanClaim
<1> QED
  BY <1>1, InsertClaimFacts

(* The transactions of detached blocks come back. *)
LEMMA ReclaimSound ==
    ASSUME NEW ties, NEW p \in SoundPools(ties), NEW order \in Seq(DOMAIN Txn), NEW bs, now \in Int
    PROVE  Reclaim(p, order, bs) \in SoundPools(ties)
<1> DEFINE N == Len(order)
           X == SoundPools(ties)
           G == [z \in X \X (1..N) |-> TryClaim(z[1], order[z[2]], bs)]
           F == CHOOSE f : f = [n \in 0..N |-> IF n = 0 THEN p ELSE TryClaim(f[n - 1], order[n], bs)]
<1>1. N \in Nat /\ p \in X /\ \A n \in 1..N : order[n] \in DOMAIN Txn
  OBVIOUS
<1>2. Reclaim(p, order, bs) = F[N]
  BY DEF Reclaim
<1>3. ASSUME NEW x \in X, NEW n \in 1..N PROVE TryClaim(x, order[n], bs) \in X
  <2>1. CASE CanClaim(x, order[n], bs)
    BY <1>1, <2>1, ClaimFacts DEF TryClaim
  <2>2. CASE ~CanClaim(x, order[n], bs)
    BY <2>2 DEF TryClaim
  <2> QED
    BY <2>1, <2>2
<1> HIDE DEF X, N
<1>4. \A x \in X, n \in 1..N : G[<<x, n>>] = TryClaim(x, order[n], bs)
  OBVIOUS
<1>5. G \in [X \X (1..N) -> X]
  BY <1>3
<1> HIDE DEF G
<1>6. \E f : f = [n \in 0..N |-> IF n = 0 THEN p ELSE TryClaim(f[n - 1], order[n], bs)]
  <2> HIDE DEF F
  <2>1. PICK f : IsLoop(f, N, X, p, G)
    BY <1>1, <1>5, LoopExists
  <2>2. f \in [0..N -> X] /\ f[0] = p
    BY <2>1 DEF IsLoop
  <2>3. ASSUME NEW n \in 0..N, n # 0 PROVE f[n] = TryClaim(f[n - 1], order[n], bs)
    <3>1. n \in 1..N /\ n - 1 \in 0..N
      BY <1>1, <2>3
    <3>2. f[n] = G[<<f[n - 1], n>>]
      BY <2>1, <3>1 DEF IsLoop
    <3> QED
      BY <1>4, <2>2, <3>1, <3>2
  <2>4. f = [n \in 0..N |-> IF n = 0 THEN p ELSE TryClaim(f[n - 1], order[n], bs)]
    BY <2>2, <2>3
  <2> QED
    BY <2>4
<1>7. F = [n \in 0..N |-> IF n = 0 THEN p ELSE TryClaim(F[n - 1], order[n], bs)]
  BY <1>6
<1> DEFINE T == {n \in 0..N : F[n] \in X}
<1> HIDE DEF F
<1>8. 0 \in T
  BY <1>1, <1>7
<1>9. ASSUME NEW n \in 1..N, n - 1 \in T PROVE n \in T
  <2>1. F[n - 1] \in X /\ n \in 0..N /\ n # 0
    BY <1>1, <1>9
  <2>2. F[n] = TryClaim(F[n - 1], order[n], bs)
    BY <1>7, <2>1
  <2> QED
    BY <1>3, <2>1, <2>2
<1> HIDE DEF T
<1>10. \A n \in 0..N : n \in T
  BY <1>1, <1>8, <1>9, UpTo
<1> QED
  BY <1>1, <1>2, <1>10 DEF T, X

----------------------------------------------------------------------------
(* The work queue of process() *)

(* What was accepted since p is in the queue, once. *)
Works(ties, p) ==
    {s \in [pool : SoundPools(ties), work : Seq(DOMAIN Txn)] :
        /\ DOMAIN s.pool.confirmations = DOMAIN p.confirmations \cup Elements(s.work)
        /\ Elements(s.work) \cap DOMAIN p.confirmations = {}
        /\ \A i, j \in 1..Len(s.work) : i # j => s.work[i] # s.work[j]}

(* r comes after s. *)
Later(s, r) ==
    /\ DOMAIN s.pool.confirmations \subseteq DOMAIN r.pool.confirmations
    /\ s.pool.spents \subseteq r.pool.spents
    /\ Len(s.work) <= Len(r.work)
    /\ \A i \in 1..Len(s.work) : r.work[i] = s.work[i]

LEMMA LaterTransitive ==
    ASSUME NEW ties, NEW p, NEW s \in Works(ties, p), NEW r \in Works(ties, p),
           NEW t \in Works(ties, p), Later(s, r), Later(r, t)
    PROVE  Later(s, t)
<1>1. Len(s.work) \in Nat /\ Len(r.work) \in Nat /\ Len(t.work) \in Nat
  BY DEF Works
<1> QED
  BY <1>1 DEF Later

LEMMA LaterSame ==
    ASSUME NEW ties, NEW p, NEW s \in Works(ties, p)
    PROVE  Later(s, s)
<1>1. Len(s.work) \in Nat
  BY DEF Works
<1> QED
  BY <1>1 DEF Later

LEMMA LaterBlocked ==
    ASSUME NEW s, NEW r, Later(s, r), NEW o, Blocked(s.pool, o)
    PROVE  Blocked(r.pool, o)
BY DEF Later, Blocked

LEMMA ReadyMore ==
    ASSUME NEW D, NEW E, D \subseteq E, NEW o, NEW bs, Ready(D, o, bs)
    PROVE  Ready(E, o, bs)
BY DEF Ready

(* The first transaction of the queue. *)
LEMMA FirstWork ==
    ASSUME NEW ties, NEW p \in SoundPools(ties), NEW txn \in DOMAIN Txn, now \in Int,
           CanClaim(p, txn, blocks)
    PROVE  [pool |-> InsertClaim(p, txn, now), work |-> <<txn>>] \in Works(ties, p)
<1> DEFINE q == InsertClaim(p, txn, now)
           w == <<txn>>
           s == [pool |-> q, work |-> w]
<1>1. q \in SoundPools(ties) /\ Grown(p, q, txn) /\ txn \notin DOMAIN p.confirmations
  BY ClaimFacts
<1>2. w \in Seq(DOMAIN Txn) /\ Elements(w) = {txn} /\ \A i, j \in 1..Len(w) : i = j
  BY DEF Elements
<1> HIDE DEF q, w
<1>3. s \in [pool : SoundPools(ties), work : Seq(DOMAIN Txn)] /\ s.pool = q /\ s.work = w
  BY <1>1, <1>2
<1> HIDE DEF s
<1>4. s \in Works(ties, p)
  BY <1>1, <1>2, <1>3 DEF Works, Grown
<1> QED
  BY <1>4 DEF s, q, w

(* An entry of the index that names the parent is an orphan that is claimed, *)
(* or never will be, or lacks a parent still.                                *)
LEMMA TryOrphanFacts ==
    ASSUME NEW ties, NEW p, NEW s \in Works(ties, p), now \in Int,
           NEW e, e[2] \in DOMAIN Txn, NEW prev
    PROVE  /\ TryOrphan(s, e, prev) \in Works(ties, p)
           /\ Later(s, TryOrphan(s, e, prev))
           /\ e[1] = prev => \/ Blocked(TryOrphan(s, e, prev).pool, e[2])
                             \/ ~Ready(DOMAIN s.pool.confirmations, e[2], blocks)
<1> DEFINE o == e[2]
<1>1. /\ s.pool \in SoundPools(ties) /\ s.work \in Seq(DOMAIN Txn)
      /\ DOMAIN s.pool.confirmations = DOMAIN p.confirmations \cup Elements(s.work)
      /\ Elements(s.work) \cap DOMAIN p.confirmations = {}
      /\ \A i, j \in 1..Len(s.work) : i # j => s.work[i] # s.work[j]
  BY DEF Works
<1>2. CASE e[1] = prev /\ CanClaim(s.pool, o, blocks)
  <2> DEFINE q == InsertClaim(s.pool, o, now)
             w == Append(s.work, o)
             r == TryOrphan(s, e, prev)
  <2>1. r = [pool |-> q, work |-> w]
    BY <1>2 DEF TryOrphan
  <2>2. q \in SoundPools(ties) /\ Grown(s.pool, q, o) /\ o \notin DOMAIN s.pool.confirmations
    BY <1>1, <1>2, ClaimFacts
  <2> HIDE DEF q, r
  <2>3. Len(s.work) \in Nat /\ DOMAIN s.work = 1..Len(s.work)
    BY <1>1
  <2>4. /\ w \in Seq(DOMAIN Txn) /\ Len(w) = Len(s.work) + 1
        /\ w[Len(s.work) + 1] = o /\ \A i \in 1..Len(s.work) : w[i] = s.work[i]
        /\ Elements(w) = Elements(s.work) \cup {o}
    BY <1>1, AppendElements
  <2> HIDE DEF w
  <2>6. \A i \in 1..Len(s.work) : s.work[i] # o
    BY <1>1, <2>2, <2>3 DEF Elements
  <2>7. \A i, j \in 1..Len(w) : i # j => w[i] # w[j]
    BY <1>1, <2>3, <2>4, <2>6
  <2>8. r.pool = q /\ r.work = w /\ r \in [pool : SoundPools(ties), work : Seq(DOMAIN Txn)]
    BY <2>1, <2>2, <2>4
  <2>9. r \in Works(ties, p)
    BY <1>1, <2>2, <2>4, <2>7, <2>8 DEF Works, Grown
  <2>10. Later(s, r)
    BY <2>2, <2>3, <2>4, <2>8 DEF Later, Grown
  <2>11. Blocked(r.pool, o)
    BY <2>2, <2>8 DEF Blocked, Grown
  <2> QED
    BY <2>9, <2>10, <2>11 DEF r
<1>3. CASE ~(e[1] = prev /\ CanClaim(s.pool, o, blocks))
  <2>1. TryOrphan(s, e, prev) = s
    BY <1>3 DEF TryOrphan
  <2> QED
    BY <1>3, <2>1, LaterSame, CanClaimFacts
<1> QED
  BY <1>2, <1>3

(* An entry of the index names a parent and an orphan. *)
Indexed == UNION {Elements(Entries(txn)) : txn \in DOMAIN Txn}

LEMMA IndexedFacts ==
    ASSUME NEW e \in Indexed
    PROVE  e[2] \in DOMAIN Txn
<1>1. PICK txn \in DOMAIN Txn : e \in Elements(Entries(txn))
  BY DEF Indexed
<1>2. PICK i \in DOMAIN Entries(txn) : e = Entries(txn)[i]
  BY <1>1 DEF Elements
<1>3. e = <<Txn[txn].ins[i][1], txn>>
  BY <1>2 DEF Entries
<1> QED
  BY <1>3

(* The states of the loop over the orphans of a parent. *)
LEMMA ClaimOrphansLoop ==
    ASSUME NEW ties, NEW p, NEW s \in Works(ties, p), now \in Int,
           orphansByPrev \in Seq(Indexed), NEW prev
    PROVE  \E f \in [0..Len(orphansByPrev) -> Works(ties, p)] :
              /\ f[0] = s
              /\ \A n \in 1..Len(orphansByPrev) :
                    f[n] = TryOrphan(f[n - 1], orphansByPrev[n], prev)
              /\ ClaimOrphans(s, prev) = f[Len(orphansByPrev)]
<1> DEFINE N == Len(orphansByPrev)
           X == Works(ties, p)
           Step(x, n) == TryOrphan(x, orphansByPrev[n], prev)
           G == [z \in X \X (1..N) |-> Step(z[1], z[2])]
           F == CHOOSE f : f = [n \in 0..N |-> IF n = 0 THEN s ELSE Step(f[n - 1], n)]
<1>1. N \in Nat /\ s \in X /\ \A n \in 1..N : orphansByPrev[n] \in Indexed
  OBVIOUS
<1>2. ClaimOrphans(s, prev) = F[N]
  BY DEF ClaimOrphans
<1>3. ASSUME NEW x \in X, NEW n \in 1..N PROVE Step(x, n) \in X
  <2>1. orphansByPrev[n][2] \in DOMAIN Txn
    BY <1>1, IndexedFacts
  <2> QED
    BY <2>1, TryOrphanFacts
<1> HIDE DEF X, N, Step
<1>4. \A x \in X, n \in 1..N : G[<<x, n>>] = Step(x, n)
  OBVIOUS
<1>5. G \in [X \X (1..N) -> X]
  BY <1>3
<1> HIDE DEF G
<1>6. \E f : f = [n \in 0..N |-> IF n = 0 THEN s ELSE Step(f[n - 1], n)]
  <2> HIDE DEF F
  <2>1. PICK f : IsLoop(f, N, X, s, G)
    BY <1>1, <1>5, LoopExists
  <2>2. f \in [0..N -> X] /\ f[0] = s
    BY <2>1 DEF IsLoop
  <2>3. ASSUME NEW n \in 0..N, n # 0 PROVE f[n] = Step(f[n - 1], n)
    <3>1. n \in 1..N /\ n - 1 \in 0..N
      BY <1>1, <2>3
    <3>2. f[n] = G[<<f[n - 1], n>>]
      BY <2>1, <3>1 DEF IsLoop
    <3> QED
      BY <1>4, <2>2, <3>1, <3>2
  <2>4. f = [n \in 0..N |-> IF n = 0 THEN s ELSE Step(f[n - 1], n)]
    BY <2>2, <2>3
  <2> QED
    BY <2>4
<1>7. F = [n \in 0..N |-> IF n = 0 THEN s ELSE Step(F[n - 1], n)]
  BY <1>6
<1> DEFINE T == {n \in 0..N : F[n] \in X}
<1> HIDE DEF F
<1>8. F[0] = s /\ \A n \in 1..N : F[n] = Step(F[n - 1], n)
  BY <1>1, <1>7
<1>9. 0 \in T
  BY <1>1, <1>8
<1>10. ASSUME NEW n \in 1..N, n - 1 \in T PROVE n \in T
  <2>1. F[n - 1] \in X /\ n \in 0..N
    BY <1>1, <1>10
  <2> QED
    BY <1>3, <1>8, <2>1
<1>11. F \in [0..N -> X]
  <2> HIDE DEF T
  <2>1. \A n \in 0..N : n \in T
    BY <1>1, <1>9, <1>10, UpTo
  <2>2. \A n \in 0..N : F[n] \in X
    BY <2>1 DEF T
  <2> QED
    BY <1>7, <2>2
<1> QED
  BY <1>2, <1>8, <1>11 DEF X, N, Step

(* After the orphans of a parent are tried, each is claimed, or never will   *)
(* be, or lacks another parent.                                              *)
LEMMA ClaimOrphansFacts ==
    ASSUME NEW ties, NEW p, NEW s \in Works(ties, p), now \in Int,
           orphansByPrev \in Seq(Indexed), NEW prev
    PROVE  /\ ClaimOrphans(s, prev) \in Works(ties, p)
           /\ Later(s, ClaimOrphans(s, prev))
           /\ \A i \in 1..Len(orphansByPrev) : orphansByPrev[i][1] = prev =>
                 \/ Blocked(ClaimOrphans(s, prev).pool, orphansByPrev[i][2])
                 \/ ~Ready(DOMAIN s.pool.confirmations, orphansByPrev[i][2], blocks)
<1> DEFINE N == Len(orphansByPrev)
           Tried(i, r) == orphansByPrev[i][1] = prev =>
                             \/ Blocked(r.pool, orphansByPrev[i][2])
                             \/ ~Ready(DOMAIN s.pool.confirmations, orphansByPrev[i][2], blocks)
<1>1. N \in Nat /\ \A n \in 1..N : orphansByPrev[n][2] \in DOMAIN Txn
  BY IndexedFacts
<1>2. PICK f \in [0..N -> Works(ties, p)] :
           /\ f[0] = s
           /\ \A n \in 1..N : f[n] = TryOrphan(f[n - 1], orphansByPrev[n], prev)
           /\ ClaimOrphans(s, prev) = f[N]
  BY ClaimOrphansLoop
<1> DEFINE T == {n \in 0..N : Later(s, f[n]) /\ \A i \in 1..n : Tried(i, f[n])}
<1> HIDE DEF N
<1>3. 0 \in T
  <2>1. Later(s, s) /\ 0 \in 0..N
    BY <1>1, LaterSame
  <2> QED
    BY <1>2, <2>1
<1>4. ASSUME NEW n \in 1..N, n - 1 \in T PROVE n \in T
  <2> DEFINE q == f[n - 1]
             r == f[n]
             e == orphansByPrev[n]
  <2>1. n \in 0..N /\ n - 1 \in 0..N /\ e[2] \in DOMAIN Txn
    BY <1>1
  <2>2. q \in Works(ties, p) /\ r \in Works(ties, p) /\ r = TryOrphan(q, e, prev)
    BY <1>2, <2>1
  <2>3. Later(s, q) /\ \A i \in 1..(n - 1) : Tried(i, q)
    BY <1>4
  <2> HIDE DEF q, r
  <2>4. /\ Later(q, r)
        /\ e[1] = prev => Blocked(r.pool, e[2]) \/ ~Ready(DOMAIN q.pool.confirmations, e[2], blocks)
    BY <2>1, <2>2, TryOrphanFacts
  <2>5. Later(s, r)
    BY <2>2, <2>3, <2>4, LaterTransitive
  <2>6. Tried(n, r)
    <3>1. DOMAIN s.pool.confirmations \subseteq DOMAIN q.pool.confirmations
      BY <2>3 DEF Later
    <3>2. Ready(DOMAIN s.pool.confirmations, e[2], blocks)
             => Ready(DOMAIN q.pool.confirmations, e[2], blocks)
      BY <3>1, ReadyMore
    <3> QED
      BY <2>4, <3>2
  <2>7. \A i \in 1..(n - 1) : Tried(i, r)
    BY <2>3, <2>4, LaterBlocked
  <2>8. \A i \in 1..n : Tried(i, r)
    <3> HIDE DEF Tried
    <3>1. 1..n = 1..(n - 1) \cup {n}
      BY <1>1
    <3> QED
      BY <2>6, <2>7, <3>1
  <2> QED
    BY <2>1, <2>5, <2>8 DEF r
<1>5. N \in T
  <2> HIDE DEF T
  <2>1. \A n \in 0..N : n \in T
    BY <1>1, <1>3, <1>4, UpTo
  <2> QED
    BY <1>1, <2>1
<1>6. f[N] \in Works(ties, p)
  BY <1>1
<1> QED
  BY <1>2, <1>5, <1>6 DEF N

(* The parents that are claimed when n elements of the queue are done. *)
Done(p, s, n) == DOMAIN p.confirmations \cup {s.work[k] : k \in {k \in 1..Len(s.work) : k <= n}}

(* What the n first elements of the queue made claimable is claimed, or *)
(* never will be.                                                       *)
Retried(p, s, n) ==
    \A o \in orphans :
        Ready(Done(p, s, n), o, blocks) =>
            Blocked(s.pool, o) \/ Ready(DOMAIN p.confirmations, o, blocks)

(* Every orphan has an entry for each of its parents. *)
IsIndex ==
    /\ orphansByPrev \in Seq(Indexed)
    /\ orphans \subseteq DOMAIN Txn
    /\ \A o \in orphans : \A out \in Ins(o) :
          \E i \in 1..Len(orphansByPrev) : orphansByPrev[i] = <<out[1], o>>

LEMMA DoneFacts ==
    ASSUME NEW ties, NEW p, NEW s \in Works(ties, p), NEW n \in Nat
    PROVE  /\ Done(p, s, n) \subseteq DOMAIN s.pool.confirmations
           /\ Len(s.work) <= n => Done(p, s, n) = DOMAIN s.pool.confirmations
<1>1. /\ DOMAIN s.pool.confirmations = DOMAIN p.confirmations \cup Elements(s.work)
      /\ Len(s.work) \in Nat /\ DOMAIN s.work = 1..Len(s.work)
  BY DEF Works
<1>2. Elements(s.work) = {s.work[k] : k \in 1..Len(s.work)}
  BY <1>1 DEF Elements
<1>3. Done(p, s, n) \subseteq DOMAIN s.pool.confirmations
  BY <1>1, <1>2 DEF Done
<1>4. ASSUME Len(s.work) <= n PROVE Done(p, s, n) = DOMAIN s.pool.confirmations
  <2>1. {k \in 1..Len(s.work) : k <= n} = 1..Len(s.work)
    BY <1>1, <1>4
  <2> QED
    BY <1>1, <1>2, <2>1 DEF Done
<1> QED
  BY <1>3, <1>4

(* One element of the queue. *)
LEMMA FollowWorkFacts ==
    ASSUME NEW ties, NEW p, NEW s \in Works(ties, p), now \in Int, IsIndex, NEW n \in Nat \ {0}
    PROVE  /\ FollowWork(s, n) \in Works(ties, p)
           /\ Later(s, FollowWork(s, n))
           /\ Retried(p, s, n - 1) => Retried(p, FollowWork(s, n), n)
<1>1. CASE n <= Len(s.work)
  <2> DEFINE prev == s.work[n]
             r == ClaimOrphans(s, prev)
  <2>1. FollowWork(s, n) = r
    BY <1>1 DEF FollowWork
  <2>2. /\ r \in Works(ties, p) /\ Later(s, r)
        /\ \A i \in 1..Len(orphansByPrev) : orphansByPrev[i][1] = prev =>
              \/ Blocked(r.pool, orphansByPrev[i][2])
              \/ ~Ready(DOMAIN s.pool.confirmations, orphansByPrev[i][2], blocks)
    BY ClaimOrphansFacts DEF IsIndex
  <2>3. Len(s.work) \in Nat /\ Len(r.work) \in Nat
    BY <2>2 DEF Works
  <2> HIDE DEF r
  <2>4. Done(p, r, n) = Done(p, s, n - 1) \cup {prev}
    <3>1. {k \in 1..Len(r.work) : k <= n} = 1..n
      BY <1>1, <2>2, <2>3 DEF Later
    <3>2. {k \in 1..Len(s.work) : k <= n - 1} = 1..(n - 1)
      BY <1>1, <2>3
    <3>3. 1..n = 1..(n - 1) \cup {n}
      OBVIOUS
    <3>4. \A k \in 1..n : r.work[k] = s.work[k]
      BY <1>1, <2>2, <2>3 DEF Later
    <3>5. {r.work[k] : k \in 1..n} = {s.work[k] : k \in 1..(n - 1)} \cup {prev}
      BY <3>3, <3>4
    <3> QED
      BY <3>1, <3>2, <3>5 DEF Done
  <2>5. Done(p, r, n) \subseteq DOMAIN s.pool.confirmations
    <3>1. Done(p, s, n - 1) \subseteq DOMAIN s.pool.confirmations
      <4>1. n - 1 \in Nat
        OBVIOUS
      <4> QED
        BY <4>1, DoneFacts
    <3>2. prev \in Elements(s.work)
      <4>1. DOMAIN s.work = 1..Len(s.work)
        BY DEF Works
      <4> QED
        BY <1>1, <2>3, <4>1 DEF Elements
    <3>3. DOMAIN s.pool.confirmations = DOMAIN p.confirmations \cup Elements(s.work)
      BY DEF Works
    <3> QED
      BY <2>4, <3>1, <3>2, <3>3
  <2>6. ASSUME Retried(p, s, n - 1) PROVE Retried(p, r, n)
    <3>1. SUFFICES ASSUME NEW o \in orphans, Ready(Done(p, r, n), o, blocks)
                   PROVE  Blocked(r.pool, o) \/ Ready(DOMAIN p.confirmations, o, blocks)
      BY DEF Retried
    <3>2. CASE Ready(Done(p, s, n - 1), o, blocks)
      <4>1. Blocked(s.pool, o) \/ Ready(DOMAIN p.confirmations, o, blocks)
        BY <2>6, <3>2 DEF Retried
      <4> QED
        BY <2>2, <4>1, LaterBlocked
    <3>3. CASE ~Ready(Done(p, s, n - 1), o, blocks)
      <4>1. PICK out \in Ins(o) : out[1] = prev
        BY <2>4, <3>1, <3>3 DEF Ready
      <4>2. PICK i \in 1..Len(orphansByPrev) : orphansByPrev[i] = <<out[1], o>>
        BY DEF IsIndex
      <4>3. orphansByPrev[i][1] = prev /\ orphansByPrev[i][2] = o
        BY <4>1, <4>2
      <4>4. Ready(DOMAIN s.pool.confirmations, o, blocks)
        BY <2>5, <3>1, ReadyMore
      <4> QED
        BY <2>2, <4>3, <4>4
    <3> QED
      BY <3>2, <3>3
  <2> QED
    BY <2>1, <2>2, <2>6
<1>2. CASE ~(n <= Len(s.work))
  <2>1. FollowWork(s, n) = s
    BY <1>2 DEF FollowWork
  <2>2. Len(s.work) \in Nat
    BY DEF Works
  <2>3. {k \in 1..Len(s.work) : k <= n} = {k \in 1..Len(s.work) : k <= n - 1}
    BY <1>2, <2>2
  <2>4. Done(p, s, n) = Done(p, s, n - 1)
    BY <2>3 DEF Done
  <2>5. Retried(p, s, n - 1) => Retried(p, s, n)
    BY <2>4 DEF Retried
  <2> QED
    BY <2>1, <2>5, LaterSame
<1> QED
  BY <1>1, <1>2

(* The queue is no longer than there are transactions. *)
LEMMA WorkLength ==
    ASSUME NEW ties, NEW p, NEW s \in Works(ties, p)
    PROVE  Len(s.work) <= Cardinality(DOMAIN Txn)
<1> DEFINE N == Len(s.work)
           S == 1..N
           f == s.work
<1>1. /\ f \in Seq(DOMAIN Txn)
      /\ \A i, j \in 1..Len(f) : i # j => f[i] # f[j]
  BY DEF Works
<1>2. N \in Nat /\ f \in [S -> DOMAIN Txn] /\ \A i, j \in S : i # j => f[i] # f[j]
  BY <1>1
<1>3. IsFiniteSet(DOMAIN Txn)
  BY ClaimsAssumption
<1> HIDE DEF N, f
<1>4. IsFiniteSet(S) /\ Cardinality(S) = N
  <2>1. IsFiniteSet(1..N) /\ Cardinality(1..N) = IF 1 > N THEN 0 ELSE N - 1 + 1
    BY <1>2, FS_Interval
  <2> QED
    BY <1>2, <2>1
<1>5. Cardinality(DOMAIN Txn) \in Nat
  BY <1>3, FS_CardinalityType
<1> HIDE DEF S
<1>6. ~(Cardinality(DOMAIN Txn) < Cardinality(S))
  BY <1>2, <1>3, <1>4, FS_PigeonHole
<1> QED
  BY <1>2, <1>4, <1>5, <1>6 DEF N

(* The whole of an acceptance. *)
LEMMA AcceptFacts ==
    ASSUME NEW ties, pool \in SoundPools(ties), NEW txn \in DOMAIN Txn, now \in Int, IsIndex,
           CanClaim(pool, txn, blocks)
    PROVE  /\ Accept(txn) \in Works(ties, pool)
           /\ DOMAIN pool.confirmations \subseteq DOMAIN Accept(txn).pool.confirmations
           /\ pool.spents \subseteq Accept(txn).pool.spents
           /\ \A o \in orphans :
                 CanClaim(Accept(txn).pool, o, blocks) => CanClaim(pool, o, blocks)
<1> DEFINE N == Cardinality(DOMAIN Txn)
           X == Works(ties, pool)
           a == [pool |-> InsertClaim(pool, txn, now), work |-> <<txn>>]
           G == [z \in X \X (1..N) |-> FollowWork(z[1], z[2])]
           F == CHOOSE f : f = [n \in 0..N |-> IF n = 0 THEN a ELSE FollowWork(f[n - 1], n)]
           p == pool
<1>1. N \in Nat
  BY ClaimsAssumption, FS_CardinalityType
<1>2. a \in X
  BY FirstWork
<1>3. Accept(txn) = F[N]
  BY DEF Accept
<1>4. ASSUME NEW x \in X, NEW n \in 1..N
      PROVE  /\ FollowWork(x, n) \in X /\ Later(x, FollowWork(x, n))
             /\ Retried(p, x, n - 1) => Retried(p, FollowWork(x, n), n)
  <2>1. n \in Nat \ {0}
    BY <1>1
  <2> QED
    BY <2>1, FollowWorkFacts
<1>5. a.pool = InsertClaim(pool, txn, now) /\ Grown(p, a.pool, txn)
  BY ClaimFacts
<1> HIDE DEF X, N, a, p
<1>6. \A x \in X, n \in 1..N : G[<<x, n>>] = FollowWork(x, n)
  OBVIOUS
<1>7. G \in [X \X (1..N) -> X]
  BY <1>4
<1> HIDE DEF G
<1>8. \E f : f = [n \in 0..N |-> IF n = 0 THEN a ELSE FollowWork(f[n - 1], n)]
  <2> HIDE DEF F
  <2>1. PICK f : IsLoop(f, N, X, a, G)
    BY <1>1, <1>2, <1>7, LoopExists
  <2>2. f \in [0..N -> X] /\ f[0] = a
    BY <2>1 DEF IsLoop
  <2>3. ASSUME NEW n \in 0..N, n # 0 PROVE f[n] = FollowWork(f[n - 1], n)
    <3>1. n \in 1..N /\ n - 1 \in 0..N
      BY <1>1, <2>3
    <3>2. f[n] = G[<<f[n - 1], n>>]
      BY <2>1, <3>1 DEF IsLoop
    <3> QED
      BY <1>6, <2>2, <3>1, <3>2
  <2>4. f = [n \in 0..N |-> IF n = 0 THEN a ELSE FollowWork(f[n - 1], n)]
    BY <2>2, <2>3
  <2> QED
    BY <2>4
<1>9. F = [n \in 0..N |-> IF n = 0 THEN a ELSE FollowWork(F[n - 1], n)]
  BY <1>8
<1> DEFINE T == {n \in 0..N : F[n] \in X /\ Later(a, F[n]) /\ Retried(p, F[n], n)}
<1> HIDE DEF F
<1>10. F[0] = a /\ \A n \in 1..N : F[n] = FollowWork(F[n - 1], n)
  BY <1>1, <1>9
<1>11. 0 \in T
  <2>1. Later(a, a)
    BY <1>2, LaterSame DEF X
  <2>2. Done(p, a, 0) = DOMAIN p.confirmations
    <3>1. {k \in 1..Len(a.work) : k <= 0} = {}
      BY <1>2 DEF X, Works
    <3> QED
      BY <3>1 DEF Done
  <2>3. Retried(p, a, 0)
    BY <2>2 DEF Retried
  <2> QED
    BY <1>1, <1>2, <1>10, <2>1, <2>3
<1>12. ASSUME NEW n \in 1..N, n - 1 \in T PROVE n \in T
  <2>1. F[n - 1] \in X /\ Later(a, F[n - 1]) /\ Retried(p, F[n - 1], n - 1) /\ n \in 0..N
    BY <1>1, <1>12
  <2>2. F[n] = FollowWork(F[n - 1], n)
    BY <1>10
  <2>3. F[n] \in X /\ Later(F[n - 1], F[n]) /\ Retried(p, F[n], n)
    BY <1>4, <2>1, <2>2
  <2>4. Later(a, F[n])
    BY <1>2, <2>1, <2>3, LaterTransitive DEF X
  <2> QED
    BY <2>1, <2>3, <2>4
<1> DEFINE r == F[N]
<1>13. r \in X /\ Later(a, r) /\ Retried(p, r, N)
  <2> HIDE DEF T
  <2>1. \A n \in 0..N : n \in T
    BY <1>1, <1>11, <1>12, UpTo
  <2> QED
    BY <1>1, <2>1 DEF T
<1> HIDE DEF r
<1>14. DOMAIN p.confirmations \subseteq DOMAIN r.pool.confirmations /\ p.spents \subseteq r.pool.spents
  BY <1>5, <1>13 DEF Later, Grown
<1>15. ASSUME NEW o \in orphans, CanClaim(r.pool, o, blocks) PROVE CanClaim(p, o, blocks)
  <2>1. ~Blocked(r.pool, o) /\ Ready(DOMAIN r.pool.confirmations, o, blocks)
    BY <1>15, CanClaimFacts
  <2>2. Done(p, r, N) = DOMAIN r.pool.confirmations
    <3>1. Len(r.work) <= N
      BY <1>13, WorkLength DEF X, N
    <3> QED
      BY <1>1, <1>13, <3>1, DoneFacts DEF X, p
  <2>3. Ready(DOMAIN p.confirmations, o, blocks)
    BY <1>13, <2>1, <2>2 DEF Retried
  <2>4. ~Blocked(p, o)
    BY <1>14, <2>1 DEF Blocked
  <2> QED
    BY <2>3, <2>4, CanClaimFacts
<1> QED
  BY <1>3, <1>13, <1>14, <1>15 DEF X, r, p

----------------------------------------------------------------------------
(* The specification *)

(* pool, kept sound by every step, and an index that matches the orphans. *)
FilterInv(ties) ==
    /\ pool \in SoundPools(ties)
    /\ now \in Nat
    /\ blocks \in Seq(SUBSET DOMAIN Txn)
    /\ orphans \subseteq DOMAIN Txn
    /\ orphansByPrev \in Seq(Indexed)
    /\ IndexMatchesOrphans

LEMMA EntriesFacts ==
    ASSUME NEW txn \in DOMAIN Txn
    PROVE  /\ Entries(txn) \in Seq(Indexed)
           /\ \A e \in Elements(Entries(txn)) : e[2] = txn
           /\ \A out \in Ins(txn) : <<out[1], txn>> \in Elements(Entries(txn))
<1> DEFINE E == Entries(txn)
           ins == Txn[txn].ins
           n == Len(ins)
<1>1. ins \in Seq(Elements(ins))
  BY ClaimsAssumption
<1>2. n \in Nat /\ DOMAIN ins = 1..n
  BY <1>1
<1>3. E = [i \in 1..n |-> <<ins[i][1], txn>>]
  BY <1>2 DEF Entries
<1> HIDE DEF E, n
<1>4. DOMAIN E = 1..n /\ \A i \in 1..n : E[i] = <<ins[i][1], txn>>
  BY <1>3
<1>5. Elements(E) \subseteq Indexed
  BY DEF Indexed, E
<1>6. E \in [1..n -> Indexed]
  BY <1>3, <1>4, <1>5 DEF Elements
<1>7. E \in Seq(Indexed)
  BY <1>2, <1>6
<1>8. \A e \in Elements(E) : e[2] = txn
  BY <1>4 DEF Elements
<1>9. ASSUME NEW out \in Ins(txn) PROVE <<out[1], txn>> \in Elements(E)
  <2>1. PICK i \in 1..n : out = ins[i]
    BY <1>2 DEF Ins, Elements
  <2>2. E[i] = <<out[1], txn>>
    BY <1>4, <2>1
  <2> QED
    BY <1>4, <2>2 DEF Elements
<1> QED
  BY <1>7, <1>8, <1>9 DEF E

(* The elements of a sequence are at its places. *)
LEMMA ElementsAt ==
    ASSUME NEW V, NEW s \in Seq(V)
    PROVE  Elements(s) = {s[i] : i \in 1..Len(s)} /\ Elements(s) \subseteq V
BY DEF Elements

LEMMA EntriesOfElements ==
    ASSUME NEW index \in Seq(Indexed), NEW txns
    PROVE  /\ EntriesOf(index, txns) \in Seq(Indexed)
           /\ Elements(EntriesOf(index, txns)) = {e \in Elements(index) : e[2] \in txns}
<1> DEFINE S == {e \in Elements(index) : e[2] \in txns}
<1>1. Elements(index) \cap S = S
  OBVIOUS
<1> HIDE DEF S
<1>2. Among(index, S) \in Seq(Indexed) /\ Elements(Among(index, S)) = Elements(index) \cap S
  BY AmongElements
<1> QED
  BY <1>1, <1>2 DEF EntriesOf, S

LEMMA InvIsIndex ==
    ASSUME NEW ties, FilterInv(ties)
    PROVE  IsIndex
<1>1. orphansByPrev \in Seq(Indexed) /\ orphans \subseteq DOMAIN Txn
  BY DEF FilterInv
<1>2. ASSUME NEW o \in orphans, NEW out \in Ins(o)
      PROVE  \E i \in 1..Len(orphansByPrev) : orphansByPrev[i] = <<out[1], o>>
  <2>1. EntriesOf(orphansByPrev, {o}) = Entries(o)
    BY DEF FilterInv, IndexMatchesOrphans
  <2>2. <<out[1], o>> \in Elements(Entries(o))
    BY <1>1, EntriesFacts
  <2>3. <<out[1], o>> \in Elements(orphansByPrev)
    BY <1>1, <2>1, <2>2, EntriesOfElements
  <2> QED
    BY <1>1, <2>3, ElementsAt
<1> QED
  BY <1>1, <1>2 DEF IsIndex

(* What is claimed of the index, by its elements. *)
LEMMA IndexByElements ==
    ASSUME NEW index \in Seq(Indexed), NEW S
    PROVE  (\A i \in DOMAIN index : index[i][2] \in S) <=> (\A e \in Elements(index) : e[2] \in S)
BY DEF Elements

(* addOrphan() *)
LEMMA AddOrphanStep ==
    ASSUME NEW txn \in DOMAIN Txn, orphans \subseteq DOMAIN Txn, orphansByPrev \in Seq(Indexed),
           IndexMatchesOrphans, AddOrphan(txn)
    PROVE  /\ orphans' \subseteq DOMAIN Txn
           /\ orphansByPrev' \in Seq(Indexed)
           /\ IndexMatchesOrphans'
<1>1. orphans' = orphans \cup {txn}
  BY DEF AddOrphan
<1>2. CASE txn \in orphans
  <2>1. orphans' = orphans /\ orphansByPrev' = orphansByPrev
    BY <1>1, <1>2 DEF AddOrphan
  <2> QED
    BY <2>1 DEF IndexMatchesOrphans
<1>3. CASE txn \notin orphans
  <2> DEFINE s == orphansByPrev
             E == Entries(txn)
             r == s \o E
             Of(i, o) == {e \in Elements(i) : e[2] \in {o}}
  <2>1. orphansByPrev' = r
    BY <1>3 DEF AddOrphan
  <2>2. /\ E \in Seq(Indexed)
        /\ \A e \in Elements(E) : e[2] = txn
    BY EntriesFacts
  <2>3. \A e \in Elements(s) : e[2] \in orphans
    BY DEF IndexMatchesOrphans, Elements
  <2>4. \A o \in orphans : Among(s, Of(s, o)) = Entries(o)
    BY DEF IndexMatchesOrphans, EntriesOf
  <2> HIDE DEF E
  <2>5. r \in Seq(Indexed) /\ Elements(r) = Elements(s) \cup Elements(E)
    <3>1. /\ r \in Seq(Indexed) /\ Len(r) = Len(s) + Len(E) /\ Len(s) \in Nat /\ Len(E) \in Nat
          /\ \A i \in 1..Len(s) : r[i] = s[i]
          /\ \A i \in 1..Len(E) : r[Len(s) + i] = E[i]
      BY <2>2
    <3> HIDE DEF r
    <3>2. Elements(r) \subseteq Elements(s) \cup Elements(E)
      <4>1. ASSUME NEW i \in 1..Len(r) PROVE r[i] \in Elements(s) \cup Elements(E)
        <5>1. CASE i <= Len(s)
          <6>1. i \in 1..Len(s)
            BY <3>1, <5>1
          <6>2. r[i] = s[i] /\ s[i] \in Elements(s)
            BY <3>1, <6>1, ElementsAt
          <6> QED
            BY <6>2
        <5>2. CASE ~(i <= Len(s))
          <6> DEFINE j == i - Len(s)
          <6>1. j \in 1..Len(E) /\ Len(s) + j = i
            BY <3>1, <5>2
          <6>2. r[i] = E[j]
            BY <3>1, <6>1
          <6>3. E[j] \in Elements(E)
            BY <2>2, <6>1, ElementsAt
          <6> QED
            BY <6>2, <6>3
        <5> QED
          BY <5>1, <5>2
      <4> QED
        BY <3>1, <4>1, ElementsAt
    <3>3. ASSUME NEW e \in Elements(s) PROVE e \in Elements(r)
      <4>1. PICK i \in 1..Len(s) : e = s[i]
        BY ElementsAt
      <4>2. i \in 1..Len(r) /\ r[i] = e
        BY <3>1, <4>1
      <4> QED
        BY <3>1, <4>2, ElementsAt
    <3>4. ASSUME NEW e \in Elements(E) PROVE e \in Elements(r)
      <4>1. PICK i \in 1..Len(E) : e = E[i]
        BY <2>2, ElementsAt
      <4>2. Len(s) + i \in 1..Len(r) /\ r[Len(s) + i] = e
        BY <3>1, <4>1
      <4> QED
        BY <3>1, <4>2, ElementsAt
    <3> QED
      BY <3>1, <3>2, <3>3, <3>4
  <2> HIDE DEF s
  <2>6. ASSUME NEW S PROVE Among(r, S) = Among(s, S) \o Among(E, S)
    BY <2>2, AmongConcat DEF s
  <2>7. ASSUME NEW S PROVE Among(s, S) \in Seq(Indexed) /\ Among(E, S) \in Seq(Indexed)
    BY <2>2, AmongElements DEF s
  <2> HIDE DEF r
  <2>8. ASSUME NEW o \in orphans' PROVE Among(r, Of(r, o)) = Entries(o)
    <3>1. CASE o = txn
      <4> DEFINE S == Of(r, o)
      <4>1. Elements(s) \cap S = {}
        BY <1>3, <2>3, <3>1
      <4>2. Elements(E) \subseteq S
        BY <2>2, <2>5, <3>1
      <4> HIDE DEF S
      <4>3. Among(s, S) = << >>
        BY <4>1, AmongNone DEF s
      <4>4. Among(E, S) = E
        BY <2>2, <4>2, AmongAll
      <4>5. << >> \o E = E
        BY <2>2
      <4> QED
        BY <2>6, <3>1, <4>3, <4>4, <4>5 DEF S, E
    <3>2. CASE o # txn
      <4> DEFINE S == Of(r, o)
                 R == Of(s, o)
      <4>1. Elements(E) \cap S = {}
        BY <2>2, <3>2
      <4>2. \A e \in Elements(s) : e \in S <=> e \in R
        BY <2>5
      <4>3. Among(s, R) = Entries(o)
        BY <1>1, <2>4, <3>2
      <4> HIDE DEF S, R
      <4>4. Among(E, S) = << >>
        BY <2>2, <4>1, AmongNone
      <4>5. Among(s, S) = Among(s, R)
        BY <4>2, AmongSame DEF s
      <4>6. Among(s, S) \o << >> = Among(s, S)
        BY <2>7
      <4> QED
        BY <2>6, <4>3, <4>4, <4>5, <4>6 DEF S
    <3> QED
      BY <3>1, <3>2
  <2>9. \A e \in Elements(r) : e[2] \in orphans'
    BY <1>1, <2>2, <2>3, <2>5
  <2>10. \A i \in DOMAIN r : r[i][2] \in orphans'
    BY <2>5, <2>9, IndexByElements
  <2>11. \A o \in orphans' : EntriesOf(r, {o}) = Entries(o)
    BY <2>8 DEF EntriesOf
  <2>12. IndexMatchesOrphans'
    BY <2>1, <2>10, <2>11 DEF IndexMatchesOrphans
  <2> QED
    BY <1>1, <2>1, <2>5, <2>12
<1> QED
  BY <1>2, <1>3

(* eraseOrphan() of the transactions of the queue *)
LEMMA EraseOrphansStep ==
    ASSUME NEW txns, orphans \subseteq DOMAIN Txn, orphansByPrev \in Seq(Indexed),
           IndexMatchesOrphans, EraseOrphans(txns)
    PROVE  /\ orphans' \subseteq DOMAIN Txn
           /\ orphansByPrev' \in Seq(Indexed)
           /\ IndexMatchesOrphans'
<1> DEFINE s == orphansByPrev
           R == DOMAIN Txn \ (txns \cap orphans)
           r == EntriesOf(s, R)
<1>1. orphans' = orphans \ txns /\ orphansByPrev' = r
  BY DEF EraseOrphans
<1>2. r \in Seq(Indexed) /\ Elements(r) = {e \in Elements(s) : e[2] \in R}
  BY EntriesOfElements
<1>3. \A e \in Elements(s) : e[2] \in orphans
  BY DEF IndexMatchesOrphans, Elements
<1>4. \A e \in Elements(r) : e[2] \in orphans'
  <2> HIDE DEF r
  <2> QED
    BY <1>1, <1>2, <1>3
<1>5. \A i \in DOMAIN r : r[i][2] \in orphans'
  <2> HIDE DEF r
  <2> QED
    BY <1>2, <1>4, IndexByElements
<1>6. ASSUME NEW o \in orphans' PROVE EntriesOf(r, {o}) = Entries(o)
  <2> DEFINE A == {e \in Elements(s) : e[2] \in R}
             B == {e \in Elements(r) : e[2] \in {o}}
             C == {e \in Elements(s) : e[2] \in {o}}
  <2>1. r = Among(s, A)
    BY DEF EntriesOf
  <2> HIDE DEF r
  <2>2. o \in orphans /\ o \in R
    BY <1>1
  <2>3. \A e \in Elements(s) : e \in A \cap B <=> e \in C
    BY <1>2, <2>2
  <2>4. Among(s, C) = Entries(o)
    BY <2>2 DEF IndexMatchesOrphans, EntriesOf
  <2>5. EntriesOf(r, {o}) = Among(r, B)
    BY DEF EntriesOf
  <2> HIDE DEF A, B, C, s
  <2>6. s \in Seq(Indexed)
    BY DEF s
  <2>7. Among(Among(s, A), B) = Among(s, A \cap B)
    BY <2>6, AmongTwice
  <2>8. Among(s, A \cap B) = Among(s, C)
    BY <2>3, <2>6, AmongSame
  <2> QED
    BY <2>1, <2>4, <2>5, <2>7, <2>8
<1> HIDE DEF r
<1>7. IndexMatchesOrphans'
  BY <1>1, <1>5, <1>6 DEF IndexMatchesOrphans
<1> QED
  BY <1>1, <1>2, <1>7

LEMMA SetPoolFacts ==
    ASSUME NEW ties, NEW p \in SoundPools(ties), SetPool(p)
    PROVE  pool' = p
<1>1. p = [confirmations |-> p.confirmations, priorities |-> p.priorities, spents |-> p.spents]
  BY DEF SoundPools, Pools
<1> QED
  BY <1>1 DEF SetPool, pool

(* Detached transactions, in any order. *)
LEMMA OrderType ==
    ASSUME NEW txns \in SUBSET DOMAIN Txn, NEW order \in SetToSeqs(txns)
    PROVE  order \in Seq(DOMAIN Txn)
<1> DEFINE n == Cardinality(txns)
<1>1. IsFiniteSet(txns)
  BY ClaimsAssumption, FS_Subset
<1>2. n \in Nat
  BY <1>1, FS_CardinalityType
<1>3. order \in [1..n -> txns]
  BY DEF SetToSeqs
<1> HIDE DEF n
<1>4. order \in [1..n -> DOMAIN Txn]
  BY <1>3
<1> QED
  BY <1>2, <1>4

(* The end of append() *)
LEMMA SettleStep ==
    ASSUME NEW ties, FilterInv(ties), ties = "excluded" => NoTies(pool),
           NEW bs \in Seq(SUBSET DOMAIN Txn), NEW confirmed, NEW unconfirmed \in SUBSET DOMAIN Txn,
           Settle(bs, confirmed, unconfirmed), UNCHANGED filter
    PROVE  FilterInv(ties)'
<1> DEFINE p == EraseClaims(pool, confirmed)
           old == {txn \in DOMAIN p.confirmations : p.confirmations[txn].ts < now - Day}
           q == EraseClaims(p, old)
<1>1. PICK order \in SetToSeqs(unconfirmed) : SetPool(Reclaim(q, order, bs))
  BY DEF Settle, Purge
<1>2. pool \in Pools /\ Coherent(pool) /\ now \in Int
      /\ (ties = "excluded" => NoTies(pool) /\ Complete(pool))
  BY DEF FilterInv, SoundPools
<1>3. /\ p \in Pools /\ Coherent(p)
      /\ ties = "excluded" => NoTies(p) /\ Complete(p)
  BY <1>2, EraseClaimsFacts
<1> HIDE DEF p, old
<1>4. /\ q \in Pools /\ Coherent(q)
      /\ ties = "excluded" => NoTies(q) /\ Complete(q)
  BY <1>3, EraseClaimsFacts
<1> HIDE DEF q
<1>5. q \in SoundPools(ties)
  BY <1>4 DEF SoundPools
<1>6. order \in Seq(DOMAIN Txn)
  BY OrderType
<1> DEFINE r == Reclaim(q, order, bs)
<1>7. r \in SoundPools(ties)
  BY <1>2, <1>5, <1>6, ReclaimSound
<1> HIDE DEF r
<1>8. pool' = r
  BY <1>1, <1>7, SetPoolFacts DEF r
<1>9. /\ blocks' = bs /\ now' = now /\ orphans' = orphans /\ orphansByPrev' = orphansByPrev
  BY DEF Settle, filter
<1>10. IndexMatchesOrphans'
  BY <1>9 DEF FilterInv, IndexMatchesOrphans
<1> QED
  BY <1>7, <1>8, <1>9, <1>10 DEF FilterInv

LEMMA BlockStep ==
    ASSUME NEW ties, FilterInv(ties), ties = "excluded" => NoTies(pool),
           NEW txns \in SUBSET DOMAIN Txn, AppendBlock(txns) \/ Reorganize(txns), UNCHANGED filter
    PROVE  FilterInv(ties)'
<1>1. blocks \in Seq(SUBSET DOMAIN Txn)
  BY DEF FilterInv
<1>2. CASE AppendBlock(txns)
  <2> DEFINE bs == Append(blocks, txns)
             none == {}
  <2>1. bs \in Seq(SUBSET DOMAIN Txn) /\ none \in SUBSET DOMAIN Txn
    BY <1>1
  <2>2. Settle(bs, txns, none)
    BY <1>2 DEF AppendBlock
  <2> HIDE DEF bs, none
  <2> QED
    BY <2>1, <2>2, SettleStep
<1>3. CASE Reorganize(txns)
  <2> DEFINE rest == Front(blocks)
             bs == Append(rest, txns)
             back == Last(blocks) \ txns
  <2>1. blocks # << >> /\ Settle(bs, txns, back)
    BY <1>3 DEF Reorganize
  <2>2. Len(blocks) \in Nat \ {0}
    BY <1>1, <2>1
  <2>3. rest \in Seq(SUBSET DOMAIN Txn)
    BY <1>1, <2>2 DEF Front
  <2>4. Last(blocks) \in SUBSET DOMAIN Txn
    BY <1>1, <2>2 DEF Last
  <2>5. back \in SUBSET DOMAIN Txn
    BY <2>4
  <2> HIDE DEF rest, back
  <2>6. bs \in Seq(SUBSET DOMAIN Txn)
    BY <2>3
  <2> HIDE DEF bs
  <2> QED
    BY <2>1, <2>5, <2>6, SettleStep
<1> QED
  BY <1>2, <1>3

(* The two outcomes of process() that change something. *)
LEMMA ProcessCases ==
    ASSUME NEW txn, Process(txn)
    PROVE  /\ txn \notin DOMAIN confirmations
           /\ blocks' = blocks /\ now' = now
           /\ \/ /\ CanClaim(pool, txn, blocks)
                 /\ SetPool(Accept(txn).pool)
                 /\ EraseOrphans(Elements(Accept(txn).work))
              \/ /\ Rejects(pool, txn, blocks)
                 /\ AddOrphan(txn)
                 /\ pool' = pool
BY DEF Process, pool

LEMMA ProcessStep ==
    ASSUME NEW ties, FilterInv(ties), NEW txn \in DOMAIN Txn, Process(txn)
    PROVE  FilterInv(ties)'
<1>1. /\ pool \in SoundPools(ties) /\ now \in Int
      /\ orphans \subseteq DOMAIN Txn /\ orphansByPrev \in Seq(Indexed) /\ IndexMatchesOrphans
  BY DEF FilterInv
<1>2. blocks' = blocks /\ now' = now
  BY ProcessCases
<1>3. CASE /\ CanClaim(pool, txn, blocks)
           /\ SetPool(Accept(txn).pool)
           /\ EraseOrphans(Elements(Accept(txn).work))
  <2>1. Accept(txn) \in Works(ties, pool)
    BY <1>1, <1>3, InvIsIndex, AcceptFacts
  <2>2. Accept(txn).pool \in SoundPools(ties)
    BY <2>1 DEF Works
  <2>3. pool' \in SoundPools(ties)
    BY <1>3, <2>2, SetPoolFacts
  <2>4. /\ orphans' \subseteq DOMAIN Txn /\ orphansByPrev' \in Seq(Indexed)
        /\ IndexMatchesOrphans'
    BY <1>1, <1>3, EraseOrphansStep
  <2> QED
    BY <1>2, <2>3, <2>4 DEF FilterInv
<1>4. CASE AddOrphan(txn) /\ pool' = pool
  <2>1. /\ orphans' \subseteq DOMAIN Txn /\ orphansByPrev' \in Seq(Indexed)
        /\ IndexMatchesOrphans'
    BY <1>1, <1>4, AddOrphanStep
  <2> QED
    BY <1>2, <1>4, <2>1 DEF FilterInv
<1> QED
  BY <1>3, <1>4, ProcessCases

LEMMA InitFilterInv ==
    ASSUME NEW ties, FilterInit
    PROVE  FilterInv(ties)
<1> DEFINE e == << >>
<1>1. /\ pool = [confirmations |-> e, priorities |-> {}, spents |-> {}]
      /\ now = 0 /\ blocks = e /\ orphans = {} /\ orphansByPrev = e
  BY DEF FilterInit, ClaimsInit, pool
<1>2. DOMAIN e = {} /\ e \in [{} -> Claim]
  OBVIOUS
<1>3. e \in Confirmations
  BY <1>2, ConfirmationsType
<1>4. e \in Seq(SUBSET DOMAIN Txn) /\ e \in Seq(Indexed)
  OBVIOUS
<1> HIDE DEF e
<1>5. pool \in Pools /\ pool.confirmations = e /\ pool.priorities = {} /\ pool.spents = {}
  BY <1>1, <1>3 DEF Pools
<1>6. Coherent(pool) /\ Complete(pool)
  BY <1>2, <1>5 DEF Coherent, Complete
<1>7. IndexMatchesOrphans
  BY <1>1, <1>2 DEF IndexMatchesOrphans
<1> QED
  BY <1>1, <1>4, <1>5, <1>6, <1>7 DEF FilterInv, SoundPools

LEMMA NextFilterInv ==
    ASSUME NEW ties, FilterInv(ties), ties = "excluded" => NoTies(pool), [FilterNext]_filterVars
    PROVE  FilterInv(ties)'
<1>1. CASE \E txn \in DOMAIN Txn : Process(txn)
  BY <1>1, ProcessStep
<1>2. CASE \E txns \in SUBSET DOMAIN Txn :
              (AppendBlock(txns) \/ Reorganize(txns)) /\ UNCHANGED filter
  BY <1>2, BlockStep
<1>3. CASE Tick /\ UNCHANGED filter
  <2>1. /\ pool' = pool /\ blocks' = blocks /\ orphans' = orphans
        /\ orphansByPrev' = orphansByPrev /\ now' = now + 1
    BY <1>3 DEF Tick, pool, filter
  <2>2. now' \in Nat
    BY <2>1 DEF FilterInv
  <2> QED
    BY <2>1, <2>2 DEF FilterInv, IndexMatchesOrphans
<1>4. CASE UNCHANGED filterVars
  <2>1. /\ pool' = pool /\ blocks' = blocks /\ orphans' = orphans
        /\ orphansByPrev' = orphansByPrev /\ now' = now
    BY <1>4 DEF filterVars, claimsVars, filter, pool
  <2> QED
    BY <2>1 DEF FilterInv, IndexMatchesOrphans
<1> QED
  BY <1>1, <1>2, <1>3, <1>4 DEF FilterNext

(* The coins marked as spent are those of the claims, each spent by one of  *)
(* them, and the order of preference holds no transaction that is not       *)
(* claimed, through claims, confirmations, expiry and reorganisations: a    *)
(* coin is neither locked for ever nor claimed twice, and the comparator of *)
(* the order always finds what it compares (Claims.cpp, Claims.h).          *)
THEOREM SpentsExact ==
    FilterSpec => [](SpentsAreInputs /\ priorities \subseteq DOMAIN confirmations)
<1>1. FilterInit => FilterInv("allowed")
  BY InitFilterInv
<1>2. FilterInv("allowed") /\ [FilterNext]_filterVars => FilterInv("allowed")'
  BY NextFilterInv
<1>3. FilterInv("allowed") => SpentsAreInputs /\ priorities \subseteq DOMAIN confirmations
  BY DEF FilterInv, SoundPools, Coherent, SpentsAreInputs, pool
<1> QED
  BY <1>1, <1>2, <1>3, PTL DEF FilterSpec

(* The three containers agree as long as no two claims are equivalent in    *)
(* the order of preference: ties are the only way for a claim to be in no   *)
(* template (Claims.h, Priorities).                                         *)
THEOREM ClaimsAgreeWithoutTies == FilterSpec /\ []NoTies(pool) => []ClaimsAgree
<1>1. FilterInit => FilterInv("excluded")
  BY InitFilterInv
<1>2. FilterInv("excluded") /\ NoTies(pool) /\ [FilterNext]_filterVars => FilterInv("excluded")'
  BY NextFilterInv
<1>3. FilterInv("excluded") /\ NoTies(pool) => ClaimsAgree
  BY DEF FilterInv, SoundPools, Coherent, Complete, ClaimsAgree, PrioritiesMatchClaims,
         SpentsAreInputs, pool
<1> QED
  BY <1>1, <1>2, <1>3, PTL DEF FilterSpec

(* The index of orphans by parent has an entry for each input of each       *)
(* orphan and no other, however orphans are added and erased                *)
(* (TransactionFilter.cpp).                                                 *)
THEOREM IndexExact == FilterSpec => []IndexMatchesOrphans
<1>1. FilterInit => FilterInv("allowed")
  BY InitFilterInv
<1>2. FilterInv("allowed") /\ [FilterNext]_filterVars => FilterInv("allowed")'
  BY NextFilterInv
<1>3. FilterInv("allowed") => IndexMatchesOrphans
  BY DEF FilterInv
<1> QED
  BY <1>1, <1>2, <1>3, PTL DEF FilterSpec

(* What process() leaves of the orphans. *)
LEMMA ProcessRetries ==
    ASSUME NEW ties, FilterInv(ties), NEW txn \in DOMAIN Txn, Process(txn),
           NEW o \in orphans', Settled(pool', o)
    PROVE  o \in orphans /\ Settled(pool, o)
<1>1. pool \in SoundPools(ties) /\ now \in Int /\ orphans \subseteq DOMAIN Txn
  BY DEF FilterInv
<1>2. CASE /\ CanClaim(pool, txn, blocks)
           /\ SetPool(Accept(txn).pool)
           /\ EraseOrphans(Elements(Accept(txn).work))
  <2> DEFINE s == Accept(txn)
  <2>1. /\ s \in Works(ties, pool)
        /\ \A q \in orphans : CanClaim(s.pool, q, blocks) => CanClaim(pool, q, blocks)
    BY <1>1, <1>2, InvIsIndex, AcceptFacts
  <2>2. o \in orphans /\ o \notin Elements(s.work)
    BY <1>2 DEF EraseOrphans
  <2> HIDE DEF s
  <2>3. pool' = s.pool
    <3>1. s.pool \in SoundPools(ties)
      BY <2>1 DEF Works
    <3> QED
      BY <1>2, <3>1, SetPoolFacts DEF s
  <2>4. o \in DOMAIN s.pool.confirmations \/ CanClaim(s.pool, o, blocks)
    BY <2>3 DEF Settled
  <2>5. o \in DOMAIN s.pool.confirmations => o \in DOMAIN pool.confirmations
    BY <2>1, <2>2 DEF Works
  <2> QED
    BY <2>1, <2>2, <2>4, <2>5 DEF Settled
<1>3. CASE Rejects(pool, txn, blocks) /\ AddOrphan(txn) /\ pool' = pool
  <2>1. Settled(pool, o)
    BY <1>3
  <2>2. ASSUME o = txn PROVE FALSE
    <3>1. txn \notin DOMAIN pool.confirmations
      BY ProcessCases DEF pool
    <3>2. CanClaim(pool, txn, blocks)
      BY <2>1, <2>2, <3>1 DEF Settled
    <3>3. PICK i \in DOMAIN Txn[txn].ins : Missing(pool, txn, i, blocks)
      BY <1>3 DEF Rejects
    <3>4. Txn[txn].ins[i] \in Ins(txn)
      BY DEF Ins, Elements
    <3> QED
      BY <3>2, <3>3, <3>4 DEF CanClaim, Missing
  <2> QED
    BY <1>3, <2>1, <2>2 DEF AddOrphan
<1> QED
  BY <1>2, <1>3, ProcessCases

(* When process() accepts a transaction, every orphan that this makes       *)
(* claimable is accepted with it, however many generations away and         *)
(* whatever else its parents wait for; no orphan that is accepted stays one *)
(* (TransactionFilter.cpp).                                                 *)
THEOREM OrphansRetried == FilterSpec => OrphansAreRetried
<1>1. FilterInit => FilterInv("allowed")
  BY InitFilterInv
<1>2. FilterInv("allowed") /\ [FilterNext]_filterVars => FilterInv("allowed")'
  BY NextFilterInv
<1>3. FilterInv("allowed") /\ [FilterNext]_filterVars =>
        [\A txn \in DOMAIN Txn : Process(txn) =>
            \A o \in orphans' : Settled(pool', o) => o \in orphans /\ Settled(pool, o)]_filterVars
  BY ProcessRetries
<1> QED
  BY <1>1, <1>2, <1>3, PTL DEF FilterSpec, OrphansAreRetried
=============================================================================
