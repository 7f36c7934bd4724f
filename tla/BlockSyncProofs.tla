--------------------------- MODULE BlockSyncProofs ---------------------------
(***************************************************************************)
(* That the client's tree stays connected, and that a connection on which  *)
(* nothing is under way is done, for every length of the chains and of the *)
(* batches, however often the connection breaks.                           *)
(***************************************************************************)
EXTENDS BlockSync, FiniteSetTheorems, NaturalsInduction, WellFoundedInduction, TLAPS

(* Every nonempty set of natural numbers has a least element. *)
LEMMA LeastElement ==
    ASSUME NEW T, T \subseteq Nat, T # {}
    PROVE  \E x \in T : \A y \in T : x <= y
<1>1. IsWellFoundedOn(OpToRel(<, Nat), Nat)
  BY NatLessThanWellFounded
<1>2. PICK x \in T : \A y \in T : ~(<<y, x>> \in OpToRel(<, Nat))
  BY <1>1, WFMin
<1>3. ASSUME NEW y \in T PROVE x <= y
  <2>1. ~(y < x)
    BY <1>2 DEF OpToRel
  <2> QED
    BY <2>1
<1> QED
  BY <1>3

----------------------------------------------------------------------------
(* What is on the way, and what the client holds.                           *)

Positive == Nat \ {0}

Requests == [cmd : {"getblocks"}, from : Int, stop : Nat]
                \cup [cmd : {"getdata"}, invs : Seq(Nat)]

Answers == [cmd : {"inv"}, invs : Seq(Nat)] \cup [cmd : {"block"}, block : Nat]

(* Every block is where it belongs, as OrphansAreDisconnected says. *)
Connected(h, b, o) ==
    /\ \A x \in h \ {0} : Prev(x) \in h
    /\ \A x \in o : x \notin h /\ Prev(x) \notin h
    /\ b \in h
    /\ \A x \in h : Height(x) <= Height(b)

(* A tree h from the first block, its best block b, and orphans o, which    *)
(* are of the server's chain.                                               *)
IsTree(h, b, o) ==
    /\ h \subseteq Int /\ 0 \in h
    /\ b \in Int
    /\ o \subseteq Positive /\ IsFiniteSet(o)
    /\ Connected(h, b, o)

IsRecord(c) ==
    c = [have |-> c.have, best |-> c.best, orphans |-> c.orphans, ready |-> c.ready,
         later |-> c.later, asked |-> c.asked, last |-> c.last, unsent |-> c.unsent]

IsClient(c) ==
    /\ IsRecord(c)
    /\ IsTree(c.have, c.best, c.orphans)
    /\ c.ready \in Seq(Nat)
    /\ c.later \in Seq(Nat)
    /\ c.unsent \in Seq(Requests)

----------------------------------------------------------------------------
(* The operations of the client.                                            *)

(* The root of an orphan is the first of the orphans that lead to it. *)
LEMMA OrphanRootFacts ==
    ASSUME NEW o, o \subseteq Positive, NEW b \in Positive
    PROVE  /\ OrphanRoot(o, b) \in 1..b /\ OrphanRoot(o, b) \in Nat
           /\ \A x \in (OrphanRoot(o, b) + 1)..b : Prev(x) \in o
           /\ Prev(OrphanRoot(o, b)) \notin o
<1> DEFINE T == {r \in 1..b : \A x \in (r + 1)..b : Prev(x) \in o}
<1>1. T \subseteq Nat /\ b \in T
  BY DEF Positive
<1>2. PICK r \in T : \A y \in T : r <= y
  BY <1>1, LeastElement
<1>3. r \in 1..b /\ \A x \in (r + 1)..b : Prev(x) \in o
  BY <1>2
<1>4. Prev(r) \notin o
  <2> SUFFICES ASSUME Prev(r) \in o PROVE FALSE
    OBVIOUS
  <2>1. Prev(r) = r - 1 /\ r - 1 \in 1..b
    <3>1. Prev(r) = r - 1
      BY <1>3 DEF Prev, Positive
    <3>2. r - 1 # 0
      BY <3>1 DEF Positive
    <3> QED
      BY <1>3, <3>1, <3>2 DEF Positive
  <2>2. \A x \in (r - 1 + 1)..b : x = r \/ x \in (r + 1)..b
    BY <1>3 DEF Positive
  <2>3. r - 1 \in T
    BY <1>3, <2>1, <2>2
  <2> QED
    BY <1>2, <1>3, <2>3 DEF Positive
<1>5. \E q \in 1..b : (\A x \in (q + 1)..b : Prev(x) \in o) /\ Prev(q) \notin o
  BY <1>3, <1>4
<1>6. /\ OrphanRoot(o, b) \in 1..b
      /\ \A x \in (OrphanRoot(o, b) + 1)..b : Prev(x) \in o
      /\ Prev(OrphanRoot(o, b)) \notin o
  BY <1>5 DEF OrphanRoot
<1> QED
  BY <1>6 DEF Positive

(* PushGetBlocks() changes only what was last asked for and what is sent. *)
LEMMA PushGetBlocksOK ==
    ASSUME NEW c, IsClient(c), NEW stop \in Nat
    PROVE  IsClient(PushGetBlocks(c, stop))
<1> DEFINE d == PushGetBlocks(c, stop)
           l == <<c.best, stop>>
           u == Append(c.unsent, GetBlocks(c.best, stop))
<1>1. CASE c.last = l
  BY <1>1 DEF PushGetBlocks
<1>2. CASE c.last # l
  <2>1. u \in Seq(Requests)
    BY DEF IsClient, IsTree, GetBlocks, Requests
  <2>2. d = [c EXCEPT !.last = l, !.unsent = u]
    BY <1>2 DEF PushGetBlocks
  <2> HIDE DEF d, l, u
  <2>3. d = [have |-> c.have, best |-> c.best, orphans |-> c.orphans, ready |-> c.ready,
             later |-> c.later, asked |-> c.asked, last |-> l, unsent |-> u]
    BY <2>2 DEF IsClient, IsRecord
  <2>4. IsClient(d)
    BY <2>1, <2>3 DEF IsClient, IsRecord
  <2> QED
    BY <2>4 DEF d
<1> QED
  BY <1>1, <1>2

(* Peer::queue() *)
LEMMA QueueOK ==
    ASSUME NEW c, IsClient(c), NEW b \in Nat
    PROVE  IsClient(Queue(c, b))
<1> DEFINE due == b \in DOMAIN c.asked => c.asked[b]
           a == [x \in DOMAIN c.asked \cup {b} |-> IF x = b THEN FALSE ELSE c.asked[x]]
           r == IF due THEN Append(c.ready, b) ELSE c.ready
           l == IF due THEN c.later ELSE Append(c.later, b)
           d == Queue(c, b)
<1>1. r \in Seq(Nat) /\ l \in Seq(Nat)
  BY DEF IsClient
<1>2. d = [c EXCEPT !.asked = a, !.ready = r, !.later = l]
  BY DEF Queue
<1> HIDE DEF a, r, l, d
<1>3. d = [have |-> c.have, best |-> c.best, orphans |-> c.orphans, ready |-> r,
           later |-> l, asked |-> a, last |-> c.last, unsent |-> c.unsent]
  BY <1>2 DEF IsClient, IsRecord
<1>4. IsClient(d)
  BY <1>1, <1>3 DEF IsClient, IsRecord
<1> QED
  BY <1>4 DEF d

(* An inventory of the inv message. *)
LEMMA HandleInvOK ==
    ASSUME NEW c, IsClient(c), NEW b \in Nat
    PROVE  IsClient(HandleInv(c, b))
<1>1. CASE b \in c.orphans
  <2>1. c.orphans \subseteq Positive
    BY DEF IsClient, IsTree
  <2>2. OrphanRoot(c.orphans, b) \in Nat
    BY <1>1, <2>1, OrphanRootFacts
  <2> QED
    BY <1>1, <2>2, PushGetBlocksOK DEF HandleInv
<1>2. CASE b \notin c.orphans /\ b \in c.have
  BY <1>2 DEF HandleInv
<1>3. CASE b \notin c.orphans /\ b \notin c.have
  BY <1>3, QueueOK DEF HandleInv
<1> QED
  BY <1>1, <1>2, <1>3

(* The inventories of a message are handled one after the other. *)
LEMMA HandleInvsSteps ==
    ASSUME NEW c, NEW invs \in Seq(Nat)
    PROVE  \E F : /\ F[0] = c /\ HandleInvs(c, invs) = F[Len(invs)]
                 /\ \A i \in 1..Len(invs) : F[i] = HandleInv(F[i - 1], invs[i])
<1> DEFINE D == 0..Len(invs)
           Step(f, i) == IF i = 0 THEN c ELSE HandleInv(f[i - 1], invs[i])
           Defined(n) == \E f : f = [i \in 0..n |-> Step(f, i)]
           F == CHOOSE f : f = [i \in D |-> Step(f, i)]
<1>1. ASSUME NEW n \in Nat, n > 0 => Defined(n - 1)
      PROVE  Defined(n)
  <2>1. CASE n = 0
    <3> DEFINE f == [i \in 0..n |-> c]
    <3>1. f = [i \in 0..n |-> Step(f, i)]
      BY <2>1
    <3> QED
      BY <3>1
  <2>2. CASE n > 0
    <3>1. PICK f : f = [i \in 0..(n - 1) |-> Step(f, i)]
      BY <1>1, <2>2
    <3> DEFINE g == [i \in 0..n |-> Step(f, i)]
    <3>2. ASSUME NEW i \in 0..n, i # 0
          PROVE  g[i - 1] = f[i - 1]
      <4>1. i - 1 \in 0..(n - 1) /\ i - 1 \in 0..n
        BY <3>2
      <4> QED
        BY <3>1, <4>1
    <3>3. g = [i \in 0..n |-> Step(g, i)]
      BY <3>2
    <3> QED
      BY <3>3
  <2> HIDE DEF Defined
  <2> QED
    BY <2>1, <2>2
<1>2. \A n \in Nat : Defined(n)
  <2> DEFINE T == {n \in Nat : ~Defined(n)}
  <2> HIDE DEF Defined
  <2>1. SUFFICES ASSUME T # {} PROVE FALSE
    OBVIOUS
  <2>2. PICK n \in T : \A k \in T : n <= k
    BY <2>1, LeastElement
  <2>3. n > 0 => Defined(n - 1)
    BY <2>2
  <2> QED
    BY <1>1, <2>2, <2>3
<1>3. \E f : f = [i \in D |-> Step(f, i)]
  <2> HIDE DEF Defined
  <2>1. Len(invs) \in Nat
    OBVIOUS
  <2>2. Defined(Len(invs))
    BY <1>2, <2>1
  <2> QED
    BY <2>2 DEF Defined
<1>4. F = [i \in D |-> Step(F, i)]
  BY <1>3
<1>5. HandleInvs(c, invs) = F[Len(invs)]
  BY DEF HandleInvs
<1> HIDE DEF F
<1>6. \A i \in D : F[i] = Step(F, i)
  BY <1>4
<1>7. F[0] = c /\ \A i \in 1..Len(invs) : F[i] = HandleInv(F[i - 1], invs[i])
  <2>1. 0 \in D /\ \A i \in 1..Len(invs) : i \in D /\ i # 0
    OBVIOUS
  <2> QED
    BY <1>6, <2>1
<1> QED
  BY <1>5, <1>7

(* The inv message. *)
LEMMA HandleInvsOK ==
    ASSUME NEW c, IsClient(c), NEW invs \in Seq(Nat)
    PROVE  IsClient(HandleInvs(c, invs))
<1>1. PICK F : /\ F[0] = c /\ HandleInvs(c, invs) = F[Len(invs)]
               /\ \A i \in 1..Len(invs) : F[i] = HandleInv(F[i - 1], invs[i])
  BY HandleInvsSteps
<1> DEFINE T == {i \in 0..Len(invs) : ~IsClient(F[i])}
<1>2. SUFFICES ASSUME T # {} PROVE FALSE
  <2>1. Len(invs) \in 0..Len(invs)
    OBVIOUS
  <2> QED
    BY <1>1, <2>1
<1>3. T \subseteq Nat
  OBVIOUS
<1>4. PICK i \in T : \A k \in T : i <= k
  <2> HIDE DEF T
  <2> QED
    BY <1>2, <1>3, LeastElement
<1>5. i # 0
  BY <1>1, <1>4
<1>6. i \in 1..Len(invs) /\ i - 1 \in 0..Len(invs) /\ i - 1 \notin T /\ invs[i] \in Nat
  BY <1>4, <1>5
<1>7. IsClient(F[i - 1]) /\ F[i] = HandleInv(F[i - 1], invs[i])
  BY <1>1, <1>6
<1>8. IsClient(F[i])
  BY <1>6, <1>7, HandleInvOK
<1> QED
  BY <1>4, <1>8

(* dequeue() *)
LEMMA DequeueOK ==
    ASSUME NEW c, IsClient(c), NEW b
    PROVE  /\ IsClient(Dequeue(c, b))
           /\ Dequeue(c, b).have = c.have
           /\ Dequeue(c, b).best = c.best
           /\ Dequeue(c, b).orphans = c.orphans
<1> DEFINE a == [x \in DOMAIN c.asked \ {b} |-> c.asked[x]]
           d == Dequeue(c, b)
<1>1. d = [c EXCEPT !.asked = a]
  BY DEF Dequeue
<1> HIDE DEF a, d
<1>2. d = [have |-> c.have, best |-> c.best, orphans |-> c.orphans, ready |-> c.ready,
           later |-> c.later, asked |-> a, last |-> c.last, unsent |-> c.unsent]
  BY <1>1 DEF IsClient, IsRecord
<1>3. IsClient(d) /\ d.have = c.have /\ d.best = c.best /\ d.orphans = c.orphans
  BY <1>2 DEF IsClient, IsRecord
<1> QED
  BY <1>3 DEF d

(* The run of orphans that leads on from a block has an end. *)
LEMMA RunEnds ==
    ASSUME NEW o, o \subseteq Positive, IsFiniteSet(o), NEW b \in Nat
    PROVE  \E n \in b..(b + Cardinality(o)) : (b + 1)..n \subseteq o /\ n + 1 \notin o
<1> DEFINE k == Cardinality(o)
           T == {n \in Nat : n >= b /\ n + 1 \notin o}
<1>1. k \in Nat
  BY FS_CardinalityType
<1>2. \E n \in Nat : n >= b /\ n + 1 \notin o
  <2> SUFFICES ASSUME \A n \in Nat : n >= b => n + 1 \in o PROVE FALSE
    OBVIOUS
  <2> DEFINE R == (b + 1)..(b + 1 + k)
  <2>1. R \subseteq o
    <3> SUFFICES ASSUME NEW x \in R PROVE x \in o
      OBVIOUS
    <3>1. x - 1 \in Nat /\ x - 1 >= b /\ x - 1 + 1 = x
      BY <1>1
    <3> QED
      BY <3>1
  <2>2. b + 1 \in Int /\ b + 1 + k \in Int /\ b + 1 <= b + 1 + k
        /\ (b + 1 + k) - (b + 1) + 1 = k + 1
    BY <1>1
  <2>3. Cardinality(R) = k + 1
    <3> DEFINE lo == b + 1
               hi == b + 1 + k
    <3>1. lo \in Int /\ hi \in Int /\ lo <= hi /\ hi - lo + 1 = k + 1
      BY <2>2
    <3> HIDE DEF lo, hi
    <3>2. Cardinality(lo..hi) = k + 1
      BY <3>1, FS_Interval
    <3> QED
      BY <3>2 DEF lo, hi
  <2>4. Cardinality(R) <= k
    <3> HIDE DEF R
    <3> QED
      BY <2>1, FS_Subset
  <2> QED
    BY <1>1, <2>3, <2>4
<1>3. T \subseteq Nat /\ T # {}
  BY <1>2
<1>4. PICK n \in T : \A m \in T : n <= m
  <2> HIDE DEF T
  <2> QED
    BY <1>3, LeastElement
<1>5. (b + 1)..n \subseteq o
  <2> SUFFICES ASSUME NEW x \in (b + 1)..n, x \notin o PROVE FALSE
    OBVIOUS
  <2>1. x - 1 \in Nat /\ x - 1 >= b /\ x - 1 + 1 = x /\ x - 1 < n
    BY <1>4
  <2>2. x - 1 \in T
    BY <2>1
  <2> QED
    BY <1>4, <2>1, <2>2
<1>6. n <= b + k
  <2>1. CASE n = b
    BY <1>1, <2>1
  <2>2. CASE n # b
    <3> DEFINE lo == b + 1
    <3>1. lo \in Int /\ n \in Int /\ lo <= n /\ n - lo + 1 = n - b
      BY <1>4, <2>2
    <3>2. lo..n \subseteq o
      BY <1>5
    <3> HIDE DEF lo
    <3>3. Cardinality(lo..n) = n - b
      BY <3>1, FS_Interval
    <3>4. Cardinality(lo..n) <= k
      BY <3>2, FS_Subset
    <3> QED
      BY <1>1, <1>4, <3>3, <3>4
  <2> QED
    BY <2>1, <2>2
<1>7. n \in b..(b + k) /\ n + 1 \notin o
  BY <1>1, <1>4, <1>6
<1> QED
  BY <1>5, <1>7

(* A block that is appended with the orphans that lead on from it. *)
LEMMA RunConnected ==
    ASSUME NEW h, NEW best0, NEW o, IsTree(h, best0, o),
           NEW b \in Positive, b - 1 \in h,
           NEW n \in Nat, n >= b, (b + 1)..n \subseteq o, n + 1 \notin o
    PROVE  IsTree(h \cup b..n, IF Height(n) > Height(best0) THEN n ELSE best0, o \ b..n)
<1> DEFINE g == h \cup b..n
           top == IF Height(n) > Height(best0) THEN n ELSE best0
           q == o \ b..n
<1>1. /\ h \subseteq Int /\ 0 \in h /\ best0 \in Int
      /\ o \subseteq Positive /\ IsFiniteSet(o) /\ Connected(h, best0, o)
      /\ b \in Nat /\ b > 0 /\ Height(n) = n
  BY DEF IsTree, Positive, Height
<1>2. \A x \in g \ {0} : Prev(x) \in g
  <2> SUFFICES ASSUME NEW x \in g, x # 0 PROVE Prev(x) \in g
    OBVIOUS
  <2>1. CASE x \in h
    BY <1>1, <2>1 DEF Connected
  <2>2. CASE x \in b..n
    <3>1. x = b \/ x - 1 \in b..n
      BY <1>1, <2>2
    <3>2. Prev(x) = x - 1
      BY <1>1, <2>2 DEF Prev
    <3> QED
      BY <3>1, <3>2
  <2> QED
    BY <2>1, <2>2
<1>3. \A x \in q : x \notin g /\ Prev(x) \notin g
  <2> SUFFICES ASSUME NEW x \in o, x \notin b..n PROVE x \notin g /\ Prev(x) \notin g
    OBVIOUS
  <2>1. x \notin h /\ Prev(x) \notin h
    BY <1>1 DEF Connected
  <2>2. x \in Nat /\ Prev(x) = x - 1
    BY <1>1 DEF Positive, Prev
  <2>3. x - 1 \notin b..n
    <3> SUFFICES ASSUME x - 1 \in b..n PROVE FALSE
      OBVIOUS
    <3>1. x = n + 1
      BY <1>1, <2>2
    <3> QED
      BY <3>1
  <2> QED
    BY <2>1, <2>2, <2>3
<1>4. top \in g /\ top \in Int
  BY <1>1 DEF Connected
<1>5. \A x \in g : Height(x) <= Height(top)
  <2>1. Height(best0) \in Nat
    BY <1>1 DEF Height
  <2>2. Height(n) <= Height(top) /\ Height(best0) <= Height(top) /\ Height(top) \in Nat
    BY <1>1, <2>1
  <2>3. ASSUME NEW x \in h PROVE Height(x) <= Height(top)
    <3>1. Height(x) \in Nat /\ Height(x) <= Height(best0)
      BY <1>1 DEF Connected, Height
    <3> HIDE DEF top
    <3> QED
      BY <2>1, <2>2, <3>1
  <2>4. ASSUME NEW x \in b..n PROVE Height(x) <= Height(top)
    <3>1. Height(x) = x /\ x <= n
      BY <1>1 DEF Height
    <3> HIDE DEF top
    <3> QED
      BY <1>1, <2>2, <3>1
  <2> QED
    BY <2>3, <2>4
<1>6. IsFiniteSet(q)
  BY <1>1, FS_Difference
<1>7. g \subseteq Int /\ 0 \in g /\ q \subseteq Positive
  BY <1>1
<1> HIDE DEF g, top, q
<1>8. IsTree(g, top, q)
  BY <1>2, <1>3, <1>4, <1>5, <1>6, <1>7 DEF IsTree, Connected
<1> QED
  BY <1>8 DEF g, top, q

(* process() *)
LEMMA ProcessOK ==
    ASSUME NEW c, IsClient(c), NEW b \in Positive, b - 1 \in c.have
    PROVE  IsClient(Process(c, b))
<1> DEFINE o == c.orphans
           new == CHOOSE n \in b..(b + Cardinality(o)) : (b + 1)..n \subseteq o /\ n + 1 \notin o
           h == c.have \cup b..new
           q == c.orphans \ b..new
           top == IF Height(new) > Height(c.best) THEN new ELSE c.best
           d == Process(c, b)
<1>1. IsTree(c.have, c.best, o) /\ o \subseteq Positive /\ IsFiniteSet(o) /\ b \in Nat
  BY DEF IsClient, IsTree, Positive
<1>2. \E n \in b..(b + Cardinality(o)) : (b + 1)..n \subseteq o /\ n + 1 \notin o
  BY <1>1, RunEnds
<1>3. new \in b..(b + Cardinality(o)) /\ (b + 1)..new \subseteq o /\ new + 1 \notin o
  <2> HIDE DEF o
  <2> QED
    BY <1>2
<1>4. d = [c EXCEPT !.have = h, !.orphans = q, !.best = top]
  BY DEF Process
<1>5. Cardinality(o) \in Nat
  BY <1>1, FS_CardinalityType
<1> HIDE DEF new
<1>6. new \in Nat /\ new >= b
  BY <1>1, <1>3, <1>5
<1>7. IsTree(h, top, q)
  BY <1>1, <1>3, <1>6, RunConnected
<1> HIDE DEF h, q, top, d, o
<1>8. d = [have |-> h, best |-> top, orphans |-> q, ready |-> c.ready,
           later |-> c.later, asked |-> c.asked, last |-> c.last, unsent |-> c.unsent]
  BY <1>4 DEF IsClient, IsRecord
<1>9. IsClient(d)
  BY <1>7, <1>8 DEF IsClient, IsRecord
<1> QED
  BY <1>9 DEF d

(* An orphan is kept. *)
LEMMA OrphanOK ==
    ASSUME NEW c, IsClient(c), NEW b \in Positive, b \notin c.have, Prev(b) \notin c.have
    PROVE  LET d == [c EXCEPT !.orphans = c.orphans \cup {b}] IN
           IsClient(d) /\ d.orphans = c.orphans \cup {b}
<1> DEFINE q == c.orphans \cup {b}
           d == [c EXCEPT !.orphans = c.orphans \cup {b}]
<1>1. IsTree(c.have, c.best, c.orphans)
  BY DEF IsClient
<1>2. IsFiniteSet(q)
  BY <1>1, FS_AddElement DEF IsTree
<1>3. IsTree(c.have, c.best, q)
  BY <1>1, <1>2 DEF IsTree, Connected
<1>4. d = [c EXCEPT !.orphans = q]
  OBVIOUS
<1> HIDE DEF q, d
<1>5. d = [have |-> c.have, best |-> c.best, orphans |-> q, ready |-> c.ready,
           later |-> c.later, asked |-> c.asked, last |-> c.last, unsent |-> c.unsent]
  BY <1>4 DEF IsClient, IsRecord
<1>6. IsClient(d) /\ d.orphans = q
  BY <1>3, <1>5 DEF IsClient, IsRecord
<1> QED
  BY <1>6 DEF q, d

(* The block message. *)
LEMMA HandleBlockOK ==
    ASSUME NEW c, IsClient(c), NEW b \in Nat
    PROVE  IsClient(HandleBlock(c, b))
<1>1. CASE b \in c.have \cup c.orphans
  BY <1>1 DEF HandleBlock
<1>2. CASE b \notin c.have \cup c.orphans
  <2> DEFINE d == Dequeue(c, b)
  <2>1. b \in Positive /\ Prev(b) = b - 1
    BY <1>2 DEF IsClient, IsTree, Positive, Prev
  <2>2. IsClient(d) /\ d.have = c.have /\ d.orphans = c.orphans
    BY DequeueOK
  <2> HIDE DEF d
  <2>3. CASE Prev(b) \notin c.have
    <3> DEFINE o == [d EXCEPT !.orphans = d.orphans \cup {b}]
    <3>1. IsClient(o) /\ o.orphans = d.orphans \cup {b}
      BY <1>2, <2>1, <2>2, <2>3, OrphanOK
    <3>2. HandleBlock(c, b) = PushGetBlocks(o, OrphanRoot(o.orphans, b))
      BY <1>2, <2>3 DEF HandleBlock, d
    <3> HIDE DEF o
    <3>3. OrphanRoot(o.orphans, b) \in Nat
      BY <2>1, <3>1, OrphanRootFacts DEF IsClient, IsTree
    <3> QED
      BY <3>1, <3>2, <3>3, PushGetBlocksOK
  <2>4. CASE Prev(b) \in c.have
    <3>1. HandleBlock(c, b) = Process(d, b)
      BY <1>2, <2>4 DEF HandleBlock, d
    <3> QED
      BY <2>1, <2>2, <2>4, <3>1, ProcessOK
  <2> QED
    BY <2>3, <2>4
<1> QED
  BY <1>1, <1>2

(* A message from the server. *)
LEMMA HandleOK ==
    ASSUME NEW c, IsClient(c), NEW m \in Answers
    PROVE  IsClient(Handle(c, m))
<1>1. CASE m.cmd = "inv"
  <2>1. m.invs \in Seq(Nat)
    BY <1>1 DEF Answers
  <2> QED
    BY <1>1, <2>1, HandleInvsOK DEF Handle
<1>2. CASE m.cmd # "inv"
  <2>1. m.block \in Nat
    BY <1>2 DEF Answers
  <2> QED
    BY <1>2, <2>1, HandleBlockOK DEF Handle
<1> QED
  BY <1>1, <1>2

(* w has the first n elements of s that are in S, in their order. *)
IsAmong(w, s, S, n) ==
    /\ w \in Seq(Nat)
    /\ \A j \in 1..n : s[j] \in S => \E k \in 1..Len(w) : w[k] = s[j]
    /\ \A k \in 1..Len(w) : \E i \in 1..n :
          /\ s[i] \in S /\ w[k] = s[i]
          /\ \A j \in 1..(i - 1) : s[j] \in S => \E l \in 1..(k - 1) : w[l] = s[j]

(* One element more. *)
LEMMA AmongStep ==
    ASSUME NEW s \in Seq(Nat), NEW S, NEW n \in 1..Len(s), NEW w, IsAmong(w, s, S, n - 1)
    PROVE  IsAmong(IF s[n] \in S THEN Append(w, s[n]) ELSE w, s, S, n)
<1>0. w \in Seq(Nat) /\ Len(w) \in Nat /\ s[n] \in Nat /\ Len(s) \in Nat
  BY DEF IsAmong
<1>1. \A j \in 1..n : j = n \/ j \in 1..(n - 1)
  BY <1>0
<1>2. CASE s[n] \notin S
  BY <1>0, <1>1, <1>2 DEF IsAmong
<1>3. CASE s[n] \in S
  <2> DEFINE v == Append(w, s[n])
  <2>1. v \in Seq(Nat) /\ Len(v) = Len(w) + 1 /\ v[Len(w) + 1] = s[n]
        /\ \A k \in 1..Len(w) : v[k] = w[k]
    BY <1>0
  <2> HIDE DEF v
  <2>2. ASSUME NEW j \in 1..n, s[j] \in S PROVE \E k \in 1..Len(v) : v[k] = s[j]
    <3>1. CASE j = n
      BY SMTT(20), <1>0, <2>1, <3>1
    <3>2. CASE j # n
      <4>1. PICK k \in 1..Len(w) : w[k] = s[j]
        BY <1>1, <2>2, <3>2 DEF IsAmong
      <4> QED
        BY <1>0, <2>1, <4>1
    <3> QED
      BY <3>1, <3>2
  <2>3. ASSUME NEW k \in 1..Len(v)
        PROVE  \E i \in 1..n :
                 /\ s[i] \in S /\ v[k] = s[i]
                 /\ \A j \in 1..(i - 1) : s[j] \in S => \E l \in 1..(k - 1) : v[l] = s[j]
    <3>1. CASE k = Len(w) + 1
      <4>1. ASSUME NEW j \in 1..(n - 1), s[j] \in S PROVE \E l \in 1..(k - 1) : v[l] = s[j]
        <5>1. PICK l \in 1..Len(w) : w[l] = s[j]
          BY <4>1 DEF IsAmong
        <5> QED
          BY <1>0, <2>1, <3>1, <5>1
      <4> QED
        BY <1>0, <1>3, <2>1, <3>1, <4>1
    <3>2. CASE k # Len(w) + 1
      <4>1. k \in 1..Len(w) /\ v[k] = w[k]
        BY SMTT(20), <1>0, <2>1, <3>2
      <4>2. PICK i \in 1..(n - 1) :
              /\ s[i] \in S /\ w[k] = s[i]
              /\ \A j \in 1..(i - 1) : s[j] \in S => \E l \in 1..(k - 1) : w[l] = s[j]
        BY <4>1 DEF IsAmong
      <4>3. \A l \in 1..(k - 1) : v[l] = w[l]
        BY <1>0, <2>1, <4>1
      <4>4. i \in 1..n
        BY <1>0
      <4> QED
        BY <4>1, <4>2, <4>3, <4>4
    <3> QED
      BY <3>1, <3>2
  <2>4. IsAmong(v, s, S, n)
    BY <2>1, <2>2, <2>3 DEF IsAmong
  <2> QED
    BY <1>3, <2>4 DEF v
<1> QED
  BY <1>2, <1>3

(* Among(s, S) has all the elements of s that are in S. *)
LEMMA AmongFacts ==
    ASSUME NEW s \in Seq(Nat), NEW S
    PROVE  IsAmong(Among(s, S), s, S, Len(s))
<1> DEFINE D == 0..Len(s)
           Step(f, i) == IF i = 0 THEN << >>
                         ELSE IF s[i] \in S THEN Append(f[i - 1], s[i]) ELSE f[i - 1]
           Defined(n) == \E f : f = [i \in 0..n |-> Step(f, i)]
           F == CHOOSE f : f = [i \in D |-> Step(f, i)]
<1>1. ASSUME NEW n \in Nat, n > 0 => Defined(n - 1)
      PROVE  Defined(n)
  <2>1. CASE n = 0
    <3> DEFINE f == [i \in 0..n |-> << >>]
    <3>1. f = [i \in 0..n |-> Step(f, i)]
      BY <2>1
    <3> QED
      BY <3>1
  <2>2. CASE n > 0
    <3>1. PICK f : f = [i \in 0..(n - 1) |-> Step(f, i)]
      BY <1>1, <2>2
    <3> DEFINE g == [i \in 0..n |-> Step(f, i)]
    <3>2. ASSUME NEW i \in 0..n, i # 0
          PROVE  g[i - 1] = f[i - 1]
      <4>1. i - 1 \in 0..(n - 1) /\ i - 1 \in 0..n
        BY <3>2
      <4> QED
        BY <3>1, <4>1
    <3>3. g = [i \in 0..n |-> Step(g, i)]
      BY <3>2
    <3> QED
      BY <3>3
  <2> HIDE DEF Defined
  <2> QED
    BY <2>1, <2>2
<1>2. \A n \in Nat : Defined(n)
  <2> DEFINE T == {n \in Nat : ~Defined(n)}
  <2> HIDE DEF Defined
  <2>1. SUFFICES ASSUME T # {} PROVE FALSE
    OBVIOUS
  <2>2. PICK n \in T : \A k \in T : n <= k
    BY <2>1, LeastElement
  <2>3. n > 0 => Defined(n - 1)
    BY <2>2
  <2> QED
    BY <1>1, <2>2, <2>3
<1>3. \E f : f = [i \in D |-> Step(f, i)]
  <2> HIDE DEF Defined
  <2>1. Len(s) \in Nat
    OBVIOUS
  <2>2. Defined(Len(s))
    BY <1>2, <2>1
  <2> QED
    BY <2>2 DEF Defined
<1>4. F = [i \in D |-> Step(F, i)]
  BY <1>3
<1>5. Among(s, S) = F[Len(s)]
  BY DEF Among
<1> HIDE DEF F
<1>6. ASSUME NEW i \in D PROVE F[i] = Step(F, i)
  BY <1>4
<1>7. \A i \in D : IsAmong(F[i], s, S, i)
  <2> DEFINE T == {i \in D : ~IsAmong(F[i], s, S, i)}
  <2>1. SUFFICES ASSUME T # {} PROVE FALSE
    OBVIOUS
  <2>0. T \subseteq Nat
    OBVIOUS
  <2>2. PICK i \in T : \A k \in T : i <= k
    <3> HIDE DEF T
    <3> QED
      BY <2>0, <2>1, LeastElement
  <2>3. CASE i = 0
    <3>1. F[0] = << >>
      BY <1>6, <2>2, <2>3
    <3>2. IsAmong(<< >>, s, S, 0)
      BY DEF IsAmong
    <3> QED
      BY <2>2, <2>3, <3>1, <3>2
  <2>4. CASE i # 0
    <3>1. i - 1 \in D /\ i - 1 \notin T /\ i \in 1..Len(s)
      BY <2>2, <2>4
    <3>2. F[i] = IF s[i] \in S THEN Append(F[i - 1], s[i]) ELSE F[i - 1]
      BY <1>6, <2>2, <2>4
    <3>3. IsAmong(F[i - 1], s, S, i - 1)
      BY <3>1
    <3>4. IsAmong(F[i], s, S, i)
      BY <3>1, <3>2, <3>3, AmongStep
    <3> QED
      BY <2>2, <3>4
  <2> QED
    BY <2>3, <2>4
<1>8. Len(s) \in D
  OBVIOUS
<1> QED
  BY <1>5, <1>7, <1>8

(* The elements of a sequence that are in a set are again a sequence. *)
LEMMA AmongElements ==
    ASSUME NEW s \in Seq(Nat), NEW S
    PROVE  Among(s, S) \in Seq(Nat) /\ Elements(Among(s, S)) = Elements(s) \cap S
<1> DEFINE w == Among(s, S)
<1>1. IsAmong(w, s, S, Len(s))
  BY AmongFacts
<1> HIDE DEF w
<1>2. DOMAIN w = 1..Len(w) /\ DOMAIN s = 1..Len(s)
  BY <1>1 DEF IsAmong
<1>3. ASSUME NEW x \in Elements(w) PROVE x \in Elements(s) \cap S
  <2>1. PICK k \in 1..Len(w) : x = w[k]
    BY <1>2 DEF Elements
  <2>2. PICK i \in 1..Len(s) : s[i] \in S /\ w[k] = s[i]
    BY <1>1, <2>1 DEF IsAmong
  <2> QED
    BY <1>2, <2>1, <2>2 DEF Elements
<1>4. ASSUME NEW x \in Elements(s), x \in S PROVE x \in Elements(w)
  <2>1. PICK i \in 1..Len(s) : x = s[i]
    BY <1>2, <1>4 DEF Elements
  <2>2. PICK k \in 1..Len(w) : w[k] = s[i]
    BY <1>1, <1>4, <2>1 DEF IsAmong
  <2> QED
    BY <1>2, <2>1, <2>2 DEF Elements
<1>5. w \in Seq(Nat) /\ Elements(w) = Elements(s) \cap S
  BY <1>1, <1>3, <1>4 DEF IsAmong
<1> QED
  BY <1>5 DEF w

(* reply() *)
LEMMA ReplyOK ==
    ASSUME NEW c, IsClient(c)
    PROVE  IsClient(Reply(c))
<1> DEFINE want == Among(c.ready, DOMAIN c.asked)
           e == << >>
           u == IF want = << >> THEN c.unsent ELSE Append(c.unsent, GetData(want))
           d == Reply(c)
<1>1. want \in Seq(Nat)
  BY AmongElements DEF IsClient
<1>2. u \in Seq(Requests) /\ e \in Seq(Nat)
  <2> HIDE DEF want
  <2>1. GetData(want) \in Requests
    BY <1>1 DEF GetData, Requests
  <2> QED
    BY <2>1 DEF IsClient
<1>3. d = [c EXCEPT !.ready = e, !.unsent = u]
  BY DEF Reply
<1> HIDE DEF want, e, u, d
<1>4. d = [have |-> c.have, best |-> c.best, orphans |-> c.orphans, ready |-> e,
           later |-> c.later, asked |-> c.asked, last |-> c.last, unsent |-> u]
  BY <1>3 DEF IsClient, IsRecord
<1>5. IsClient(d)
  BY <1>2, <1>4 DEF IsClient, IsRecord
<1> QED
  BY <1>5 DEF d

----------------------------------------------------------------------------
(* The server answers a request with inventories and blocks.                *)

IsSent(x) == x = [msgs |-> x.msgs, continue |-> x.continue] /\ x.msgs \in Seq(Answers)

(* A block, and the inventory that follows the last of a batch. *)
LEMMA ServeOK ==
    ASSUME tip \in Nat, NEW x, IsSent(x), NEW b \in Nat
    PROVE  IsSent(Serve(x, b))
<1>1. BlockMsg(b) \in Answers
  BY DEF BlockMsg, Answers
<1>2. Inv(<<tip>>) \in Answers
  BY DEF Inv, Answers
<1> DEFINE two == <<BlockMsg(b), Inv(<<tip>>)>>
<1>3. two \in Seq(Answers)
  BY <1>1, <1>2
<1>4. CASE b = x.continue
  <2> DEFINE msgs == x.msgs \o two
             none == None
             y == Serve(x, b)
  <2>1. y = [msgs |-> msgs, continue |-> none]
    BY <1>4 DEF Serve
  <2>2. msgs \in Seq(Answers)
    BY <1>3 DEF IsSent
  <2> HIDE DEF y, msgs, none
  <2>3. IsSent(y)
    BY <2>1, <2>2 DEF IsSent
  <2> QED
    BY <2>3 DEF y
<1>5. CASE b # x.continue
  <2> DEFINE msgs == Append(x.msgs, BlockMsg(b))
             y == Serve(x, b)
  <2>1. y = [x EXCEPT !.msgs = msgs]
    BY <1>5 DEF Serve
  <2>2. msgs \in Seq(Answers)
    BY <1>1 DEF IsSent
  <2> HIDE DEF y, msgs
  <2>3. y = [msgs |-> msgs, continue |-> x.continue]
    BY <2>1 DEF IsSent
  <2>4. IsSent(y)
    BY <2>2, <2>3 DEF IsSent
  <2> QED
    BY <2>4 DEF y
<1> QED
  BY <1>4, <1>5

(* The blocks of a getdata message, one after the other. *)
LEMMA ServeAllSteps ==
    ASSUME NEW sent, NEW invs \in Seq(Nat)
    PROVE  \E F : /\ F[0] = sent /\ ServeAll(sent, invs) = F[Len(invs)]
                 /\ \A i \in 1..Len(invs) : F[i] = Serve(F[i - 1], invs[i])
<1> DEFINE D == 0..Len(invs)
           Step(f, i) == IF i = 0 THEN sent ELSE Serve(f[i - 1], invs[i])
           Defined(n) == \E f : f = [i \in 0..n |-> Step(f, i)]
           F == CHOOSE f : f = [i \in D |-> Step(f, i)]
<1>1. ASSUME NEW n \in Nat, n > 0 => Defined(n - 1)
      PROVE  Defined(n)
  <2>1. CASE n = 0
    <3> DEFINE f == [i \in 0..n |-> sent]
    <3>1. f = [i \in 0..n |-> Step(f, i)]
      BY <2>1
    <3> QED
      BY <3>1
  <2>2. CASE n > 0
    <3>1. PICK f : f = [i \in 0..(n - 1) |-> Step(f, i)]
      BY <1>1, <2>2
    <3> DEFINE g == [i \in 0..n |-> Step(f, i)]
    <3>2. ASSUME NEW i \in 0..n, i # 0
          PROVE  g[i - 1] = f[i - 1]
      <4>1. i - 1 \in 0..(n - 1) /\ i - 1 \in 0..n
        BY <3>2
      <4> QED
        BY <3>1, <4>1
    <3>3. g = [i \in 0..n |-> Step(g, i)]
      BY <3>2
    <3> QED
      BY <3>3
  <2> HIDE DEF Defined
  <2> QED
    BY <2>1, <2>2
<1>2. \A n \in Nat : Defined(n)
  <2> DEFINE T == {n \in Nat : ~Defined(n)}
  <2> HIDE DEF Defined
  <2>1. SUFFICES ASSUME T # {} PROVE FALSE
    OBVIOUS
  <2>2. PICK n \in T : \A k \in T : n <= k
    BY <2>1, LeastElement
  <2>3. n > 0 => Defined(n - 1)
    BY <2>2
  <2> QED
    BY <1>1, <2>2, <2>3
<1>3. \E f : f = [i \in D |-> Step(f, i)]
  <2> HIDE DEF Defined
  <2>1. Len(invs) \in Nat
    OBVIOUS
  <2>2. Defined(Len(invs))
    BY <1>2, <2>1
  <2> QED
    BY <2>2 DEF Defined
<1>4. F = [i \in D |-> Step(F, i)]
  BY <1>3
<1>5. ServeAll(sent, invs) = F[Len(invs)]
  BY DEF ServeAll
<1> HIDE DEF F
<1>6. \A i \in D : F[i] = Step(F, i)
  BY <1>4
<1>7. F[0] = sent /\ \A i \in 1..Len(invs) : F[i] = Serve(F[i - 1], invs[i])
  <2>1. 0 \in D /\ \A i \in 1..Len(invs) : i \in D /\ i # 0
    OBVIOUS
  <2> QED
    BY <1>6, <2>1
<1> QED
  BY <1>5, <1>7

(* The getdata message. *)
LEMMA ServeAllOK ==
    ASSUME tip \in Nat, NEW sent, IsSent(sent), NEW invs \in Seq(Nat)
    PROVE  IsSent(ServeAll(sent, invs))
<1>1. PICK F : /\ F[0] = sent /\ ServeAll(sent, invs) = F[Len(invs)]
               /\ \A i \in 1..Len(invs) : F[i] = Serve(F[i - 1], invs[i])
  BY ServeAllSteps
<1> DEFINE T == {i \in 0..Len(invs) : ~IsSent(F[i])}
<1>2. SUFFICES ASSUME T # {} PROVE FALSE
  <2>1. Len(invs) \in 0..Len(invs)
    OBVIOUS
  <2> QED
    BY <1>1, <2>1
<1>3. T \subseteq Nat
  OBVIOUS
<1>4. PICK i \in T : \A k \in T : i <= k
  <2> HIDE DEF T
  <2> QED
    BY <1>2, <1>3, LeastElement
<1>5. i # 0
  BY <1>1, <1>4
<1>6. i \in 1..Len(invs) /\ i - 1 \in 0..Len(invs) /\ i - 1 \notin T /\ invs[i] \in Nat
  BY <1>4, <1>5
<1>7. IsSent(F[i - 1]) /\ F[i] = Serve(F[i - 1], invs[i])
  BY <1>1, <1>6
<1>8. IsSent(F[i])
  BY <1>6, <1>7, ServeOK
<1> QED
  BY <1>4, <1>8

----------------------------------------------------------------------------
(* The inductive invariant: besides the tree, what is queued and what is on *)
(* the way names blocks of the server's chain only.                         *)
BInv ==
    /\ IsClient(Client)
    /\ toServer \in Seq(Requests)
    /\ toClient \in Seq(Answers)
    /\ tip \in Nat

(* The client's variables are those of the record that was set. *)
LEMMA SetClientFacts ==
    ASSUME NEW c, IsClient(c), SetClient(c)
    PROVE  IsClient(Client')
<1>1. Client' = c
  BY DEF SetClient, Client, IsClient, IsRecord
<1> QED
  BY <1>1, Zenon

(* The client starts on its fork. *)
LEMMA InitBInv == Init => BInv
<1> SUFFICES ASSUME Init PROVE BInv
  OBVIOUS
<1>1. PICK fork \in ForkLens : have = {-n : n \in 0..fork} /\ best = -fork
  BY DEF Init
<1>2. fork \in Nat /\ best \in Int
  BY <1>1, SyncAssumption
<1>3. ASSUME NEW x \in have PROVE x \in Int /\ x <= 0 /\ -x \in 0..fork
  BY <1>1, <1>2
<1>4. ASSUME NEW x \in have, x # 0 PROVE Prev(x) \in have
  <2>1. x \in Int /\ x < 0 /\ -x \in 0..fork
    BY <1>3, <1>4
  <2>2. Prev(x) = x + 1
    BY <2>1 DEF Prev
  <2>3. -(x + 1) \in 0..fork /\ x + 1 = -(-(x + 1))
    BY <1>2, <2>1
  <2> QED
    BY <1>1, <2>2, <2>3
<1>5. best \in have /\ 0 \in have
  <2>1. fork \in 0..fork /\ 0 \in 0..fork
    BY <1>2
  <2>2. PICK n \in 0..fork : n <= 0
    BY <2>1
  <2>3. -n \in Int /\ -n <= 0 /\ -n >= 0
    BY <1>2, <2>2
  <2>4. -n \in have
    BY <1>1
  <2>5. 0 \in have
    BY <2>3, <2>4
  <2> QED
    BY <1>1, <2>1, <2>5
<1>6. ASSUME NEW x \in have PROVE Height(x) <= Height(best)
  <2>1. Height(best) = fork
    BY <1>1, <1>2 DEF Height
  <2>2. Height(x) = -x
    BY <1>3 DEF Height
  <2> QED
    BY <1>2, <1>3, <2>1, <2>2
<1>7. orphans = {} /\ ready = << >> /\ later = << >> /\ unsent = << >> /\ toClient = << >>
      /\ toServer = <<GetBlocks(best, None)>>
  BY DEF Init
<1>8. IsTree(have, best, orphans)
  BY <1>2, <1>3, <1>4, <1>5, <1>6, <1>7, FS_EmptySet DEF IsTree, Connected
<1>9. ready \in Seq(Nat) /\ later \in Seq(Nat) /\ unsent \in Seq(Requests) /\ toClient \in Seq(Answers)
  BY <1>7
<1>10. GetBlocks(best, None) \in Requests
  BY <1>2 DEF GetBlocks, Requests, None
<1>11. toServer \in Seq(Requests)
  BY <1>7, <1>10
<1>12. tip \in Nat
  BY SyncAssumption DEF Init
<1> QED
  BY <1>8, <1>9, <1>11, <1>12 DEF BInv, IsClient, IsRecord, Client

(* reply() and flush(). *)
LEMMA FinishFacts ==
    ASSUME NEW c, IsClient(c), toServer \in Seq(Requests), Finish(c)
    PROVE  IsClient(Client') /\ toServer' \in Seq(Requests)
<1> DEFINE r == Reply(c)
           e == << >>
           d == [r EXCEPT !.unsent = e]
<1>1. IsClient(r)
  BY ReplyOK
<1>2. SetClient(d) /\ toServer' = toServer \o r.unsent
  BY DEF Finish
<1>3. e \in Seq(Requests)
  OBVIOUS
<1>4. d = [r EXCEPT !.unsent = e]
  OBVIOUS
<1> HIDE DEF r, e, d
<1>5. d = [have |-> r.have, best |-> r.best, orphans |-> r.orphans, ready |-> r.ready,
           later |-> r.later, asked |-> r.asked, last |-> r.last, unsent |-> e]
  BY <1>1, <1>4 DEF IsClient, IsRecord
<1>6. IsClient(d)
  BY <1>1, <1>3, <1>5 DEF IsClient, IsRecord
<1>7. toServer' \in Seq(Requests)
  BY <1>1, <1>2 DEF IsClient
<1> QED
  BY <1>2, <1>6, <1>7, SetClientFacts

(* handle_read() *)
LEMMA ReadInv == BInv /\ Read => BInv'
<1> SUFFICES ASSUME BInv, Read PROVE BInv'
  OBVIOUS
<1> DEFINE c == Handle(Client, Head(toClient))
<1>1. toClient # << >> /\ toClient' = Tail(toClient) /\ tip' = tip
  BY DEF Read, server
<1>2. Head(toClient) \in Answers /\ toClient' \in Seq(Answers)
  BY <1>1 DEF BInv
<1>3. IsClient(c)
  BY <1>2, HandleOK DEF BInv
<1>4. (SetClient(c) /\ toServer' = toServer) \/ Finish(c)
  BY DEF Read
<1> HIDE DEF c
<1>5. IsClient(Client') /\ toServer' \in Seq(Requests)
  BY <1>3, <1>4, SetClientFacts, FinishFacts DEF BInv
<1> QED
  BY <1>1, <1>2, <1>5 DEF BInv

(* A message of another filter. *)
LEMMA ReadOtherInv == BInv /\ ReadOther => BInv'
<1> SUFFICES ASSUME BInv, ReadOther PROVE BInv'
  OBVIOUS
<1>1. Finish(Client) /\ toClient' = toClient /\ tip' = tip
  BY DEF ReadOther, server
<1>2. IsClient(Client') /\ toServer' \in Seq(Requests)
  BY <1>1, FinishFacts DEF BInv
<1> QED
  BY <1>1, <1>2 DEF BInv

(* The fields of the client's record are its variables. *)
LEMMA ClientFacts ==
    /\ IsClient(Client) <=>
          /\ IsTree(have, best, orphans)
          /\ ready \in Seq(Nat) /\ later \in Seq(Nat) /\ unsent \in Seq(Requests)
    /\ IsClient(Client') <=>
          /\ IsTree(have', best', orphans')
          /\ ready' \in Seq(Nat) /\ later' \in Seq(Nat) /\ unsent' \in Seq(Requests)
  BY DEF IsClient, IsRecord, Client

(* The retry delay passes. *)
LEMMA ElapseInv == BInv /\ Elapse => BInv'
<1> SUFFICES ASSUME BInv, Elapse PROVE BInv'
  OBVIOUS
<1>1. /\ ready' = ready \o later /\ later' = << >>
      /\ UNCHANGED <<have, best, orphans, unsent, toServer, toClient, tip>>
  BY DEF Elapse, server
<1>2. ready' \in Seq(Nat) /\ later' \in Seq(Nat)
  BY <1>1, ClientFacts DEF BInv
<1> QED
  BY <1>1, <1>2, ClientFacts DEF BInv

(* The connection breaks. *)
LEMMA ReconnectInv == BInv /\ Reconnect => BInv'
<1> SUFFICES ASSUME BInv, Reconnect PROVE BInv'
  OBVIOUS
<1>1. /\ ready' = << >> /\ later' = << >> /\ unsent' = << >> /\ toClient' = << >>
      /\ toServer' = <<GetBlocks(best, None)>>
      /\ UNCHANGED <<have, best, orphans, tip>>
  BY DEF Reconnect
<1>2. /\ ready' \in Seq(Nat) /\ later' \in Seq(Nat)
      /\ unsent' \in Seq(Requests) /\ toClient' \in Seq(Answers)
  BY <1>1
<1>3. GetBlocks(best, None) \in Requests
  BY ClientFacts DEF BInv, IsTree, GetBlocks, Requests, None
<1>4. toServer' \in Seq(Requests)
  BY <1>1, <1>3
<1> QED
  BY <1>1, <1>2, <1>4, ClientFacts DEF BInv

(* A function on 1..n is a sequence. *)
LEMMA FunctionIsSequence ==
    ASSUME NEW n \in Nat, NEW s \in [1..n -> Nat]
    PROVE  s \in Seq(Nat)
  OBVIOUS

(* broadcast() *)
LEMMA BroadcastFacts ==
    ASSUME toClient \in Seq(Answers), NEW invs \in Seq(Nat), Broadcast(invs)
    PROVE  toClient' \in Seq(Answers)
<1> DEFINE new == Among(invs, Elements(invs) \ known)
<1>1. new \in Seq(Nat)
  BY AmongElements
<1>2. toClient' = IF new = << >> THEN toClient ELSE Append(toClient, Inv(new))
  BY DEF Broadcast
<1> HIDE DEF new
<1>3. Inv(new) \in Answers
  BY <1>1 DEF Inv, Answers
<1> QED
  BY <1>2, <1>3

(* The getblocks message: the batch is of blocks above the common one. *)
LEMMA ServeGetBlocksInv == BInv /\ ServeGetBlocks => BInv'
<1> SUFFICES ASSUME BInv, ServeGetBlocks PROVE BInv'
  OBVIOUS
<1> DEFINE m == Head(toServer)
           start == Found(m.from)
           full == start + Limit + DistanceBack(m.from)
           end == IF m.stop # None /\ m.stop > start /\ m.stop <= full THEN m.stop - 1
                  ELSE IF full > tip THEN tip ELSE full
           invs == [i \in 1..(end - start) |-> start + i]
<1>1. toServer # << >> /\ m.cmd = "getblocks" /\ Broadcast(invs)
  BY DEF ServeGetBlocks
<1>2. toServer' = Tail(toServer) /\ tip' = tip /\ UNCHANGED client
  BY DEF ServeGetBlocks
<1>3. m \in Requests /\ toServer' \in Seq(Requests)
  BY <1>1, <1>2 DEF BInv
<1>4. m.from \in Int /\ m.stop \in Nat
  BY <1>1, <1>3 DEF Requests
<1> HIDE DEF m
<1>5. start \in Nat
  BY <1>4 DEF Found
<1>6. full \in Int
  <2>1. DistanceBack(m.from) \in Int
    BY <1>4 DEF DistanceBack, Found, Height
  <2> QED
    BY <1>5, <2>1, SyncAssumption
<1> HIDE DEF start, full
<1>7. end \in Int
  BY <1>4, <1>6 DEF BInv
<1> HIDE DEF end
<1>8. invs \in Seq(Nat)
  <2>1. CASE end - start \in Nat
    <3> DEFINE k == end - start
    <3>1. k \in Nat /\ invs = [i \in 1..k |-> start + i]
      BY <2>1
    <3> HIDE DEF k
    <3>2. \A i \in 1..k : start + i \in Nat
      BY <1>5
    <3>3. invs \in [1..k -> Nat]
      BY <3>1, <3>2
    <3> HIDE DEF invs
    <3> QED
      BY <3>1, <3>3, FunctionIsSequence
  <2>2. CASE end - start \notin Nat
    <3>1. 1..(end - start) = 1..0
      BY <1>5, <1>7, <2>2
    <3>2. invs \in [1..0 -> Nat]
      BY <3>1
    <3> HIDE DEF invs
    <3> QED
      BY <3>2, FunctionIsSequence
  <2> QED
    BY <2>1, <2>2
<1> HIDE DEF invs
<1>9. toClient' \in Seq(Answers)
  BY <1>1, <1>8, BroadcastFacts DEF BInv
<1>10. IsClient(Client')
  BY <1>2, ClientFacts DEF BInv, client
<1> QED
  BY <1>2, <1>3, <1>9, <1>10 DEF BInv

(* The getdata message. *)
LEMMA ServeGetDataInv == BInv /\ ServeGetData => BInv'
<1> SUFFICES ASSUME BInv, ServeGetData PROVE BInv'
  OBVIOUS
<1> DEFINE m == Head(toServer)
           first == [msgs |-> toClient, continue |-> continue]
           sent == ServeAll(first, m.invs)
<1>1. toServer # << >> /\ m.cmd = "getdata" /\ toClient' = sent.msgs
  BY DEF ServeGetData
<1>2. toServer' = Tail(toServer) /\ tip' = tip /\ UNCHANGED client
  BY DEF ServeGetData
<1>3. m \in Requests /\ toServer' \in Seq(Requests)
  BY <1>1, <1>2 DEF BInv
<1>4. m.invs \in Seq(Nat)
  BY <1>1, <1>3 DEF Requests
<1>5. IsSent(first)
  BY DEF IsSent, BInv
<1> HIDE DEF m, first
<1>6. IsSent(sent)
  BY <1>4, <1>5, ServeAllOK DEF BInv
<1>7. toClient' \in Seq(Answers)
  BY <1>1, <1>6 DEF IsSent
<1>8. IsClient(Client')
  BY <1>2, ClientFacts DEF BInv, client
<1> QED
  BY <1>2, <1>3, <1>7, <1>8 DEF BInv

(* The server's chain grows. *)
LEMMA NewBlockInv == BInv /\ NewBlock => BInv'
<1> SUFFICES ASSUME BInv, NewBlock PROVE BInv'
  OBVIOUS
<1> DEFINE invs == <<tip + 1>>
<1>1. tip' = tip + 1 /\ Broadcast(invs) /\ UNCHANGED <<client, toServer>>
  BY DEF NewBlock
<1>2. invs \in Seq(Nat) /\ tip + 1 \in Nat
  BY DEF BInv
<1> HIDE DEF invs
<1>3. toClient' \in Seq(Answers)
  BY <1>1, <1>2, BroadcastFacts DEF BInv
<1>4. IsClient(Client')
  BY <1>1, ClientFacts DEF BInv, client
<1> QED
  BY <1>1, <1>2, <1>3, <1>4 DEF BInv

(* Whatever the lengths of the chains, of a batch and of the delays, and    *)
(* however often the connection breaks with blocks and inventories on the   *)
(* way: what process() and getOrphanRoot() keep as connected is in the tree *)
(* with all that leads to it, what they keep as an orphan is not, and the   *)
(* best block is one of the highest.                                        *)
THEOREM BlockSyncConnected == Spec => []OrphansAreDisconnected
<1>1. BInv /\ [Next]_vars => BInv'
  <2> SUFFICES ASSUME BInv, [Next]_vars PROVE BInv'
    OBVIOUS
  <2>1. CASE Next
    BY <2>1, ReadInv, ReadOtherInv, ElapseInv, ServeGetBlocksInv, ServeGetDataInv,
       NewBlockInv, ReconnectInv DEF Next
  <2>2. CASE UNCHANGED vars
    BY <2>2, ClientFacts DEF vars, client, server, BInv
  <2> QED
    BY <2>1, <2>2
<1>2. BInv => OrphansAreDisconnected
  BY ClientFacts DEF BInv, IsTree, Connected, OrphansAreDisconnected
<1> QED
  BY <1>1, <1>2, InitBInv, PTL DEF Spec

----------------------------------------------------------------------------
(* A quiet connection.                                                      *)

(* The state of a connection: up goes to the server and down to the client. *)
Link(c, up, down, kn, cont, n, d) ==
    [have |-> c.have, best |-> c.best, orphans |-> c.orphans, ready |-> c.ready,
     later |-> c.later, asked |-> DOMAIN c.asked, last |-> c.last, up |-> up, down |-> down,
     known |-> kn, continue |-> cont, tip |-> n, drops |-> d]

Lists(m, cmd, b) == m.cmd = cmd /\ b \in Elements(m.invs)

Listed(msgs, cmd, b) == \E i \in 1..Len(msgs) : Lists(msgs[i], cmd, b)

Sent(msgs, b) == \E i \in 1..Len(msgs) : msgs[i] = BlockMsg(b)

(* Where a block is between being announced and being received. *)
Announced(z) == {b \in Nat : Listed(z.down, "inv", b)}

Wanted(z) == Elements(z.ready) \cup Elements(z.later)

Requested(z) == {b \in Nat : Listed(z.up, "getdata", b)}

Coming(z) == {b \in Nat : Sent(z.down, b)}

Held(z) == z.have \cup z.orphans

(* What the client has or was told of on this connection. *)
Seen(z) == Held(z) \cup z.known

(* There is a block that the client was not told of. *)
Gap(z) == \E x \in 1..z.tip : x \notin Seen(z)

SeenFrom(z, t) == \A x \in 1..z.tip : t <= x => x \in Seen(z)

(* The gap ends when t is connected. *)
Top(z, t) == SeenFrom(z, t + 1)

Full(f) == Height(f) + Limit

Asks(m) == m.cmd = "getblocks"

Asking(z) == \E i \in 1..Len(z.up) : Asks(z.up[i])

(* A request whose answer ends the gap or starts a batch. *)
Good(z, m) ==
    Asks(m) /\ (m.stop = None \/ m.stop > Full(m.from) \/ SeenFrom(z, m.stop))

GoodAsked(z) == \E i \in 1..Len(z.up) : Good(z, z.up[i])

(* A block that ends the gap is announced after c is sent. *)
Follows(z, c) ==
    \E j \in 1..Len(z.down) :
        /\ \E t \in Nat : Lists(z.down[j], "inv", t) /\ Top(z, t)
        /\ \E i \in 1..(j - 1) : z.down[i] = BlockMsg(c)

IsLink(z) ==
    /\ IsTree(z.have, z.best, z.orphans)
    /\ z.ready \in Seq(Nat) /\ z.later \in Seq(Nat)
    /\ z.up \in Seq(Requests) /\ z.down \in Seq(Answers)
    /\ z.asked \subseteq Nat /\ z.known \subseteq Nat
    /\ z.last[1] \in Int /\ z.last[2] \in Nat
    /\ z.continue \in Nat /\ z.tip \in Nat /\ z.drops \in Nat

----------------------------------------------------------------------------
(* The parts of the invariant. *)

(* What was announced is held or under way. *)
KnownUnderWay(z) ==
    z.known \subseteq Held(z) \cup Announced(z) \cup Wanted(z) \cup Requested(z) \cup Coming(z)

AskedNotHeld(z) ==
    /\ z.asked \cap Held(z) = {}
    /\ Wanted(z) \subseteq z.asked \cup Held(z)

IsAsk(z, f, s) == f \in z.have /\ (s = None \/ s > Found(f))

(* The last request is the last one in the queue, unless it was served. *)
LastIsLast(z) ==
    /\ \A i \in 1..Len(z.up) : Asks(z.up[i]) =>
          /\ IsAsk(z, z.up[i].from, z.up[i].stop)
          /\ \E j \in i..Len(z.up) : z.up[j] = GetBlocks(z.last[1], z.last[2])
    /\ IsAsk(z, z.last[1], z.last[2])
    /\ z.last[1] = z.best \/ Height(z.last[1]) < Height(z.best)

ContinueSeen(z) == \A x \in 1..z.continue : x \in Seen(z)

TopComes(z) ==
    \/ \E t \in Announced(z) : Top(z, t)
    \/ \E t \in Wanted(z) \cup Requested(z) \cup Coming(z) : t \notin Held(z) /\ Top(z, t)

GapIsClosing(z) ==
    Gap(z) => \/ GoodAsked(z)
              \/ z.continue # None
              \/ TopComes(z)

(* A request that would be repeated, and so is not sent, had its effect. *)
Repeats(z) == z.last[1] = z.best /\ z.last[2] # None /\ ~Asking(z) /\ Gap(z)

RepeatIsNeedless(z) ==
    Repeats(z) =>
        /\ z.last[2] <= Full(z.best) => \A x \in 1..(z.last[2] - 1) : x \in Seen(z)
        /\ z.last[2] > Full(z.best) =>
              \/ z.continue = Full(z.best)
              \/ Full(z.best) \notin z.orphans /\ Follows(z, Full(z.best))

(* An orphan that ends the batch of the last request is not requested after *)
(* that request.                                                            *)
OrphanIsNotRequested(z) ==
    z.last[1] = z.best /\ z.last[2] > Full(z.best) /\ Full(z.best) \in z.orphans =>
        \A i \in 1..Len(z.up) : Lists(z.up[i], "getdata", Full(z.best)) =>
            \E j \in (i + 1)..Len(z.up) : Asks(z.up[j])

(* What follows holds on the first connection, where blocks come in order.  *)
(* Up to p they were announced in batches.                                  *)

BlocksInOrder(down, H, p) ==
    \A j \in 1..Len(down), b \in 1..p : down[j] = BlockMsg(b) =>
        b - 1 \in H \/ \E i \in 1..(j - 1) : down[i] = BlockMsg(b - 1)

(* The lists of some messages, and what is ahead of them in H. *)
ListsInOrder(msgs, cmd, H, p) ==
    \A j \in 1..Len(msgs) : msgs[j].cmd = cmd =>
        \A k \in 1..Len(msgs[j].invs) : msgs[j].invs[k] \in 1..p =>
            \/ msgs[j].invs[k] - 1 \in H
            \/ \E i \in 1..(j - 1) : Lists(msgs[i], cmd, msgs[j].invs[k] - 1)
            \/ \E i \in 1..(k - 1) : msgs[j].invs[i] = msgs[j].invs[k] - 1

QueueInOrder(q, H, p) ==
    \A k \in 1..Len(q) : q[k] \in 1..p =>
        q[k] - 1 \in H \/ \E i \in 1..(k - 1) : q[i] = q[k] - 1

ComeInOrder(z, p) ==
    /\ BlocksInOrder(z.down, z.have, p)
    /\ ListsInOrder(z.up, "getdata", z.have \cup Coming(z), p)
    /\ QueueInOrder(z.ready, z.have \cup Coming(z) \cup Requested(z), p)
    /\ ListsInOrder(z.down, "inv",
                    z.have \cup Coming(z) \cup Requested(z) \cup Elements(z.ready), p)
    /\ \A b \in 1..p : b \in z.asked => b \in Elements(z.ready) \cup Requested(z) \cup Coming(z)

(* Batches are asked for one after the other. *)
AsksInOrder(z, p) ==
    /\ \A i \in 1..Len(z.up) : Asks(z.up[i]) =>
          /\ Full(z.up[i].from) >= p
          /\ z.up[i].stop = None \/ SeenFrom(z, z.up[i].stop)
          /\ \A j \in i..Len(z.up) : Asks(z.up[j]) => Height(z.up[i].from) <= Height(z.up[j].from)
    /\ Full(z.last[1]) >= p
    /\ ~Asking(z) => Full(z.last[1]) = p

AskAbove(z, p) == \E i \in 1..Len(z.up) : Asks(z.up[i]) /\ Full(z.up[i].from) > p

BatchGoesOn(z, p) ==
    \/ AskAbove(z, p)
    \/ p \notin z.have \cup Coming(z) /\ z.continue = p
    \/ p \notin z.have /\ Follows(z, p)
    \/ p \in z.have /\ TopComes(z)

(* The blocks that the client or a message names. *)
Named(z) ==
    Seen(z) \cup Announced(z) \cup Wanted(z) \cup Requested(z) \cup Coming(z) \cup z.asked

(* All that there is beyond p ends the gap. *)
OnlyTops(z, p) ==
    /\ \A x \in 1..p : x \in z.known
    /\ \A x \in Nat : x \in Named(z) => x <= p \/ Top(z, x)
    /\ \A x \in z.orphans : Top(z, x)

Regular(z, p) == OnlyTops(z, p) /\ ComeInOrder(z, p) /\ AsksInOrder(z, p) /\ BatchGoesOn(z, p)

FirstIsRegular(z) == z.drops = 0 /\ Gap(z) => \E p \in Nat : Regular(z, p)

Sound(z) ==
    /\ IsLink(z)
    /\ KnownUnderWay(z) /\ AskedNotHeld(z)
    /\ LastIsLast(z) /\ ContinueSeen(z)
    /\ GapIsClosing(z) /\ RepeatIsNeedless(z) /\ OrphanIsNotRequested(z)

SoundLink(z) == Sound(z) /\ FirstIsRegular(z)

----------------------------------------------------------------------------
(* Heights and gaps. *)

(* A batch ends above the block that the locator names. *)
LEMMA HeightFacts ==
    ASSUME NEW f \in Int
    PROVE  /\ Height(f) \in Nat /\ Found(f) \in Nat /\ Found(f) <= Height(f)
           /\ Full(f) \in Nat /\ Full(f) > Height(f)
           /\ Found(f) + Limit + DistanceBack(f) = Full(f)
  BY SyncAssumption DEF Height, Found, Full, DistanceBack

(* A tree has all that leads to one of its blocks. *)
LEMMA HaveBelow ==
    ASSUME NEW h, NEW b, NEW o, IsTree(h, b, o), NEW f \in h, NEW x \in 1..f
    PROVE  x \in h
<1> DEFINE T == {k \in Nat : k < f /\ f - k \notin h}
<1>1. f \in Int
  BY DEF IsTree
<1>2. SUFFICES ASSUME x \notin h PROVE FALSE
  OBVIOUS
<1>3. f - x \in T
  <2>1. f - x \in Nat /\ f - x < f /\ f - (f - x) = x
    BY <1>1
  <2> QED
    BY <1>2, <2>1
<1>4. PICK k \in T : \A j \in T : k <= j
  <2> HIDE DEF T
  <2>1. T \subseteq Nat
    BY DEF T
  <2> QED
    BY <1>3, <2>1, LeastElement
<1>5. k # 0 /\ k \in Nat /\ k < f /\ f - k \notin h
  BY <1>1, <1>4
<1>6. k - 1 \in Nat /\ k - 1 < f /\ k - 1 \notin T
  BY <1>1, <1>4, <1>5
<1>7. f - (k - 1) \in h
  BY <1>6
<1>8. Prev(f - (k - 1)) = f - k /\ f - (k - 1) # 0
  BY <1>1, <1>5 DEF Prev
<1> QED
  BY <1>5, <1>7, <1>8 DEF IsTree, Connected

(* The tree has what it shares with the server's chain. *)
LEMMA HaveFound ==
    ASSUME NEW z, IsLink(z), NEW f \in z.have, NEW x \in 1..Found(f)
    PROVE  x \in z.have
<1>1. f \in Int
  BY DEF IsLink, IsTree
<1>2. Found(f) = f
  BY <1>1 DEF Found
<1> QED
  BY <1>2, HaveBelow DEF IsLink

(* What was seen up to t and from t on is all. *)
LEMMA NoGap ==
    ASSUME NEW z, IsLink(z), NEW t \in Int, Top(z, t), \A x \in 1..t : x \in Seen(z)
    PROVE  ~Gap(z)
<1> SUFFICES ASSUME NEW x \in 1..z.tip PROVE x \in Seen(z)
  BY DEF Gap
<1> QED
  BY DEF Top, SeenFrom, IsLink

(* A tree that has a top has all. *)
LEMMA NoGapHave ==
    ASSUME NEW z, IsLink(z), NEW t \in z.have, Top(z, t)
    PROVE  ~Gap(z)
<1>1. t \in Int
  BY DEF IsLink, IsTree
<1>2. \A x \in 1..t : x \in Seen(z)
  BY HaveBelow DEF IsLink, Seen, Held
<1> QED
  BY <1>1, <1>2, NoGap

(* The gap only shrinks as long as the connection lasts. *)
Grows(z, y) ==
    /\ z.tip <= y.tip
    /\ \A x \in 1..y.tip : x \in Seen(z) \/ x > z.tip => x \in Seen(y)

(* What is good for a gap stays so. *)
LEMMA GrowsFacts ==
    ASSUME NEW z, NEW y, IsLink(z), IsLink(y), Grows(z, y)
    PROVE  /\ Gap(y) => Gap(z)
           /\ \A t : SeenFrom(z, t) => SeenFrom(y, t)
           /\ \A t : Top(z, t) => Top(y, t)
           /\ \A m : Good(z, m) => Good(y, m)
<1>1. z.tip \in Nat /\ y.tip \in Nat
  BY DEF IsLink
<1>2. Gap(y) => Gap(z)
  BY <1>1 DEF Gap, Grows
<1>3. \A t : SeenFrom(z, t) => SeenFrom(y, t)
  BY <1>1 DEF SeenFrom, Grows
<1> QED
  BY <1>2, <1>3 DEF Top, Good

----------------------------------------------------------------------------
(* Messages. *)

(* The messages and their fields. *)
LEMMA MessageFacts ==
    ASSUME NEW m
    PROVE  /\ m \in Requests => \/ m.cmd = "getblocks" /\ m.from \in Int /\ m.stop \in Nat
                                   /\ m = GetBlocks(m.from, m.stop)
                                \/ m.cmd = "getdata" /\ m.invs \in Seq(Nat)
           /\ m \in Answers => \/ m.cmd = "inv" /\ m.invs \in Seq(Nat)
                               \/ m.cmd = "block" /\ m.block \in Nat /\ m = BlockMsg(m.block)
           /\ \A b : BlockMsg(b).cmd = "block" /\ BlockMsg(b).block = b
           /\ \A s : Inv(s).cmd = "inv" /\ Inv(s).invs = s
           /\ \A s : GetData(s).cmd = "getdata" /\ GetData(s).invs = s
           /\ \A f, n : GetBlocks(f, n).cmd = "getblocks" /\ GetBlocks(f, n).from = f
                        /\ GetBlocks(f, n).stop = n
           /\ \A b \in Nat : BlockMsg(b) \in Answers
           /\ \A s \in Seq(Nat) : Inv(s) \in Answers /\ GetData(s) \in Requests
           /\ \A f \in Int, n \in Nat : GetBlocks(f, n) \in Requests
<1>1. m \in Requests => \/ m.cmd = "getblocks" /\ m.from \in Int /\ m.stop \in Nat
                           /\ m = GetBlocks(m.from, m.stop)
                        \/ m.cmd = "getdata" /\ m.invs \in Seq(Nat)
  BY DEF Requests, GetBlocks
<1>2. m \in Answers => \/ m.cmd = "inv" /\ m.invs \in Seq(Nat)
                       \/ m.cmd = "block" /\ m.block \in Nat /\ m = BlockMsg(m.block)
  BY DEF Answers, BlockMsg
<1>3. /\ \A b : BlockMsg(b).cmd = "block" /\ BlockMsg(b).block = b
      /\ \A s : Inv(s).cmd = "inv" /\ Inv(s).invs = s
      /\ \A s : GetData(s).cmd = "getdata" /\ GetData(s).invs = s
      /\ \A f, n : GetBlocks(f, n).cmd = "getblocks" /\ GetBlocks(f, n).from = f
                   /\ GetBlocks(f, n).stop = n
  BY DEF BlockMsg, Inv, GetData, GetBlocks
<1>4. \A b \in Nat : BlockMsg(b) \in Answers
  BY DEF BlockMsg, Answers
<1>5. \A s \in Seq(Nat) : Inv(s) \in Answers /\ GetData(s) \in Requests
  BY DEF Inv, GetData, Answers, Requests
<1>6. \A f \in Int, n \in Nat : GetBlocks(f, n) \in Requests
  BY DEF GetBlocks, Requests
<1> QED
  BY <1>1, <1>2, <1>3, <1>4, <1>5, <1>6

(* r is s without its first message. *)
Dropped(s, r) ==
    /\ Len(s) >= 1 /\ Len(s) = Len(r) + 1
    /\ \A i \in 1..Len(r) : r[i] = s[i + 1]

(* r is s with one more message. *)
Added(s, r, m) ==
    /\ Len(r) = Len(s) + 1
    /\ \A i \in 1..Len(s) : r[i] = s[i]
    /\ r[Len(s) + 1] = m

(* r is s without the first block of its first list. *)
Shortened(s, r, cmd, b) ==
    /\ Len(s) >= 1 /\ Len(s) = Len(r)
    /\ s[1].cmd = cmd /\ r[1].cmd = cmd
    /\ Len(s[1].invs) = Len(r[1].invs) + 1
    /\ s[1].invs \in Seq(Nat) /\ r[1].invs \in Seq(Nat)
    /\ s[1].invs[1] = b
    /\ \A i \in 1..Len(r[1].invs) : r[1].invs[i] = s[1].invs[i + 1]
    /\ \A i \in 2..Len(s) : r[i] = s[i]

(* The rest of the messages. *)
LEMMA TailDropped ==
    ASSUME NEW S, NEW s \in Seq(S), s # << >>
    PROVE  Dropped(s, Tail(s)) /\ Tail(s) \in Seq(S) /\ s[1] = Head(s) /\ s[1] \in S
<1>1. Len(s) \in Nat /\ Len(s) >= 1
  OBVIOUS
<1> QED
  BY <1>1 DEF Dropped

(* A message that is appended. *)
LEMMA AppendAdded ==
    ASSUME NEW S, NEW s \in Seq(S), NEW m \in S
    PROVE  Added(s, Append(s, m), m) /\ Append(s, m) \in Seq(S)
  BY DEF Added

(* What is listed or sent. *)
LEMMA DroppedFacts ==
    ASSUME NEW S, NEW s \in Seq(S), NEW r \in Seq(S), Dropped(s, r)
    PROVE  /\ \A cmd, b : Listed(s, cmd, b) <=> Lists(s[1], cmd, b) \/ Listed(r, cmd, b)
           /\ \A b : Sent(s, b) <=> s[1] = BlockMsg(b) \/ Sent(r, b)
<1>1. Len(s) \in Nat /\ Len(r) \in Nat
  OBVIOUS
<1>2. \A i \in 1..Len(s) : i = 1 \/ (i - 1 \in 1..Len(r) /\ r[i - 1] = s[i])
  BY <1>1 DEF Dropped
<1>3. \A i \in 1..Len(r) : i + 1 \in 1..Len(s) /\ r[i] = s[i + 1]
  BY <1>1 DEF Dropped
<1>4. 1 \in 1..Len(s)
  BY <1>1 DEF Dropped
<1> QED
  BY <1>2, <1>3, <1>4 DEF Listed, Sent

(* A message more lists or sends its blocks. *)
LEMMA AddedFacts ==
    ASSUME NEW S, NEW s \in Seq(S), NEW r \in Seq(S), NEW m, Added(s, r, m)
    PROVE  /\ \A cmd, b : Listed(r, cmd, b) <=> Lists(m, cmd, b) \/ Listed(s, cmd, b)
           /\ \A b : Sent(r, b) <=> m = BlockMsg(b) \/ Sent(s, b)
<1>1. Len(s) \in Nat /\ Len(r) \in Nat
  OBVIOUS
<1>2. \A i \in 1..Len(r) : i = Len(s) + 1 \/ (i \in 1..Len(s) /\ r[i] = s[i])
  BY <1>1 DEF Added
<1>3. \A i \in 1..Len(s) : i \in 1..Len(r) /\ r[i] = s[i]
  BY <1>1 DEF Added
<1>4. Len(s) + 1 \in 1..Len(r) /\ r[Len(s) + 1] = m
  BY <1>1 DEF Added
<1> QED
  BY <1>2, <1>3, <1>4 DEF Listed, Sent

(* A shorter list lists one block less. *)
LEMMA ShortenedFacts ==
    ASSUME NEW S, NEW s \in Seq(S), NEW r \in Seq(S), NEW cmd, NEW b, Shortened(s, r, cmd, b),
           cmd # "block"
    PROVE  /\ \A x : Listed(s, cmd, x) <=> x = b \/ Listed(r, cmd, x)
           /\ \A c, x : c # cmd => (Listed(s, c, x) <=> Listed(r, c, x))
           /\ \A x : Sent(s, x) <=> Sent(r, x)
<1>1. Len(s) \in Nat /\ Len(s) >= 1 /\ Len(r) = Len(s) /\ 1 \in 1..Len(s)
  BY DEF Shortened
<1>2. \A i \in 1..Len(s) : i = 1 \/ r[i] = s[i]
  BY <1>1 DEF Shortened
<1>3. \A x : x \in Elements(s[1].invs) <=> x = b \/ x \in Elements(r[1].invs)
  <2> DEFINE u == s[1].invs
             v == r[1].invs
  <2>0. u \in Seq(Nat) /\ v \in Seq(Nat) /\ Len(u) = Len(v) + 1 /\ u[1] = b
        /\ \A i \in 1..Len(v) : v[i] = u[i + 1]
    BY DEF Shortened
  <2> HIDE DEF u, v
  <2>1. DOMAIN u = 1..Len(u) /\ DOMAIN v = 1..Len(v) /\ Len(v) \in Nat /\ Len(u) \in Nat
    BY <2>0
  <2>2. \A i \in 1..Len(u) : i = 1 \/ (i - 1 \in 1..Len(v) /\ v[i - 1] = u[i])
    BY <2>0, <2>1
  <2>3. \A i \in 1..Len(v) : i + 1 \in 1..Len(u)
    BY <2>0, <2>1
  <2>4. 1 \in 1..Len(u)
    BY <2>0, <2>1
  <2>5. \A x : x \in Elements(u) <=> x = b \/ x \in Elements(v)
    <3>1. ASSUME NEW x \in Elements(u) PROVE x = b \/ x \in Elements(v)
      <4>1. PICK i \in 1..Len(u) : x = u[i]
        BY <2>1 DEF Elements
      <4>2. CASE i = 1
        BY <2>0, <4>1, <4>2
      <4>3. CASE i # 1
        <5>1. i - 1 \in DOMAIN v /\ v[i - 1] = x
          BY <2>1, <2>2, <4>1, <4>3
        <5> QED
          BY <5>1 DEF Elements
      <4> QED
        BY <4>2, <4>3
    <3>2. b \in Elements(u)
      BY <2>0, <2>1, <2>4 DEF Elements
    <3>3. ASSUME NEW x \in Elements(v) PROVE x \in Elements(u)
      <4>1. PICK i \in 1..Len(v) : x = v[i]
        BY <2>1 DEF Elements
      <4>2. i + 1 \in DOMAIN u /\ u[i + 1] = x
        BY <2>0, <2>1, <2>3, <4>1
      <4> QED
        BY <4>2 DEF Elements
    <3> QED
      BY <3>1, <3>2, <3>3
  <2> QED
    BY <2>5 DEF u, v
<1>4. s[1].cmd = cmd /\ r[1].cmd = cmd
  BY DEF Shortened
<1>5. \A x : Lists(s[1], cmd, x) <=> x = b \/ Lists(r[1], cmd, x)
  BY <1>3, <1>4 DEF Lists
<1>6. \A c, x : c # cmd => ~Lists(s[1], c, x) /\ ~Lists(r[1], c, x)
  BY <1>4 DEF Lists
<1>7. \A x : s[1] # BlockMsg(x) /\ r[1] # BlockMsg(x)
  BY <1>4 DEF BlockMsg
<1> QED
  BY <1>1, <1>2, <1>5, <1>6, <1>7 DEF Listed, Sent
----------------------------------------------------------------------------
(* How the connection changes. *)

SameTree(z, y) == y.have = z.have /\ y.best = z.best /\ y.orphans = z.orphans

SameQueue(z, y) == y.ready = z.ready /\ y.later = z.later

SameServer(z, y) ==
    y.known = z.known /\ y.continue = z.continue /\ y.tip = z.tip /\ y.drops = z.drops

(* PushGetBlocks() *)
Pushed(z, y, best0, s) ==
    IF z.last = <<best0, s>> THEN y.last = z.last /\ y.up = z.up
    ELSE y.last = <<best0, s>> /\ Added(z.up, y.up, GetBlocks(best0, s))

(* The queues have lengths. *)
LEMMA LinkLens ==
    ASSUME NEW z, IsLink(z)
    PROVE  Len(z.up) \in Nat /\ Len(z.down) \in Nat
<1>1. z.up \in Seq(Requests) /\ z.down \in Seq(Answers)
  BY DEF IsLink
<1> QED
  BY <1>1

(* A block that ends the gap stays on its way in down. *)
LEMMA FollowsFacts ==
    ASSUME NEW z, NEW y, IsLink(z), IsLink(y), Grows(z, y), NEW c \in Nat, Follows(z, c)
    PROVE  /\ y.down = z.down => Follows(y, c)
           /\ \A m : Added(z.down, y.down, m) => Follows(y, c)
           /\ \A b : Shortened(z.down, y.down, "inv", b) => Follows(y, c)
           /\ Dropped(z.down, y.down) /\ z.down[1] # BlockMsg(c) => Follows(y, c)
           /\ Dropped(z.down, y.down) /\ z.down[1] = BlockMsg(c) =>
                  \E t \in Announced(y) : Top(y, t)
           /\ \A b : Shortened(z.down, y.down, "inv", b) => \E t \in Announced(y) : Top(y, t)
<1>1. PICK j \in 1..Len(z.down), t \in Nat :
          /\ Lists(z.down[j], "inv", t) /\ Top(z, t)
          /\ \E i \in 1..(j - 1) : z.down[i] = BlockMsg(c)
  BY DEF Follows
<1>2. PICK i \in 1..(j - 1) : z.down[i] = BlockMsg(c)
  BY <1>1
<1>3. Top(y, t)
  BY <1>1, GrowsFacts
<1>4. Len(z.down) \in Nat /\ Len(y.down) \in Nat
  BY LinkLens
<1>5. j \in Nat /\ i \in Nat /\ i >= 1 /\ i < j /\ j <= Len(z.down)
  BY <1>4
<1>6. ASSUME y.down = z.down PROVE Follows(y, c)
  BY <1>1, <1>2, <1>3, <1>6 DEF Follows
<1>7. ASSUME NEW m, Added(z.down, y.down, m) PROVE Follows(y, c)
  <2>1. j \in 1..Len(y.down) /\ y.down[j] = z.down[j] /\ y.down[i] = z.down[i]
    BY SMTT(20), <1>4, <1>5, <1>7 DEF Added
  <2> QED
    BY <1>1, <1>2, <1>3, <2>1 DEF Follows
<1>8. ASSUME NEW b, Shortened(z.down, y.down, "inv", b)
      PROVE  Follows(y, c) /\ \E x \in Announced(y) : Top(y, x)
  <2>1. i # 1
    BY <1>2, <1>8, MessageFacts DEF Shortened
  <2>2. j \in 1..Len(y.down) /\ y.down[j] = z.down[j] /\ y.down[i] = z.down[i]
    BY <1>4, <1>5, <1>8, <2>1 DEF Shortened
  <2> QED
    BY <1>1, <1>2, <1>3, <2>2 DEF Follows, Announced, Listed
<1>9. ASSUME Dropped(z.down, y.down)
      PROVE  j - 1 \in 1..Len(y.down) /\ y.down[j - 1] = z.down[j]
  BY <1>4, <1>5, <1>9 DEF Dropped
<1>10. ASSUME Dropped(z.down, y.down), z.down[1] # BlockMsg(c) PROVE Follows(y, c)
  <2>0. i # 1
    BY <1>2, <1>10
  <2>1. i - 1 \in 1..(j - 2) /\ i - 1 \in 1..Len(y.down) /\ y.down[i - 1] = z.down[i]
    <3>1. i - 1 \in 1..(j - 2) /\ i - 1 \in 1..Len(y.down) /\ (i - 1) + 1 = i
      BY <1>4, <1>5, <1>10, <2>0 DEF Dropped
    <3> QED
      BY <3>1, <1>10 DEF Dropped
  <2>2. i - 1 \in 1..((j - 1) - 1)
    BY <1>5, <2>1
  <2> QED
    BY <1>1, <1>2, <1>3, <1>9, <1>10, <2>1, <2>2 DEF Follows
<1>11. ASSUME Dropped(z.down, y.down) PROVE \E x \in Announced(y) : Top(y, x)
  BY <1>1, <1>3, <1>9, <1>11 DEF Announced, Listed
<1> QED
  BY <1>6, <1>7, <1>8, <1>10, <1>11

(* The root of an orphan is just above a block that is not held. *)
LEMMA RootFacts ==
    ASSUME NEW h, NEW best0, NEW o, IsTree(h, best0, o), NEW b \in o
    PROVE  /\ OrphanRoot(o, b) \in Nat /\ OrphanRoot(o, b) # None /\ OrphanRoot(o, b) <= b
           /\ OrphanRoot(o, b) > Found(best0)
           /\ \A x \in OrphanRoot(o, b)..b : x \in o
<1> DEFINE r == OrphanRoot(o, b)
<1>0. o \subseteq Positive /\ b \in Nat /\ b > 0
  BY DEF IsTree, Positive
<1>4. r \in 1..b /\ (\A x \in (r + 1)..b : Prev(x) \in o) /\ Prev(r) \notin o
  BY <1>0, OrphanRootFacts
<1> HIDE DEF r
<1>5. ASSUME NEW x \in r..b PROVE x \in o
  <2>1. CASE x = b
    BY <2>1
  <2>2. CASE x # b
    <3>1. x + 1 \in (r + 1)..b /\ Prev(x + 1) = x
      BY <1>0, <1>4, <2>2 DEF Prev
    <3> QED
      BY <1>4, <3>1
  <2> QED
    BY <2>1, <2>2
<1>6. r > Found(best0)
  <2> SUFFICES ASSUME r <= Found(best0) PROVE FALSE
    BY <1>0, <1>4, HeightFacts DEF IsTree
  <2>1. best0 \in Int /\ best0 \in h
    BY DEF IsTree, Connected
  <2>2. r \in 1..best0
    BY <1>0, <1>4, <2>1 DEF Found
  <2>3. r \in h
    BY <2>1, <2>2, HaveBelow
  <2>4. r \in o
    BY <1>0, <1>4, <1>5
  <2> QED
    BY <2>3, <2>4 DEF IsTree, Connected
<1>7. r \in Nat /\ r # None /\ r <= b
  BY <1>0, <1>4 DEF None
<1> QED
  BY <1>5, <1>6, <1>7 DEF r
----------------------------------------------------------------------------
(* What a change of the queues does to the parts of the invariant. *)

(* What a step on the way down announces and sends. *)
LEMMA DownFacts ==
    ASSUME NEW z, NEW y, IsLink(z), IsLink(y)
    PROVE  /\ y.down = z.down => Announced(y) = Announced(z) /\ Coming(y) = Coming(z)
           /\ \A b \in Nat : Shortened(z.down, y.down, "inv", b) =>
                  Announced(z) = Announced(y) \cup {b} /\ Coming(y) = Coming(z)
           /\ Dropped(z.down, y.down) /\ z.down[1].cmd = "inv" /\ z.down[1].invs = << >> =>
                  Announced(y) = Announced(z) /\ Coming(y) = Coming(z)
           /\ \A b \in Nat : Dropped(z.down, y.down) /\ z.down[1] = BlockMsg(b) =>
                  Announced(y) = Announced(z) /\ Coming(z) = Coming(y) \cup {b}
           /\ \A b \in Nat : Added(z.down, y.down, BlockMsg(b)) =>
                  Announced(y) = Announced(z) /\ Coming(y) = Coming(z) \cup {b}
           /\ \A s \in Seq(Nat) : Added(z.down, y.down, Inv(s)) =>
                  Announced(y) = Announced(z) \cup Elements(s) /\ Coming(y) = Coming(z)
<1>0. z.down \in Seq(Answers) /\ y.down \in Seq(Answers)
  BY DEF IsLink
<1>1. y.down = z.down => Announced(y) = Announced(z) /\ Coming(y) = Coming(z)
  BY DEF Announced, Coming
<1>2. ASSUME NEW b \in Nat, Shortened(z.down, y.down, "inv", b)
      PROVE  Announced(z) = Announced(y) \cup {b} /\ Coming(y) = Coming(z)
  <2>1. /\ \A x : Listed(z.down, "inv", x) <=> x = b \/ Listed(y.down, "inv", x)
        /\ \A x : Sent(z.down, x) <=> Sent(y.down, x)
    BY <1>0, <1>2, ShortenedFacts
  <2> QED
    BY <2>1 DEF Announced, Coming
<1>3. ASSUME Dropped(z.down, y.down)
      PROVE  /\ \A cmd, x : Listed(z.down, cmd, x) <=> Lists(z.down[1], cmd, x) \/ Listed(y.down, cmd, x)
             /\ \A x : Sent(z.down, x) <=> z.down[1] = BlockMsg(x) \/ Sent(y.down, x)
  BY <1>0, <1>3, DroppedFacts
<1>4. ASSUME Dropped(z.down, y.down), z.down[1].cmd = "inv", z.down[1].invs = << >>
      PROVE  Announced(y) = Announced(z) /\ Coming(y) = Coming(z)
  <2>1. \A x : ~Lists(z.down[1], "inv", x)
    BY <1>4 DEF Lists, Elements
  <2>2. \A x : z.down[1] # BlockMsg(x)
    BY <1>4, MessageFacts
  <2> QED
    BY <1>3, <1>4, <2>1, <2>2 DEF Announced, Coming
<1>5. ASSUME NEW b \in Nat, Dropped(z.down, y.down), z.down[1] = BlockMsg(b)
      PROVE  Announced(y) = Announced(z) /\ Coming(z) = Coming(y) \cup {b}
  <2>1. \A x : ~Lists(z.down[1], "inv", x)
    BY <1>5, MessageFacts DEF Lists
  <2>2. \A x : z.down[1] = BlockMsg(x) <=> x = b
    BY <1>5, MessageFacts
  <2> QED
    BY <1>3, <1>5, <2>1, <2>2 DEF Announced, Coming
<1>6. ASSUME NEW m, Added(z.down, y.down, m)
      PROVE  /\ \A cmd, x : Listed(y.down, cmd, x) <=> Lists(m, cmd, x) \/ Listed(z.down, cmd, x)
             /\ \A x : Sent(y.down, x) <=> m = BlockMsg(x) \/ Sent(z.down, x)
  BY <1>0, <1>6, AddedFacts
<1>7. ASSUME NEW b \in Nat, Added(z.down, y.down, BlockMsg(b))
      PROVE  Announced(y) = Announced(z) /\ Coming(y) = Coming(z) \cup {b}
  <2>1. \A x : ~Lists(BlockMsg(b), "inv", x)
    BY MessageFacts DEF Lists
  <2>2. \A x : BlockMsg(b) = BlockMsg(x) <=> x = b
    BY MessageFacts
  <2> QED
    BY <1>6, <1>7, <2>1, <2>2 DEF Announced, Coming
<1>8. ASSUME NEW s \in Seq(Nat), Added(z.down, y.down, Inv(s))
      PROVE  Announced(y) = Announced(z) \cup Elements(s) /\ Coming(y) = Coming(z)
  <2>1. \A x : Lists(Inv(s), "inv", x) <=> x \in Elements(s)
    BY MessageFacts DEF Lists
  <2>2. \A x : Inv(s) # BlockMsg(x)
    BY MessageFacts
  <2>3. Elements(s) \subseteq Nat
    BY DEF Elements
  <2> QED
    BY <1>6, <1>8, <2>1, <2>2, <2>3 DEF Announced, Coming
<1> QED
  BY <1>1, <1>2, <1>4, <1>5, <1>7, <1>8

(* What a step on the way up requests. *)
LEMMA UpFacts ==
    ASSUME NEW z, NEW y, IsLink(z), IsLink(y)
    PROVE  /\ y.up = z.up => Requested(y) = Requested(z)
           /\ \A b \in Nat : Shortened(z.up, y.up, "getdata", b) => Requested(z) = Requested(y) \cup {b}
           /\ Dropped(z.up, y.up) /\ (Asks(z.up[1]) \/ z.up[1].invs = << >>) =>
                  Requested(y) = Requested(z)
           /\ \A f \in Int, s \in Nat : Added(z.up, y.up, GetBlocks(f, s)) =>
                  Requested(y) = Requested(z)
           /\ \A s \in Seq(Nat) : Added(z.up, y.up, GetData(s)) =>
                  Requested(y) = Requested(z) \cup Elements(s)
<1>0. z.up \in Seq(Requests) /\ y.up \in Seq(Requests)
  BY DEF IsLink
<1>1. y.up = z.up => Requested(y) = Requested(z)
  BY DEF Requested
<1>2. ASSUME NEW b \in Nat, Shortened(z.up, y.up, "getdata", b)
      PROVE  Requested(z) = Requested(y) \cup {b}
  <2>1. \A x : Listed(z.up, "getdata", x) <=> x = b \/ Listed(y.up, "getdata", x)
    BY <1>0, <1>2, ShortenedFacts
  <2> QED
    BY <2>1 DEF Requested
<1>3. ASSUME Dropped(z.up, y.up), Asks(z.up[1]) \/ z.up[1].invs = << >>
      PROVE  Requested(y) = Requested(z)
  <2>1. \A x : Listed(z.up, "getdata", x) <=> Lists(z.up[1], "getdata", x) \/ Listed(y.up, "getdata", x)
    BY <1>0, <1>3, DroppedFacts
  <2>2. \A x : ~Lists(z.up[1], "getdata", x)
    BY <1>3 DEF Lists, Asks, Elements
  <2> QED
    BY <2>1, <2>2 DEF Requested
<1>4. ASSUME NEW f \in Int, NEW s \in Nat, Added(z.up, y.up, GetBlocks(f, s))
      PROVE  Requested(y) = Requested(z)
  <2>1. \A x : Listed(y.up, "getdata", x) <=> Lists(GetBlocks(f, s), "getdata", x) \/ Listed(z.up, "getdata", x)
    BY <1>0, <1>4, AddedFacts
  <2>2. \A x : ~Lists(GetBlocks(f, s), "getdata", x)
    BY MessageFacts DEF Lists
  <2> QED
    BY <2>1, <2>2 DEF Requested
<1>5. ASSUME NEW s \in Seq(Nat), Added(z.up, y.up, GetData(s))
      PROVE  Requested(y) = Requested(z) \cup Elements(s)
  <2>1. \A x : Listed(y.up, "getdata", x) <=> Lists(GetData(s), "getdata", x) \/ Listed(z.up, "getdata", x)
    BY <1>0, <1>5, AddedFacts
  <2>2. \A x : Lists(GetData(s), "getdata", x) <=> x \in Elements(s)
    BY MessageFacts DEF Lists
  <2>3. Elements(s) \subseteq Nat
    BY DEF Elements
  <2> QED
    BY <2>1, <2>2, <2>3 DEF Requested
<1> QED
  BY <1>1, <1>2, <1>3, <1>4, <1>5

(* Where the messages of up are after a change. *)
LEMMA UpPlaces ==
    ASSUME NEW z, NEW y, IsLink(z), IsLink(y)
    PROVE  /\ \A m : Added(z.up, y.up, m) =>
                  /\ \A i \in 1..Len(z.up) : i \in 1..Len(y.up) /\ y.up[i] = z.up[i]
                  /\ \A i \in 1..Len(y.up) : (i \in 1..Len(z.up) /\ y.up[i] = z.up[i])
                                             \/ (i = Len(z.up) + 1 /\ y.up[i] = m)
                  /\ Len(z.up) + 1 \in 1..Len(y.up) /\ y.up[Len(z.up) + 1] = m
           /\ \A b : Shortened(z.up, y.up, "getdata", b) =>
                  /\ Len(y.up) = Len(z.up)
                  /\ \A i \in 1..Len(z.up) : y.up[i] = z.up[i]
                                             \/ (i = 1 /\ ~Asks(y.up[i]) /\ ~Asks(z.up[i]))
           /\ Dropped(z.up, y.up) =>
                  /\ 1 \in 1..Len(z.up)
                  /\ \A i \in 1..Len(z.up) : i = 1 \/ (i - 1 \in 1..Len(y.up) /\ y.up[i - 1] = z.up[i])
                  /\ \A i \in 1..Len(y.up) : i + 1 \in 1..Len(z.up) /\ y.up[i] = z.up[i + 1]
<1>0. Len(z.up) \in Nat /\ Len(y.up) \in Nat
  BY LinkLens
<1>1. ASSUME NEW m, Added(z.up, y.up, m)
      PROVE  /\ \A i \in 1..Len(z.up) : i \in 1..Len(y.up) /\ y.up[i] = z.up[i]
             /\ \A i \in 1..Len(y.up) : (i \in 1..Len(z.up) /\ y.up[i] = z.up[i])
                                        \/ (i = Len(z.up) + 1 /\ y.up[i] = m)
             /\ Len(z.up) + 1 \in 1..Len(y.up) /\ y.up[Len(z.up) + 1] = m
  BY <1>0, <1>1 DEF Added
<1>2. ASSUME NEW b, Shortened(z.up, y.up, "getdata", b)
      PROVE  /\ Len(y.up) = Len(z.up)
             /\ \A i \in 1..Len(z.up) : y.up[i] = z.up[i] \/ (i = 1 /\ ~Asks(y.up[i]) /\ ~Asks(z.up[i]))
  <2>1. /\ Len(y.up) = Len(z.up) /\ z.up[1].cmd = "getdata" /\ y.up[1].cmd = "getdata"
        /\ \A i \in 2..Len(z.up) : y.up[i] = z.up[i]
    BY <1>2 DEF Shortened
  <2>2. \A i \in 1..Len(z.up) : i = 1 \/ i \in 2..Len(z.up)
    BY <1>0
  <2> QED
    BY <2>1, <2>2 DEF Asks
<1>3. ASSUME Dropped(z.up, y.up)
      PROVE  /\ 1 \in 1..Len(z.up)
             /\ \A i \in 1..Len(z.up) : i = 1 \/ (i - 1 \in 1..Len(y.up) /\ y.up[i - 1] = z.up[i])
             /\ \A i \in 1..Len(y.up) : i + 1 \in 1..Len(z.up) /\ y.up[i] = z.up[i + 1]
  BY <1>0, <1>3 DEF Dropped
<1> QED
  BY <1>1, <1>2, <1>3

(* Who asks, and well, before and after a step. *)
LEMMA AskFacts ==
    ASSUME NEW z, NEW y, IsLink(z), IsLink(y), Grows(z, y)
    PROVE  /\ y.up = z.up => (Asking(y) <=> Asking(z)) /\ (GoodAsked(z) => GoodAsked(y))
           /\ \A m : Added(z.up, y.up, m) =>
                  (Asking(y) <=> Asking(z) \/ Asks(m)) /\ (GoodAsked(z) \/ Good(y, m) => GoodAsked(y))
           /\ \A b : Shortened(z.up, y.up, "getdata", b) =>
                  (Asking(y) <=> Asking(z)) /\ (GoodAsked(z) => GoodAsked(y))
           /\ Dropped(z.up, y.up) =>
                  (Asking(z) <=> Asks(z.up[1]) \/ Asking(y))
                  /\ (GoodAsked(z) => Good(z, z.up[1]) \/ GoodAsked(y))
<1>0. \A m : Good(z, m) => Good(y, m) /\ Asks(m)
  BY GrowsFacts DEF Good
<1>1. y.up = z.up => (Asking(y) <=> Asking(z)) /\ (GoodAsked(z) => GoodAsked(y))
  BY <1>0 DEF Asking, GoodAsked
<1>2. ASSUME NEW m, Added(z.up, y.up, m)
      PROVE  (Asking(y) <=> Asking(z) \/ Asks(m)) /\ (GoodAsked(z) \/ Good(y, m) => GoodAsked(y))
  <2>1. /\ \A i \in 1..Len(z.up) : i \in 1..Len(y.up) /\ y.up[i] = z.up[i]
        /\ \A i \in 1..Len(y.up) : (i \in 1..Len(z.up) /\ y.up[i] = z.up[i])
                                   \/ (i = Len(z.up) + 1 /\ y.up[i] = m)
        /\ Len(z.up) + 1 \in 1..Len(y.up) /\ y.up[Len(z.up) + 1] = m
    BY <1>2, LinkLens DEF Added
  <2> QED
    BY <1>0, <2>1 DEF Asking, GoodAsked
<1>3. ASSUME NEW b, Shortened(z.up, y.up, "getdata", b)
      PROVE  (Asking(y) <=> Asking(z)) /\ (GoodAsked(z) => GoodAsked(y))
  <2>1. /\ Len(y.up) = Len(z.up)
        /\ \A i \in 1..Len(z.up) : y.up[i] = z.up[i] \/ (i = 1 /\ ~Asks(y.up[i]) /\ ~Asks(z.up[i]))
    BY <1>3, UpPlaces
  <2> QED
    BY <1>0, <2>1 DEF Asking, GoodAsked
<1>4. ASSUME Dropped(z.up, y.up)
      PROVE  (Asking(z) <=> Asks(z.up[1]) \/ Asking(y))
             /\ (GoodAsked(z) => Good(z, z.up[1]) \/ GoodAsked(y))
  <2>1. /\ 1 \in 1..Len(z.up)
        /\ \A i \in 1..Len(z.up) : i = 1 \/ (i - 1 \in 1..Len(y.up) /\ y.up[i - 1] = z.up[i])
        /\ \A i \in 1..Len(y.up) : i + 1 \in 1..Len(z.up) /\ y.up[i] = z.up[i + 1]
    BY <1>4, UpPlaces
  <2> QED
    BY <1>0, <2>1 DEF Asking, GoodAsked
<1> QED
  BY <1>1, <1>2, <1>3, <1>4
(* The last request, when no other is sent. *)
LEMMA LastFacts ==
    ASSUME NEW z, NEW y, IsLink(z), IsLink(y), LastIsLast(z),
           z.have \subseteq y.have, y.last = z.last,
           y.best = z.best \/ Height(z.best) < Height(y.best)
    PROVE  /\ y.up = z.up => LastIsLast(y)
           /\ \A m : Added(z.up, y.up, m) /\ ~Asks(m) => LastIsLast(y)
           /\ \A b : Shortened(z.up, y.up, "getdata", b) => LastIsLast(y)
           /\ Dropped(z.up, y.up) => LastIsLast(y)
<1> DEFINE m0 == GetBlocks(z.last[1], z.last[2])
<1>0. Len(z.up) \in Nat /\ Len(y.up) \in Nat /\ Asks(m0)
  BY LinkLens, MessageFacts DEF Asks
<1>1. IsAsk(y, y.last[1], y.last[2])
  BY DEF LastIsLast, IsAsk
<1>2. y.last[1] = y.best \/ Height(y.last[1]) < Height(y.best)
  <2>1. Height(z.best) \in Nat /\ Height(y.best) \in Nat /\ Height(z.last[1]) \in Nat
    BY HeightFacts DEF IsLink, IsTree
  <2> QED
    BY <2>1 DEF LastIsLast
<1>3. ASSUME NEW i \in 1..Len(z.up), Asks(z.up[i])
      PROVE  /\ IsAsk(y, z.up[i].from, z.up[i].stop)
             /\ \E j \in i..Len(z.up) : z.up[j] = m0
  BY <1>3 DEF LastIsLast, IsAsk
<1> HIDE DEF m0
<1>4. SUFFICES
        ASSUME \/ y.up = z.up
               \/ \E m : Added(z.up, y.up, m) /\ ~Asks(m)
               \/ \E b : Shortened(z.up, y.up, "getdata", b)
               \/ Dropped(z.up, y.up),
               NEW i \in 1..Len(y.up), Asks(y.up[i])
        PROVE  /\ IsAsk(y, y.up[i].from, y.up[i].stop)
               /\ \E j \in i..Len(y.up) : y.up[j] = m0
  BY <1>1, <1>2 DEF LastIsLast, m0
<1>5. CASE y.up = z.up
  BY <1>3, <1>4, <1>5
<1>6. ASSUME NEW m, Added(z.up, y.up, m), ~Asks(m)
      PROVE  /\ IsAsk(y, y.up[i].from, y.up[i].stop)
             /\ \E j \in i..Len(y.up) : y.up[j] = m0
  <2>1. i \in 1..Len(z.up) /\ y.up[i] = z.up[i]
    <3>1. i # Len(z.up) + 1
      BY <1>4, <1>6 DEF Added
    <3> QED
      BY <1>0, <1>6, <3>1 DEF Added
  <2>2. PICK j \in i..Len(z.up) : z.up[j] = m0
    BY <1>3, <1>4, <2>1
  <2>3. j \in i..Len(y.up) /\ y.up[j] = m0
    BY <1>0, <1>6, <2>1, <2>2 DEF Added
  <2> QED
    BY <1>3, <1>4, <2>1, <2>3
<1>7. ASSUME NEW b, Shortened(z.up, y.up, "getdata", b)
      PROVE  /\ IsAsk(y, y.up[i].from, y.up[i].stop)
             /\ \E j \in i..Len(y.up) : y.up[j] = m0
  <2>1. /\ Len(y.up) = Len(z.up)
        /\ \A k \in 1..Len(z.up) : y.up[k] = z.up[k] \/ (k = 1 /\ ~Asks(y.up[k]) /\ ~Asks(z.up[k]))
    BY <1>7, UpPlaces
  <2>2. i \in 1..Len(z.up) /\ y.up[i] = z.up[i]
    BY <1>4, <2>1
  <2>3. PICK j \in i..Len(z.up) : z.up[j] = m0
    BY <1>3, <1>4, <2>2
  <2>4. j \in 1..Len(z.up) /\ j \in i..Len(y.up)
    BY <1>0, <2>1, <2>2, <2>3
  <2>5. y.up[j] = m0
    BY <1>0, <2>1, <2>3, <2>4
  <2> QED
    BY <1>3, <1>4, <2>2, <2>4, <2>5
<1>8. CASE Dropped(z.up, y.up)
  <2>1. i + 1 \in 1..Len(z.up) /\ y.up[i] = z.up[i + 1]
    BY <1>0, <1>8 DEF Dropped
  <2>2. PICK j \in (i + 1)..Len(z.up) : z.up[j] = m0
    BY <1>3, <1>4, <2>1
  <2>3. j - 1 \in i..Len(y.up) /\ y.up[j - 1] = m0
    <3>1. j - 1 \in i..Len(y.up) /\ j - 1 \in 1..Len(y.up) /\ (j - 1) + 1 = j
      BY <1>0, <1>8, <2>1, <2>2 DEF Dropped
    <3> QED
      BY <1>8, <2>2, <3>1 DEF Dropped
  <2> QED
    BY <1>3, <1>4, <2>1, <2>3
<1> QED
  BY <1>4, <1>5, <1>6, <1>7, <1>8

(* The last request, when one is sent. *)
LEMMA LastPushed ==
    ASSUME NEW z, NEW y, IsLink(z), IsLink(y), LastIsLast(z),
           z.have \subseteq y.have, y.best = z.best,
           NEW s \in Nat, s = None \/ s > Found(z.best), Pushed(z, y, z.best, s)
    PROVE  LastIsLast(y)
<1>1. CASE z.last = <<z.best, s>>
  BY <1>1, LastFacts DEF Pushed
<1>2. CASE z.last # <<z.best, s>>
  <2>1. y.last = <<z.best, s>> /\ Added(z.up, y.up, GetBlocks(z.best, s))
    BY <1>2 DEF Pushed
  <2>2. y.last[1] = z.best /\ y.last[2] = s
    BY <2>1
  <2>3. IsAsk(y, z.best, s)
    BY DEF IsAsk, IsLink, IsTree, Connected
  <2>4. Len(z.up) \in Nat /\ Len(y.up) \in Nat
    BY LinkLens
  <2>5. ASSUME NEW i \in 1..Len(y.up), Asks(y.up[i])
        PROVE  /\ IsAsk(y, y.up[i].from, y.up[i].stop)
               /\ \E j \in i..Len(y.up) : y.up[j] = GetBlocks(z.best, s)
    <3>1. Len(y.up) \in i..Len(y.up) /\ y.up[Len(y.up)] = GetBlocks(z.best, s)
      BY <2>1, <2>4 DEF Added
    <3>2. CASE i \in 1..Len(z.up)
      BY <2>1, <2>5, <3>1, <3>2 DEF Added, LastIsLast, IsAsk
    <3>3. CASE i \notin 1..Len(z.up)
      <4>1. y.up[i] = GetBlocks(z.best, s)
        BY <2>1, <2>4, <3>3 DEF Added
      <4> QED
        BY <2>3, <3>1, <4>1, MessageFacts
    <3> QED
      BY <3>2, <3>3
  <2> QED
    BY <2>2, <2>3, <2>5 DEF LastIsLast
<1> QED
  BY <1>1, <1>2

(* An orphan that ends a batch, when no request is sent. *)
LEMMA NotRequestedFacts ==
    ASSUME NEW z, NEW y, IsLink(z), IsLink(y), OrphanIsNotRequested(z),
           y.best = z.best, y.last = z.last,
           Full(z.best) \in y.orphans => Full(z.best) \in z.orphans \/ z.last[2] <= Full(z.best)
    PROVE  /\ y.up = z.up => OrphanIsNotRequested(y)
           /\ \A m : Added(z.up, y.up, m)
                     /\ (Lists(m, "getdata", Full(z.best)) => Full(z.best) \notin y.orphans) =>
                  OrphanIsNotRequested(y)
           /\ \A b : Shortened(z.up, y.up, "getdata", b) => OrphanIsNotRequested(y)
           /\ Dropped(z.up, y.up) => OrphanIsNotRequested(y)
<1> DEFINE f == Full(z.best)
<1>0. Len(z.up) \in Nat /\ Len(y.up) \in Nat /\ f \in Nat /\ z.last[2] \in Nat
  BY LinkLens, HeightFacts DEF IsLink, IsTree
<1>1. ASSUME y.last[1] = y.best, y.last[2] > Full(y.best), Full(y.best) \in y.orphans,
             NEW i \in 1..Len(z.up), Lists(z.up[i], "getdata", f)
      PROVE  \E j \in (i + 1)..Len(z.up) : Asks(z.up[j])
  <2>1. f \in z.orphans
    BY <1>0, <1>1
  <2> QED
    BY <1>1, <2>1 DEF OrphanIsNotRequested
<1> HIDE DEF f
<1>4. SUFFICES
        ASSUME \/ y.up = z.up
               \/ \E m : Added(z.up, y.up, m) /\ (Lists(m, "getdata", f) => f \notin y.orphans)
               \/ \E b : Shortened(z.up, y.up, "getdata", b)
               \/ Dropped(z.up, y.up),
               y.last[1] = y.best, y.last[2] > Full(y.best), Full(y.best) \in y.orphans,
               NEW i \in 1..Len(y.up), Lists(y.up[i], "getdata", f)
        PROVE  \E j \in (i + 1)..Len(y.up) : Asks(y.up[j])
  BY DEF OrphanIsNotRequested, f
<1>5. CASE y.up = z.up
  BY <1>1, <1>4, <1>5
<1>6. ASSUME NEW m, Added(z.up, y.up, m), Lists(m, "getdata", f) => f \notin y.orphans
      PROVE  \E j \in (i + 1)..Len(y.up) : Asks(y.up[j])
  <2>1. i \in 1..Len(z.up) /\ y.up[i] = z.up[i]
    <3>1. i # Len(z.up) + 1
      BY <1>4, <1>6 DEF Added, f
    <3> QED
      BY <1>0, <1>6, <3>1 DEF Added
  <2>2. PICK j \in (i + 1)..Len(z.up) : Asks(z.up[j])
    BY <1>1, <1>4, <2>1
  <2>3. j \in (i + 1)..Len(y.up) /\ y.up[j] = z.up[j]
    BY <1>0, <1>6, <2>1, <2>2 DEF Added
  <2> QED
    BY <2>2, <2>3
<1>7. ASSUME NEW b, Shortened(z.up, y.up, "getdata", b)
      PROVE  \E j \in (i + 1)..Len(y.up) : Asks(y.up[j])
  <2>0. /\ Len(y.up) = Len(z.up)
        /\ \A k \in 1..Len(z.up) : y.up[k] = z.up[k] \/ (k = 1 /\ ~Asks(y.up[k]) /\ ~Asks(z.up[k]))
    BY <1>7, UpPlaces
  <2>1. i \in 1..Len(z.up) /\ Lists(z.up[i], "getdata", f)
    <3>1. i \in 1..Len(z.up)
      BY <2>0
    <3>2. CASE i = 1
      <4>1. z.up \in Seq(Requests) /\ y.up \in Seq(Requests)
        BY DEF IsLink
      <4>2. f \in Elements(y.up[1].invs) /\ z.up[1].cmd = "getdata"
        BY <1>4, <1>7, <3>2 DEF Lists, Shortened
      <4>3. f \in Elements(z.up[1].invs)
        <5> DEFINE u == z.up[1].invs
                   v == y.up[1].invs
        <5>1. u \in Seq(Nat) /\ v \in Seq(Nat) /\ Len(u) = Len(v) + 1
              /\ \A k \in 1..Len(v) : v[k] = u[k + 1]
          BY <1>7 DEF Shortened
        <5>2. PICK k \in DOMAIN v : f = v[k]
          BY <4>2 DEF Elements
        <5> HIDE DEF u, v
        <5>3. k \in 1..Len(v) /\ Len(v) \in Nat
          BY <5>1
        <5>4. k + 1 \in DOMAIN u /\ u[k + 1] = f
          BY <5>1, <5>2, <5>3
        <5> QED
          BY <5>4 DEF Elements, u
      <4> QED
        BY <3>1, <3>2, <4>2, <4>3 DEF Lists
    <3>3. CASE i # 1
      BY <1>4, <2>0, <3>1, <3>3
    <3> QED
      BY <3>2, <3>3
  <2>2. PICK j \in (i + 1)..Len(z.up) : Asks(z.up[j])
    BY <1>1, <1>4, <2>1
  <2>3. j \in 1..Len(z.up) /\ j \in (i + 1)..Len(y.up)
    BY <1>0, <2>0, <2>1, <2>2
  <2>4. Asks(y.up[j])
    BY <2>0, <2>2, <2>3
  <2> QED
    BY <2>3, <2>4
<1>8. CASE Dropped(z.up, y.up)
  <2>1. i + 1 \in 1..Len(z.up) /\ y.up[i] = z.up[i + 1]
    BY <1>0, <1>8 DEF Dropped
  <2>2. PICK j \in (i + 2)..Len(z.up) : Asks(z.up[j])
    <3>1. \E j \in ((i + 1) + 1)..Len(z.up) : Asks(z.up[j])
      BY <1>1, <1>4, <2>1
    <3>2. (i + 1) + 1 = i + 2
      BY <1>0
    <3> QED
      BY <3>1, <3>2
  <2>3. j - 1 \in (i + 1)..Len(y.up) /\ y.up[j - 1] = z.up[j]
    <3>1. j - 1 \in (i + 1)..Len(y.up) /\ j - 1 \in 1..Len(y.up) /\ (j - 1) + 1 = j
      BY <1>0, <1>8, <2>1, <2>2 DEF Dropped
    <3> QED
      BY <1>8, <3>1 DEF Dropped
  <2> QED
    BY <2>2, <2>3
<1> QED
  BY <1>4, <1>5, <1>6, <1>7, <1>8 DEF f
----------------------------------------------------------------------------
(* The steps of the client keep the invariant. *)

(* An inventory that is in the tree. *)
HeldInv(z, y, b) ==
    /\ b \in z.have /\ Shortened(z.down, y.down, "inv", b)
    /\ SameTree(z, y) /\ SameQueue(z, y) /\ SameServer(z, y)
    /\ y.asked = z.asked /\ y.last = z.last /\ y.up = z.up

(* An inventory that is an orphan. *)
OrphanInv(z, y, b) ==
    /\ b \in z.orphans /\ Shortened(z.down, y.down, "inv", b)
    /\ SameTree(z, y) /\ SameQueue(z, y) /\ SameServer(z, y)
    /\ y.asked = z.asked
    /\ Pushed(z, y, z.best, OrphanRoot(z.orphans, b))

(* An inventory that is queued. *)
NewInv(z, y, b) ==
    /\ b \notin Held(z) /\ Shortened(z.down, y.down, "inv", b)
    /\ SameTree(z, y) /\ SameServer(z, y)
    /\ \/ y.ready = Append(z.ready, b) /\ y.later = z.later
       \/ y.ready = z.ready /\ y.later = Append(z.later, b) /\ b \in z.asked
    /\ y.asked = z.asked \cup {b} /\ y.last = z.last /\ y.up = z.up

(* The end of an inv message. *)
EmptyInv(z, y) ==
    /\ Dropped(z.down, y.down) /\ z.down[1].cmd = "inv" /\ z.down[1].invs = << >>
    /\ SameTree(z, y) /\ SameQueue(z, y) /\ SameServer(z, y)
    /\ y.asked = z.asked /\ y.last = z.last /\ y.up = z.up

(* A block that is held. *)
HeldBlock(z, y, b) ==
    /\ b \in Held(z) /\ Dropped(z.down, y.down) /\ z.down[1] = BlockMsg(b)
    /\ SameTree(z, y) /\ SameQueue(z, y) /\ SameServer(z, y)
    /\ y.asked = z.asked /\ y.last = z.last /\ y.up = z.up

(* A block that becomes an orphan. *)
OrphanBlock(z, y, b) ==
    /\ b \notin Held(z) /\ Dropped(z.down, y.down) /\ z.down[1] = BlockMsg(b)
    /\ y.have = z.have /\ y.best = z.best /\ y.orphans = z.orphans \cup {b}
    /\ SameQueue(z, y) /\ SameServer(z, y)
    /\ y.asked = z.asked \ {b}
    /\ Pushed(z, y, z.best, OrphanRoot(y.orphans, b))

(* A block that is connected, with the orphans up to n. *)
NextBlock(z, y, b, n) ==
    /\ b \notin Held(z) /\ Dropped(z.down, y.down) /\ z.down[1] = BlockMsg(b)
    /\ n >= b /\ (b + 1)..n \subseteq z.orphans
    /\ y.have = z.have \cup b..n /\ y.orphans = z.orphans \ b..n
    /\ y.best = IF Height(n) > Height(z.best) THEN n ELSE z.best
    /\ SameQueue(z, y) /\ SameServer(z, y)
    /\ y.asked = z.asked \ {b} /\ y.last = z.last /\ y.up = z.up

(* reply() *)
Replied(z, y, w) ==
    /\ SameTree(z, y) /\ SameServer(z, y)
    /\ y.ready = << >> /\ y.later = z.later /\ y.asked = z.asked /\ y.last = z.last
    /\ y.down = z.down
    /\ w = Among(z.ready, z.asked)
    /\ IF w = << >> THEN y.up = z.up ELSE Added(z.up, y.up, GetData(w))

(* The retry delay passes. *)
Elapsed(z, y) ==
    /\ SameTree(z, y) /\ SameServer(z, y)
    /\ y.ready = z.ready \o z.later /\ y.later = << >>
    /\ y.asked = z.asked /\ y.last = z.last /\ y.up = z.up /\ y.down = z.down

(* The tree of a connection. *)
LEMMA TreeFacts ==
    ASSUME NEW z, IsLink(z)
    PROVE  /\ z.have \subseteq Int /\ z.best \in z.have /\ z.best \in Int /\ z.orphans \subseteq Nat
           /\ \A x \in z.have : Height(x) <= Height(z.best)
           /\ \A x \in z.orphans : x \notin z.have /\ x \in Positive
           /\ Full(z.best) \in Nat /\ Full(z.best) # None /\ Full(z.best) \notin z.have
<1>1. /\ z.have \subseteq Int /\ z.best \in z.have /\ z.best \in Int /\ z.orphans \subseteq Nat
      /\ \A x \in z.have : Height(x) <= Height(z.best)
      /\ \A x \in z.orphans : x \notin z.have /\ x \in Positive
  BY DEF IsLink, IsTree, Connected, Positive
<1>2. Full(z.best) \in Nat /\ Full(z.best) > Height(z.best) /\ Height(z.best) \in Nat
  BY <1>1, HeightFacts
<1>3. Full(z.best) # None /\ Height(Full(z.best)) = Full(z.best)
  BY <1>2 DEF Height, None
<1> QED
  BY <1>1, <1>2, <1>3

(* What was seen stays seen. *)
LEMMA SeenFacts ==
    ASSUME NEW z, NEW y, IsLink(z), IsLink(y), SameServer(z, y), Held(z) \subseteq Held(y)
    PROVE  /\ Grows(z, y)
           /\ ContinueSeen(z) => ContinueSeen(y)
           /\ Seen(y) = Seen(z) \cup Held(y)
<1>1. z.tip = y.tip /\ z.tip \in Nat /\ Seen(z) \subseteq Seen(y)
  BY DEF SameServer, Seen, IsLink
<1>2. Grows(z, y)
  BY <1>1 DEF Grows
<1>3. ContinueSeen(z) => ContinueSeen(y)
  BY <1>1 DEF ContinueSeen, SameServer
<1> QED
  BY <1>2, <1>3 DEF SameServer, Seen

(* The request that would be repeated is on its way or had its effect. *)
LEMMA FilteredFacts ==
    ASSUME NEW z, Sound(z), NEW s \in Nat, s # None, z.last = <<z.best, s>>, SeenFrom(z, s), Gap(z)
    PROVE  \/ GoodAsked(z)
           \/ z.continue # None
           \/ Full(z.best) \notin z.orphans /\ Follows(z, Full(z.best)) /\ s > Full(z.best)
<1>0. IsLink(z) /\ Full(z.best) \in Nat /\ Full(z.best) # None /\ z.last[1] = z.best /\ z.last[2] = s
  BY TreeFacts DEF Sound
<1>1. CASE Asking(z)
  <2>1. PICK i \in 1..Len(z.up) : Asks(z.up[i])
    BY <1>1 DEF Asking
  <2>2. PICK j \in i..Len(z.up) : z.up[j] = GetBlocks(z.best, s)
    BY <1>0, <2>1 DEF Sound, LastIsLast
  <2>3. j \in 1..Len(z.up)
    BY <1>0, <2>1, <2>2, LinkLens
  <2>4. Good(z, GetBlocks(z.best, s))
    BY MessageFacts DEF Good, Asks
  <2> QED
    BY <2>2, <2>3, <2>4 DEF GoodAsked
<1>2. CASE ~Asking(z)
  <2>1. Repeats(z)
    BY <1>0, <1>2 DEF Repeats
  <2>2. CASE s <= Full(z.best)
    <3>1. \A x \in 1..(s - 1) : x \in Seen(z)
      BY <1>0, <2>1, <2>2 DEF Sound, RepeatIsNeedless
    <3>2. ~Gap(z)
      <4> SUFFICES ASSUME NEW x \in 1..z.tip PROVE x \in Seen(z)
        BY DEF Gap
      <4> QED
        BY <1>0, <3>1 DEF SeenFrom, IsLink
    <3> QED
      BY <3>2
  <2>3. CASE s > Full(z.best)
    BY <1>0, <2>1, <2>3 DEF Sound, RepeatIsNeedless
  <2> QED
    BY <1>0, <2>2, <2>3
<1> QED
  BY <1>1, <1>2

(* A step that sends nothing and leaves the tree alone. *)
LEMMA KeptSound ==
    ASSUME NEW z, NEW y, Sound(z), IsLink(y), SameTree(z, y), SameServer(z, y),
           y.last = z.last, y.up = z.up, AskedNotHeld(y),
           Wanted(z) \subseteq Wanted(y),
           Announced(z) \subseteq Announced(y) \cup z.have \cup (Wanted(y) \ Held(y)),
           Coming(z) \subseteq Coming(y) \cup Held(y),
           Follows(z, Full(z.best)) /\ Full(z.best) \notin z.orphans => Follows(y, Full(z.best))
    PROVE  Sound(y)
<1>0. IsLink(z)
  BY DEF Sound
<1>1. Held(y) = Held(z) /\ Requested(y) = Requested(z)
  BY DEF SameTree, Held, Requested
<1>3. Grows(z, y) /\ Seen(y) = Seen(z) /\ ContinueSeen(y)
  BY <1>0, <1>1, SeenFacts DEF Sound, Seen
<1>5. KnownUnderWay(y)
  <2>1. z.have \subseteq Held(y)
    BY <1>1 DEF Held
  <2> QED
    BY <1>1, <2>1 DEF Sound, KnownUnderWay, SameServer
<1>7. LastIsLast(y)
  BY <1>0, LastFacts DEF Sound, SameTree
<1>8. GapIsClosing(y)
  <2> SUFFICES ASSUME Gap(y) PROVE GoodAsked(y) \/ y.continue # None \/ TopComes(y)
    BY DEF GapIsClosing
  <2>1. Gap(z) /\ \A t : Top(z, t) => Top(y, t)
    BY <1>0, <1>3, GrowsFacts
  <2>2. GoodAsked(z) => GoodAsked(y)
    BY <1>0, <1>3, AskFacts
  <2>3. \A t \in z.have : ~Top(z, t)
    BY <1>0, <2>1, NoGapHave
  <2>4. TopComes(z) => TopComes(y)
    BY <1>1, <2>1, <2>3 DEF TopComes
  <2> QED
    BY <2>1, <2>2, <2>4 DEF Sound, GapIsClosing, SameServer
<1>9. RepeatIsNeedless(y)
  <2> SUFFICES ASSUME Repeats(y) PROVE
        /\ y.last[2] <= Full(y.best) => \A x \in 1..(y.last[2] - 1) : x \in Seen(y)
        /\ y.last[2] > Full(y.best) =>
              \/ y.continue = Full(y.best)
              \/ Full(y.best) \notin y.orphans /\ Follows(y, Full(y.best))
    BY DEF RepeatIsNeedless
  <2>1. Repeats(z)
    BY <1>0, <1>3, GrowsFacts, AskFacts DEF Repeats, SameTree
  <2> QED
    BY <1>3, <2>1 DEF Sound, RepeatIsNeedless, SameTree, SameServer
<1>10. OrphanIsNotRequested(y)
  BY <1>0, NotRequestedFacts DEF Sound, SameTree
<1> QED
  BY <1>3, <1>5, <1>7, <1>8, <1>9, <1>10 DEF Sound

(* An inventory that is in the tree changes nothing. *)
LEMMA HeldInvSound ==
    ASSUME NEW z, NEW y, NEW b \in Nat, Sound(z), IsLink(y), HeldInv(z, y, b)
    PROVE  Sound(y)
<1>1. IsLink(z) /\ Shortened(z.down, y.down, "inv", b)
  BY DEF Sound, HeldInv
<1>2. /\ SameTree(z, y) /\ SameServer(z, y) /\ y.last = z.last /\ y.up = z.up
      /\ b \in z.have /\ Held(y) = Held(z) /\ Wanted(y) = Wanted(z) /\ AskedNotHeld(y)
  BY DEF HeldInv, SameTree, SameQueue, Held, Wanted, Sound, AskedNotHeld
<1>3. Announced(z) = Announced(y) \cup {b} /\ Coming(y) = Coming(z)
  BY <1>1, DownFacts
<1>4. Grows(z, y)
  BY <1>1, <1>2, SeenFacts
<1>5. Follows(z, Full(z.best)) => Follows(y, Full(z.best))
  BY <1>1, <1>4, FollowsFacts, TreeFacts
<1> QED
  BY <1>2, <1>3, <1>5, KeptSound

(* Nor does the end of an inv message. *)
LEMMA EmptyInvSound ==
    ASSUME NEW z, NEW y, Sound(z), IsLink(y), EmptyInv(z, y)
    PROVE  Sound(y)
<1>1. IsLink(z) /\ Dropped(z.down, y.down) /\ z.down[1].cmd = "inv" /\ z.down[1].invs = << >>
  BY DEF Sound, EmptyInv
<1>2. /\ SameTree(z, y) /\ SameServer(z, y) /\ y.last = z.last /\ y.up = z.up
      /\ Held(y) = Held(z) /\ Wanted(y) = Wanted(z) /\ AskedNotHeld(y)
  BY DEF EmptyInv, SameTree, SameQueue, Held, Wanted, Sound, AskedNotHeld
<1>3. Announced(z) = Announced(y) /\ Coming(y) = Coming(z)
  BY <1>1, DownFacts
<1>4. Grows(z, y)
  BY <1>1, <1>2, SeenFacts
<1>5. Follows(z, Full(z.best)) => Follows(y, Full(z.best))
  BY <1>1, <1>4, FollowsFacts, TreeFacts, MessageFacts
<1> QED
  BY <1>2, <1>3, <1>5, KeptSound

(* Nor does a block that is held. *)
LEMMA HeldBlockSound ==
    ASSUME NEW z, NEW y, NEW b \in Nat, Sound(z), IsLink(y), HeldBlock(z, y, b)
    PROVE  Sound(y)
<1>1. IsLink(z) /\ Dropped(z.down, y.down) /\ z.down[1] = BlockMsg(b)
  BY DEF Sound, HeldBlock
<1>2. /\ SameTree(z, y) /\ SameServer(z, y) /\ y.last = z.last /\ y.up = z.up
      /\ b \in Held(z) /\ Held(y) = Held(z) /\ Wanted(y) = Wanted(z) /\ AskedNotHeld(y)
  BY DEF HeldBlock, SameTree, SameQueue, Held, Wanted, Sound, AskedNotHeld
<1>3. Announced(z) = Announced(y) /\ Coming(z) = Coming(y) \cup {b}
  BY <1>1, DownFacts
<1>4. Grows(z, y)
  BY <1>1, <1>2, SeenFacts
<1>5. ASSUME Follows(z, Full(z.best)), Full(z.best) \notin z.orphans
      PROVE  Follows(y, Full(z.best))
  <2>0. b # Full(z.best)
    BY <1>1, <1>2, <1>5, TreeFacts DEF Held
  <2>1. z.down[1] # BlockMsg(Full(z.best))
    BY <1>1, <2>0, MessageFacts
  <2> QED
    BY <1>1, <1>4, <1>5, <2>1, FollowsFacts, TreeFacts
<1> QED
  BY <1>2, <1>3, <1>5, KeptSound

(* An orphan that is announced again asks for what leads to it. *)
LEMMA OrphanInvSound ==
    ASSUME NEW z, NEW y, NEW b \in Nat, Sound(z), IsLink(y), OrphanInv(z, y, b)
    PROVE  Sound(y)
<1> DEFINE s == OrphanRoot(z.orphans, b)
           f == Full(z.best)
<1>0. IsLink(z) /\ Shortened(z.down, y.down, "inv", b) /\ Pushed(z, y, z.best, s) /\ SameServer(z, y)
  BY DEF Sound, OrphanInv
<1>1. /\ y.best = z.best /\ y.have = z.have /\ y.orphans = z.orphans /\ y.asked = z.asked
      /\ Held(y) = Held(z) /\ Wanted(y) = Wanted(z)
  BY DEF OrphanInv, SameTree, SameQueue, Held, Wanted
<1>2. Announced(z) = Announced(y) \cup {b} /\ Coming(y) = Coming(z)
  BY <1>0, DownFacts
<1>3. Grows(z, y) /\ Seen(y) = Seen(z) /\ ContinueSeen(y)
  BY <1>0, <1>1, SeenFacts DEF Sound, Seen
<1>4. b \in z.orphans /\ b \in Held(y)
  BY <1>1 DEF OrphanInv, Held
<1>5. /\ s \in Nat /\ s # None /\ s <= b /\ s > Found(z.best)
      /\ \A x \in s..b : x \in z.orphans
  BY <1>0, <1>4, RootFacts DEF IsLink
<1> HIDE DEF s, f
<1>a. CASE z.last # <<z.best, s>>
  <2>0. y.last = <<z.best, s>> /\ Added(z.up, y.up, GetBlocks(z.best, s))
    BY <1>0, <1>a DEF Pushed
  <2>1. Requested(y) = Requested(z)
    BY <1>0, <1>5, <2>0, UpFacts, TreeFacts
  <2>2. KnownUnderWay(y)
    BY <1>0, <1>1, <1>2, <1>4, <2>1 DEF Sound, KnownUnderWay, SameServer
  <2>3. AskedNotHeld(y)
    BY <1>1 DEF Sound, AskedNotHeld
  <2>4. LastIsLast(y)
    BY <1>0, <1>1, <1>5, LastPushed DEF Sound
  <2>5. GapIsClosing(y)
    <3> SUFFICES ASSUME Gap(y) PROVE GoodAsked(y) \/ y.continue # None \/ TopComes(y)
      BY DEF GapIsClosing
    <3>1. Gap(z) /\ \A t : Top(z, t) => Top(y, t)
      BY <1>0, <1>3, GrowsFacts
    <3>2. GoodAsked(z) \/ Good(y, GetBlocks(z.best, s)) => GoodAsked(y)
      BY <1>0, <1>3, <2>0, AskFacts
    <3>3. Top(z, b) => Good(y, GetBlocks(z.best, s))
      <4> SUFFICES ASSUME Top(z, b) PROVE SeenFrom(y, s)
        BY MessageFacts DEF Good, Asks
      <4>1. Top(y, b) /\ y.tip \in Nat
        BY <3>1 DEF IsLink
      <4>2. ASSUME NEW x \in 1..y.tip, s <= x PROVE x \in Seen(y)
        <5>1. CASE x \in s..b
          BY <1>1, <1>5, <5>1 DEF Seen, Held
        <5>2. CASE x \notin s..b
          <6>1. b + 1 <= x
            BY <1>5, <4>2, <5>2
          <6> QED
            BY <4>1, <6>1 DEF Top, SeenFrom
        <5> QED
          BY <5>1, <5>2
      <4> QED
        BY <4>2 DEF SeenFrom
    <3>4. TopComes(z) => TopComes(y) \/ Top(z, b)
      BY <1>1, <1>2, <2>1, <3>1 DEF TopComes
    <3> QED
      BY <1>0, <3>1, <3>2, <3>3, <3>4 DEF Sound, GapIsClosing, SameServer
  <2>6. RepeatIsNeedless(y)
    <3>1. Asking(y)
      BY <1>0, <1>3, <2>0, AskFacts, MessageFacts DEF Asks
    <3> QED
      BY <3>1 DEF RepeatIsNeedless, Repeats
  <2>7. OrphanIsNotRequested(y)
    <3> SUFFICES ASSUME NEW i \in 1..Len(y.up), Lists(y.up[i], "getdata", Full(y.best))
                 PROVE  \E j \in (i + 1)..Len(y.up) : Asks(y.up[j])
      BY DEF OrphanIsNotRequested
    <3>1. Len(z.up) \in Nat /\ Len(y.up) = Len(z.up) + 1 /\ y.up[Len(y.up)] = GetBlocks(z.best, s)
      BY <1>0, <2>0, LinkLens DEF Added
    <3>2. y.up[i].cmd # "getblocks" /\ Asks(y.up[Len(y.up)])
      BY <3>1, MessageFacts DEF Lists, Asks
    <3>3. i # Len(y.up)
      BY <3>1, <3>2, MessageFacts
    <3>4. Len(y.up) \in (i + 1)..Len(y.up)
      BY <3>1, <3>3
    <3> QED
      BY <3>2, <3>4
  <2> QED
    BY <1>3, <2>2, <2>3, <2>4, <2>5, <2>6, <2>7 DEF Sound
<1>b. CASE z.last = <<z.best, s>>
  <2>0. y.last = z.last /\ y.up = z.up /\ y.last[1] = z.best /\ y.last[2] = s
    BY <1>0, <1>b DEF Pushed
  <2>1. Requested(y) = Requested(z)
    BY <2>0 DEF Requested
  <2>2. KnownUnderWay(y)
    BY <1>0, <1>1, <1>2, <1>4, <2>1 DEF Sound, KnownUnderWay, SameServer
  <2>3. AskedNotHeld(y)
    BY <1>1 DEF Sound, AskedNotHeld
  <2>4. LastIsLast(y)
    BY <1>0, <1>1, <1>5, LastPushed DEF Sound
  <2>5. GapIsClosing(y)
    <3> SUFFICES ASSUME Gap(y) PROVE GoodAsked(y) \/ y.continue # None \/ TopComes(y)
      BY DEF GapIsClosing
    <3>1. Gap(z) /\ \A t : Top(z, t) => Top(y, t)
      BY <1>0, <1>3, GrowsFacts
    <3>2. GoodAsked(z) => GoodAsked(y)
      BY <1>0, <1>3, <2>0, AskFacts
    <3>3. Top(z, b) => SeenFrom(z, s)
      <4> SUFFICES ASSUME Top(z, b), NEW x \in 1..z.tip, s <= x PROVE x \in Seen(z)
        BY DEF SeenFrom
      <4>1. CASE x \in s..b
        BY <1>5, <4>1 DEF Seen, Held
      <4>2. CASE x \notin s..b
        <5>1. b + 1 <= x
          BY <1>0, <1>5, <4>2 DEF IsLink
        <5> QED
          BY <5>1 DEF Top, SeenFrom
      <4> QED
        BY <4>1, <4>2
    <3>4. TopComes(z) => TopComes(y) \/ Top(z, b)
      BY <1>1, <1>2, <2>1, <3>1 DEF TopComes
    <3>5. Follows(z, Full(z.best)) => TopComes(y)
      BY <1>0, <1>3, FollowsFacts, TreeFacts DEF TopComes
    <3>6. Top(z, b) => GoodAsked(y) \/ y.continue # None \/ TopComes(y)
      BY <1>0, <1>5, <1>b, <3>1, <3>2, <3>3, <3>5, FilteredFacts DEF SameServer
    <3> QED
      BY <1>0, <3>1, <3>2, <3>4, <3>6 DEF Sound, GapIsClosing, SameServer
  <2>6. RepeatIsNeedless(y)
    <3> SUFFICES ASSUME Repeats(y) PROVE
          /\ y.last[2] <= Full(y.best) => \A x \in 1..(y.last[2] - 1) : x \in Seen(y)
          /\ y.last[2] > Full(y.best) =>
                \/ y.continue = Full(y.best)
                \/ Full(y.best) \notin y.orphans /\ Follows(y, Full(y.best))
      BY DEF RepeatIsNeedless
    <3>1. Repeats(z)
      BY <1>0, <1>1, <1>3, <2>0, GrowsFacts, AskFacts DEF Repeats
    <3>2. Follows(z, Full(z.best)) => Follows(y, Full(z.best))
      BY <1>0, <1>3, FollowsFacts, TreeFacts
    <3> QED
      BY <1>0, <1>1, <1>3, <2>0, <3>1, <3>2 DEF Sound, RepeatIsNeedless, SameServer
  <2>7. OrphanIsNotRequested(y)
    BY <1>0, <1>1, <2>0, NotRequestedFacts DEF Sound
  <2> QED
    BY <1>3, <2>2, <2>3, <2>4, <2>5, <2>6, <2>7 DEF Sound
<1> QED
  BY <1>a, <1>b

(* An element more. *)
LEMMA AppendElements ==
    ASSUME NEW q \in Seq(Nat), NEW b \in Nat
    PROVE  Elements(Append(q, b)) = Elements(q) \cup {b}
<1>1. Len(q) \in Nat /\ DOMAIN q = 1..Len(q) /\ DOMAIN Append(q, b) = 1..(Len(q) + 1)
  OBVIOUS
<1>2. Append(q, b)[Len(q) + 1] = b /\ \A i \in 1..Len(q) : Append(q, b)[i] = q[i]
  OBVIOUS
<1>3. \A i \in 1..(Len(q) + 1) : i = Len(q) + 1 \/ i \in 1..Len(q)
  BY <1>1
<1>4. \A i \in 1..Len(q) : i \in 1..(Len(q) + 1)
  BY <1>1
<1>5. Len(q) + 1 \in 1..(Len(q) + 1)
  BY <1>1
<1>6. ASSUME NEW x \in Elements(Append(q, b)) PROVE x \in Elements(q) \cup {b}
  BY <1>1, <1>2, <1>3 DEF Elements
<1>7. ASSUME NEW x \in Elements(q) PROVE x \in Elements(Append(q, b))
  BY <1>1, <1>2, <1>4 DEF Elements
<1>8. b \in Elements(Append(q, b))
  BY <1>1, <1>2, <1>5 DEF Elements
<1> QED
  BY <1>6, <1>7, <1>8

(* The elements of both. *)
LEMMA ConcatElements ==
    ASSUME NEW q \in Seq(Nat), NEW r \in Seq(Nat)
    PROVE  Elements(q \o r) = Elements(q) \cup Elements(r)
<1> DEFINE s == q \o r
<1>1. /\ Len(q) \in Nat /\ DOMAIN q = 1..Len(q) /\ Len(r) \in Nat /\ DOMAIN r = 1..Len(r)
      /\ DOMAIN s = 1..(Len(q) + Len(r))
  OBVIOUS
<1>2. /\ \A i \in 1..Len(q) : s[i] = q[i]
      /\ \A i \in 1..Len(r) : s[Len(q) + i] = r[i]
  OBVIOUS
<1> HIDE DEF s
<1>3. ASSUME NEW x \in Elements(s) PROVE x \in Elements(q) \cup Elements(r)
  <2>1. PICK i \in 1..(Len(q) + Len(r)) : x = s[i]
    BY <1>1 DEF Elements
  <2>2. CASE i \in 1..Len(q)
    BY <1>1, <1>2, <2>1, <2>2 DEF Elements
  <2>3. CASE i \notin 1..Len(q)
    <3>1. i - Len(q) \in 1..Len(r) /\ Len(q) + (i - Len(q)) = i
      BY <1>1, <2>3
    <3>2. x = r[i - Len(q)]
      BY <1>2, <2>1, <3>1
    <3> QED
      BY <1>1, <3>1, <3>2 DEF Elements
  <2> QED
    BY <2>2, <2>3
<1>4. ASSUME NEW x \in Elements(q) PROVE x \in Elements(s)
  <2>1. PICK i \in 1..Len(q) : x = q[i]
    BY <1>1 DEF Elements
  <2>2. i \in DOMAIN s /\ s[i] = x
    BY <1>1, <1>2, <2>1
  <2> QED
    BY <2>2 DEF Elements
<1>5. ASSUME NEW x \in Elements(r) PROVE x \in Elements(s)
  <2>1. PICK i \in 1..Len(r) : x = r[i]
    BY <1>1 DEF Elements
  <2>2. Len(q) + i \in DOMAIN s /\ s[Len(q) + i] = x
    BY <1>1, <1>2, <2>1
  <2> QED
    BY <2>2 DEF Elements
<1>6. Elements(s) = Elements(q) \cup Elements(r)
  BY <1>3, <1>4, <1>5
<1> QED
  BY <1>6 DEF s

(* An inventory that is queued is wanted. *)
LEMMA NewInvSound ==
    ASSUME NEW z, NEW y, NEW b \in Nat, Sound(z), IsLink(y), NewInv(z, y, b)
    PROVE  Sound(y)
<1>1. IsLink(z) /\ Shortened(z.down, y.down, "inv", b)
  BY DEF Sound, NewInv
<1>2. Wanted(y) = Wanted(z) \cup {b}
  <2>1. z.ready \in Seq(Nat) /\ z.later \in Seq(Nat)
    BY <1>1 DEF IsLink
  <2>2. /\ Elements(Append(z.ready, b)) = Elements(z.ready) \cup {b}
        /\ Elements(Append(z.later, b)) = Elements(z.later) \cup {b}
    BY <2>1, AppendElements
  <2>3. CASE y.ready = Append(z.ready, b) /\ y.later = z.later
    BY <2>2, <2>3 DEF Wanted
  <2>4. CASE y.ready = z.ready /\ y.later = Append(z.later, b)
    BY <2>2, <2>4 DEF Wanted
  <2> QED
    BY <2>3, <2>4 DEF NewInv
<1>3. /\ SameTree(z, y) /\ SameServer(z, y) /\ y.last = z.last /\ y.up = z.up
      /\ b \notin Held(y) /\ Held(y) = Held(z)
  BY DEF NewInv, SameTree, Held
<1>4. AskedNotHeld(y)
  BY <1>2, <1>3 DEF Sound, AskedNotHeld, NewInv
<1>5. Announced(z) = Announced(y) \cup {b} /\ Coming(y) = Coming(z)
  BY <1>1, DownFacts
<1>6. Grows(z, y)
  BY <1>1, <1>3, SeenFacts
<1>7. Follows(z, Full(z.best)) => Follows(y, Full(z.best))
  BY <1>1, <1>6, FollowsFacts, TreeFacts
<1> QED
  BY <1>2, <1>3, <1>4, <1>5, <1>7, KeptSound

(* The retry delay makes what is wanted ready. *)
LEMMA ElapsedSound ==
    ASSUME NEW z, NEW y, Sound(z), IsLink(y), Elapsed(z, y)
    PROVE  Sound(y)
<1>1. IsLink(z) /\ z.ready \in Seq(Nat) /\ z.later \in Seq(Nat)
  BY DEF Sound, IsLink
<1>2. Wanted(y) = Wanted(z)
  <2>1. Elements(<< >>) = {}
    BY DEF Elements
  <2>2. Elements(y.ready) = Elements(z.ready) \cup Elements(z.later) /\ Elements(y.later) = {}
    BY <1>1, <2>1, ConcatElements DEF Elapsed
  <2> QED
    BY <2>2 DEF Wanted
<1>3. /\ SameTree(z, y) /\ SameServer(z, y) /\ y.last = z.last /\ y.up = z.up
      /\ y.down = z.down /\ Held(y) = Held(z)
  BY DEF Elapsed, SameTree, Held
<1>4. AskedNotHeld(y)
  BY <1>2, <1>3 DEF Sound, AskedNotHeld, Elapsed
<1>5. Announced(z) = Announced(y) /\ Coming(y) = Coming(z)
  BY <1>1, <1>3, DownFacts
<1>6. Grows(z, y)
  BY <1>1, <1>3, SeenFacts
<1>7. Follows(z, Full(z.best)) => Follows(y, Full(z.best))
  BY <1>1, <1>3, <1>6, FollowsFacts, TreeFacts
<1> QED
  BY <1>2, <1>3, <1>4, <1>5, <1>7, KeptSound

(* A block that becomes an orphan asks for what leads to it. *)
LEMMA OrphanBlockSound ==
    ASSUME NEW z, NEW y, NEW b \in Nat, Sound(z), IsLink(y), OrphanBlock(z, y, b)
    PROVE  Sound(y)
<1> DEFINE s == OrphanRoot(y.orphans, b)
           f == Full(z.best)
<1>0. IsLink(z) /\ Dropped(z.down, y.down) /\ z.down[1] = BlockMsg(b)
      /\ Pushed(z, y, z.best, s) /\ SameServer(z, y)
  BY DEF Sound, OrphanBlock
<1>1. /\ y.best = z.best /\ y.have = z.have /\ y.orphans = z.orphans \cup {b}
      /\ y.asked = z.asked \ {b} /\ b \notin Held(z)
      /\ Held(y) = Held(z) \cup {b} /\ Wanted(y) = Wanted(z)
  BY DEF OrphanBlock, SameQueue, Held, Wanted
<1>2. Announced(z) = Announced(y) /\ Coming(z) = Coming(y) \cup {b}
  BY <1>0, DownFacts
<1>3. Grows(z, y) /\ Seen(y) = Seen(z) \cup {b} /\ ContinueSeen(y)
  BY <1>0, <1>1, SeenFacts DEF Sound, Seen
<1>5. /\ s \in Nat /\ s # None /\ s <= b /\ s > Found(z.best)
      /\ \A x \in s..b : x \in y.orphans
  BY <1>0, <1>1, RootFacts DEF IsLink
<1> HIDE DEF s, f
<1>6. Top(z, b) => SeenFrom(y, s)
  <2> SUFFICES ASSUME Top(z, b), NEW x \in 1..y.tip, s <= x PROVE x \in Seen(y)
    BY DEF SeenFrom
  <2>0. Top(y, b) /\ y.tip \in Nat
    BY <1>0, <1>3, GrowsFacts DEF IsLink
  <2>1. CASE x \in s..b
    BY <1>5, <2>1 DEF Seen, Held
  <2>2. CASE x \notin s..b
    <3>1. b + 1 <= x
      BY <1>5, <2>0, <2>2
    <3> QED
      BY <2>0, <3>1 DEF Top, SeenFrom
  <2> QED
    BY <2>1, <2>2
<1>7. AskedNotHeld(y)
  BY <1>1 DEF Sound, AskedNotHeld
<1>8. LastIsLast(y)
  BY <1>0, <1>1, <1>5, LastPushed DEF Sound
<1>9. TopComes(z) /\ Requested(y) = Requested(z) => TopComes(y) \/ Top(z, b)
  <2>1. \A t : Top(z, t) => Top(y, t)
    BY <1>0, <1>3, GrowsFacts
  <2> QED
    BY <1>1, <1>2, <2>1 DEF TopComes
<1>a. CASE z.last # <<z.best, s>>
  <2>0. y.last = <<z.best, s>> /\ Added(z.up, y.up, GetBlocks(z.best, s))
    BY <1>0, <1>a DEF Pushed
  <2>1. Requested(y) = Requested(z)
    BY <1>0, <1>5, <2>0, UpFacts, TreeFacts
  <2>2. KnownUnderWay(y)
    BY <1>0, <1>1, <1>2, <2>1 DEF Sound, KnownUnderWay, SameServer
  <2>5. GapIsClosing(y)
    <3> SUFFICES ASSUME Gap(y) PROVE GoodAsked(y) \/ y.continue # None \/ TopComes(y)
      BY DEF GapIsClosing
    <3>1. Gap(z)
      BY <1>0, <1>3, GrowsFacts
    <3>2. GoodAsked(z) \/ Good(y, GetBlocks(z.best, s)) => GoodAsked(y)
      BY <1>0, <1>3, <2>0, AskFacts
    <3>3. Top(z, b) => Good(y, GetBlocks(z.best, s))
      BY <1>6, MessageFacts DEF Good, Asks
    <3> QED
      BY <1>0, <1>9, <2>1, <3>1, <3>2, <3>3 DEF Sound, GapIsClosing, SameServer
  <2>6. RepeatIsNeedless(y)
    <3>1. Asking(y)
      BY <1>0, <1>3, <2>0, AskFacts, MessageFacts DEF Asks
    <3> QED
      BY <3>1 DEF RepeatIsNeedless, Repeats
  <2>7. OrphanIsNotRequested(y)
    <3> SUFFICES ASSUME NEW i \in 1..Len(y.up), Lists(y.up[i], "getdata", Full(y.best))
                 PROVE  \E j \in (i + 1)..Len(y.up) : Asks(y.up[j])
      BY DEF OrphanIsNotRequested
    <3>1. Len(z.up) \in Nat /\ Len(y.up) = Len(z.up) + 1 /\ y.up[Len(y.up)] = GetBlocks(z.best, s)
      BY <1>0, <2>0, LinkLens DEF Added
    <3>2. y.up[i].cmd # "getblocks" /\ Asks(y.up[Len(y.up)])
      BY <3>1, MessageFacts DEF Lists, Asks
    <3>3. i # Len(y.up)
      BY <3>1, <3>2, MessageFacts
    <3>4. Len(y.up) \in (i + 1)..Len(y.up)
      BY <3>1, <3>3
    <3> QED
      BY <3>2, <3>4
  <2> QED
    BY <1>3, <1>7, <1>8, <2>2, <2>5, <2>6, <2>7 DEF Sound
<1>b. CASE z.last = <<z.best, s>>
  <2>0. y.last = z.last /\ y.up = z.up /\ y.last[1] = z.best /\ y.last[2] = s
    BY <1>0, <1>b DEF Pushed
  <2>1. Requested(y) = Requested(z)
    BY <2>0 DEF Requested
  <2>2. KnownUnderWay(y)
    BY <1>0, <1>1, <1>2, <2>1 DEF Sound, KnownUnderWay, SameServer
  <2>3. \A t : Top(z, t) => Top(y, t)
    BY <1>0, <1>3, GrowsFacts
  <2>5. GapIsClosing(y)
    <3> SUFFICES ASSUME Gap(y) PROVE GoodAsked(y) \/ y.continue # None \/ TopComes(y)
      BY DEF GapIsClosing
    <3>1. Gap(z)
      BY <1>0, <1>3, GrowsFacts
    <3>2. GoodAsked(z) => GoodAsked(y)
      BY <1>0, <1>3, <2>0, AskFacts
    <3>3. Follows(z, Full(z.best)) => TopComes(y)
      <4>1. ASSUME NEW c, Follows(z, c) PROVE \E t \in Announced(z) : Top(z, t)
        BY <4>1 DEF Follows, Announced, Listed
      <4> QED
        BY <1>2, <2>3, <4>1 DEF TopComes
    <3>4. Top(z, b) => GoodAsked(y) \/ y.continue # None \/ TopComes(y)
      <4> SUFFICES ASSUME Top(z, b), ~TopComes(y)
                   PROVE  GoodAsked(y) \/ y.continue # None
        OBVIOUS
      <4>1. CASE Asking(z)
        <5>1. PICK i \in 1..Len(z.up) : Asks(z.up[i])
          BY <4>1 DEF Asking
        <5>2. PICK j \in i..Len(z.up) : z.up[j] = GetBlocks(z.best, s)
          BY <2>0, <5>1 DEF Sound, LastIsLast
        <5>3. j \in 1..Len(y.up) /\ y.up[j] = GetBlocks(z.best, s)
          BY <1>0, <2>0, <5>1, <5>2, LinkLens
        <5>4. Good(y, GetBlocks(z.best, s))
          BY <1>6, MessageFacts DEF Good, Asks
        <5> QED
          BY <5>3, <5>4 DEF GoodAsked
      <4>2. CASE ~Asking(z)
        <5>1. Repeats(z)
          BY <1>5, <2>0, <3>1, <4>2 DEF Repeats
        <5>2. CASE s <= Full(z.best)
          <6>1. \A x \in 1..(s - 1) : x \in Seen(z)
            BY <2>0, <5>1, <5>2 DEF Sound, RepeatIsNeedless
          <6>2. ~Gap(y)
            <7> SUFFICES ASSUME NEW x \in 1..y.tip PROVE x \in Seen(y)
              BY DEF Gap
            <7>1. CASE x < s
              BY <1>3, <1>5, <6>1, <7>1
            <7>2. CASE s <= x
              BY <1>6, <7>2 DEF SeenFrom
            <7> QED
              BY <1>5, <7>1, <7>2 DEF IsLink
          <6> QED
            BY <6>2
        <5>3. CASE s > Full(z.best)
          BY <1>0, <2>0, <3>3, <5>1, <5>3, TreeFacts DEF Sound, RepeatIsNeedless, SameServer
        <5> QED
          BY <1>0, <1>5, <5>2, <5>3, TreeFacts
      <4> QED
        BY <4>1, <4>2
    <3> QED
      BY <1>0, <1>9, <2>1, <3>1, <3>2, <3>4 DEF Sound, GapIsClosing, SameServer
  <2>6. RepeatIsNeedless(y)
    <3> SUFFICES ASSUME Repeats(y) PROVE
          /\ y.last[2] <= Full(y.best) => \A x \in 1..(y.last[2] - 1) : x \in Seen(y)
          /\ y.last[2] > Full(y.best) =>
                \/ y.continue = Full(y.best)
                \/ Full(y.best) \notin y.orphans /\ Follows(y, Full(y.best))
      BY DEF RepeatIsNeedless
    <3>1. Repeats(z)
      BY <1>0, <1>1, <1>3, <2>0, GrowsFacts, AskFacts DEF Repeats
    <3>2. ASSUME y.last[2] > Full(y.best), Full(z.best) \notin z.orphans, Follows(z, Full(z.best))
          PROVE  Full(y.best) \notin y.orphans /\ Follows(y, Full(y.best))
      <4>1. Full(z.best) # b /\ Full(z.best) \in Nat
        BY <1>0, <1>1, <1>5, <2>0, <3>2, TreeFacts
      <4>2. z.down[1] # BlockMsg(Full(z.best))
        BY <1>0, <4>1, MessageFacts
      <4> QED
        BY <1>0, <1>1, <1>3, <3>2, <4>1, <4>2, FollowsFacts
    <3> QED
      BY <1>0, <1>1, <1>3, <2>0, <3>1, <3>2 DEF Sound, RepeatIsNeedless, SameServer
  <2>7. OrphanIsNotRequested(y)
    <3>1. Full(z.best) \in y.orphans => Full(z.best) \in z.orphans \/ z.last[2] <= Full(z.best)
      BY <1>0, <1>1, <1>5, <2>0, TreeFacts
    <3> QED
      BY <1>0, <1>1, <2>0, <3>1, NotRequestedFacts DEF Sound
  <2> QED
    BY <1>3, <1>7, <1>8, <2>2, <2>5, <2>6, <2>7 DEF Sound
<1> QED
  BY <1>a, <1>b

(* A block that is connected, with its orphans, is in the tree. *)
LEMMA NextBlockSound ==
    ASSUME NEW z, NEW y, NEW b \in Nat, NEW n \in Nat, Sound(z), IsLink(y), NextBlock(z, y, b, n)
    PROVE  Sound(y)
<1>0. IsLink(z) /\ Dropped(z.down, y.down) /\ z.down[1] = BlockMsg(b) /\ SameServer(z, y)
      /\ y.last = z.last /\ y.up = z.up
  BY DEF Sound, NextBlock
<1>1. /\ y.have = z.have \cup b..n /\ y.orphans = z.orphans \ b..n
      /\ y.asked = z.asked \ {b} /\ b \notin Held(z) /\ b \in y.have
      /\ y.best = IF Height(n) > Height(z.best) THEN n ELSE z.best
      /\ Wanted(y) = Wanted(z) /\ Requested(y) = Requested(z)
  BY DEF NextBlock, SameQueue, Wanted, Requested
<1>2. Held(y) = Held(z) \cup {b}
  <2>1. \A x \in b..n : x = b \/ x \in (b + 1)..n
    OBVIOUS
  <2>2. b..n \subseteq {b} \cup z.orphans
    BY <2>1 DEF NextBlock
  <2> QED
    BY <1>1, <2>2 DEF Held
<1>3. Announced(z) = Announced(y) /\ Coming(z) = Coming(y) \cup {b}
  BY <1>0, DownFacts
<1>4. Grows(z, y) /\ Seen(y) = Seen(z) \cup {b} /\ ContinueSeen(y)
  BY <1>0, <1>2, SeenFacts DEF Sound, Seen
<1>5. y.best = z.best \/ Height(z.best) < Height(y.best)
  <2>1. Height(n) \in Nat /\ Height(z.best) \in Nat
    BY <1>0, HeightFacts, TreeFacts
  <2> QED
    BY <1>1, <2>1
<1>6. KnownUnderWay(y)
  BY <1>0, <1>1, <1>2, <1>3 DEF Sound, KnownUnderWay, SameServer
<1>7. AskedNotHeld(y)
  BY <1>1, <1>2 DEF Sound, AskedNotHeld
<1>8. LastIsLast(y)
  BY <1>0, <1>1, <1>5, LastFacts DEF Sound
<1>9. GapIsClosing(y)
  <2> SUFFICES ASSUME Gap(y) PROVE GoodAsked(y) \/ y.continue # None \/ TopComes(y)
    BY DEF GapIsClosing
  <2>1. Gap(z) /\ \A t : Top(z, t) => Top(y, t)
    BY <1>0, <1>4, GrowsFacts
  <2>2. GoodAsked(z) => GoodAsked(y)
    BY <1>0, <1>4, AskFacts
  <2>3. ~Top(y, b)
    BY <1>1, NoGapHave
  <2>4. TopComes(z) => TopComes(y)
    BY <1>1, <1>2, <1>3, <2>1, <2>3 DEF TopComes
  <2> QED
    BY <1>0, <2>1, <2>2, <2>4 DEF Sound, GapIsClosing, SameServer
<1>10. CASE y.best = z.best
  <2>1. RepeatIsNeedless(y)
    <3> SUFFICES ASSUME Repeats(y) PROVE
          /\ y.last[2] <= Full(y.best) => \A x \in 1..(y.last[2] - 1) : x \in Seen(y)
          /\ y.last[2] > Full(y.best) =>
                \/ y.continue = Full(y.best)
                \/ Full(y.best) \notin y.orphans /\ Follows(y, Full(y.best))
      BY DEF RepeatIsNeedless
    <3>1. Repeats(z)
      BY <1>0, <1>4, <1>10, GrowsFacts, AskFacts DEF Repeats
    <3>2. Full(z.best) # b /\ Full(z.best) \in Nat
      BY <1>1, <1>10, TreeFacts
    <3>3. z.down[1] # BlockMsg(Full(z.best))
      BY <1>0, <3>2, MessageFacts
    <3>4. Follows(z, Full(z.best)) => Follows(y, Full(z.best))
      BY <1>0, <1>4, <3>2, <3>3, FollowsFacts
    <3> QED
      BY <1>0, <1>1, <1>4, <1>10, <3>1, <3>4 DEF Sound, RepeatIsNeedless, SameServer
  <2>2. OrphanIsNotRequested(y)
    BY <1>0, <1>1, <1>10, NotRequestedFacts DEF Sound
  <2> QED
    BY <1>4, <1>6, <1>7, <1>8, <1>9, <2>1, <2>2 DEF Sound
<1>11. CASE Height(z.best) < Height(y.best)
  <2>1. y.last[1] # y.best
    <3>1. Height(z.best) \in Nat /\ Height(y.best) \in Nat /\ Height(z.last[1]) \in Nat
      BY <1>0, HeightFacts, TreeFacts DEF IsLink
    <3>2. Height(z.last[1]) <= Height(z.best)
      BY <3>1 DEF Sound, LastIsLast
    <3> QED
      BY <1>0, <1>11, <3>1, <3>2
  <2>2. RepeatIsNeedless(y) /\ OrphanIsNotRequested(y)
    BY <2>1 DEF RepeatIsNeedless, Repeats, OrphanIsNotRequested
  <2> QED
    BY <1>4, <1>6, <1>7, <1>8, <1>9, <2>2 DEF Sound
<1> QED
  BY <1>5, <1>10, <1>11

----------------------------------------------------------------------------
(* What is due is requested unless it was dequeued. *)
LEMMA RepliedSound ==
    ASSUME NEW z, NEW y, NEW w, Sound(z), IsLink(y), Replied(z, y, w)
    PROVE  Sound(y)
<1>0. IsLink(z) /\ z.ready \in Seq(Nat)
  BY DEF Sound, IsLink
<1>1. w \in Seq(Nat) /\ Elements(w) = Elements(z.ready) \cap z.asked
  BY <1>0, AmongElements DEF Replied
<1>2. /\ SameServer(z, y) /\ y.best = z.best /\ y.have = z.have /\ y.orphans = z.orphans
      /\ y.asked = z.asked /\ y.last = z.last /\ y.down = z.down /\ Held(y) = Held(z)
  BY DEF Replied, SameTree, Held
<1>3. /\ Elements(y.ready) = {} /\ y.later = z.later
  <2>1. Elements(<< >>) = {}
    BY DEF Elements
  <2> QED
    BY <2>1 DEF Replied
<1>4. Announced(y) = Announced(z) /\ Coming(y) = Coming(z)
  BY <1>0, <1>2, DownFacts
<1>5. Requested(y) = Requested(z) \cup Elements(w)
  <2>1. CASE w = << >>
    <3>1. Elements(w) = {} /\ y.up = z.up
      BY <2>1 DEF Elements, Replied
    <3> QED
      BY <3>1 DEF Requested
  <2>2. CASE w # << >>
    BY <1>0, <1>1, <2>2, UpFacts DEF Replied
  <2> QED
    BY <2>1, <2>2
<1>6. y.up = z.up \/ Added(z.up, y.up, GetData(w))
  BY DEF Replied
<1>7. ~Asks(GetData(w))
  BY MessageFacts DEF Asks
<1>8. Grows(z, y) /\ Seen(y) = Seen(z) /\ ContinueSeen(y)
  BY <1>0, <1>2, SeenFacts DEF Sound, Seen
<1>9. Elements(z.ready) \subseteq Elements(w) \cup Held(y)
  BY <1>1, <1>2 DEF Sound, AskedNotHeld, Wanted
<1>10. KnownUnderWay(y)
  BY <1>2, <1>3, <1>4, <1>5, <1>9 DEF Sound, KnownUnderWay, SameServer, Wanted
<1>11. AskedNotHeld(y)
  BY <1>2, <1>3 DEF Sound, AskedNotHeld, Wanted
<1>12. LastIsLast(y)
  BY <1>0, <1>2, <1>6, <1>7, LastFacts DEF Sound
<1>13. GapIsClosing(y)
  <2> SUFFICES ASSUME Gap(y) PROVE GoodAsked(y) \/ y.continue # None \/ TopComes(y)
    BY DEF GapIsClosing
  <2>1. Gap(z) /\ \A t : Top(z, t) => Top(y, t)
    BY <1>0, <1>8, GrowsFacts
  <2>2. GoodAsked(z) => GoodAsked(y)
    BY <1>0, <1>6, <1>8, AskFacts
  <2>4. TopComes(z) => TopComes(y)
    BY <1>2, <1>3, <1>4, <1>5, <1>9, <2>1 DEF TopComes, Wanted
  <2> QED
    BY <1>2, <2>1, <2>2, <2>4 DEF Sound, GapIsClosing, SameServer
<1>14. RepeatIsNeedless(y)
  <2> SUFFICES ASSUME Repeats(y) PROVE
        /\ y.last[2] <= Full(y.best) => \A x \in 1..(y.last[2] - 1) : x \in Seen(y)
        /\ y.last[2] > Full(y.best) =>
              \/ y.continue = Full(y.best)
              \/ Full(y.best) \notin y.orphans /\ Follows(y, Full(y.best))
    BY DEF RepeatIsNeedless
  <2>1. Asking(z) => Asking(y)
    BY <1>0, <1>6, <1>8, AskFacts
  <2>2. Repeats(z)
    BY <1>0, <1>2, <1>8, <2>1, GrowsFacts DEF Repeats
  <2>3. Follows(z, Full(z.best)) => Follows(y, Full(z.best))
    BY <1>0, <1>2, <1>8, FollowsFacts, TreeFacts
  <2> QED
    BY <1>2, <1>8, <2>2, <2>3 DEF Sound, RepeatIsNeedless, SameServer
<1>15. OrphanIsNotRequested(y)
  <2>1. Lists(GetData(w), "getdata", Full(z.best)) => Full(z.best) \notin y.orphans
    <3>1. Lists(GetData(w), "getdata", Full(z.best)) => Full(z.best) \in z.asked
      BY <1>1, MessageFacts DEF Lists
    <3> QED
      BY <1>2, <3>1 DEF Sound, AskedNotHeld, Held
  <2> QED
    BY <1>0, <1>2, <1>6, <2>1, NotRequestedFacts DEF Sound
<1> QED
  BY <1>8, <1>10, <1>11, <1>12, <1>13, <1>14, <1>15 DEF Sound
----------------------------------------------------------------------------
(* The steps of the server, and the first ones of a connection. *)

SameClient(z, y) ==
    /\ SameTree(z, y) /\ SameQueue(z, y)
    /\ y.asked = z.asked /\ y.last = z.last

(* broadcast() of what is in S *)
Told(z, y, w, S) ==
    /\ w \in Seq(Nat) /\ Elements(w) = S \ z.known
    /\ y.known = z.known \cup S
    /\ IF w = << >> THEN y.down = z.down ELSE Added(z.down, y.down, Inv(w))

(* Where the answer to a getblocks message ends. *)
LastTold(z, f, s) ==
    IF s # None /\ s > Found(f) /\ s <= Full(f) THEN s - 1
    ELSE IF Full(f) > z.tip THEN z.tip ELSE Full(f)

(* The blocks of an answer follow each other, what is known left out. *)
TellsInOrder(z, w, f) ==
    \A k \in 1..Len(w) :
        \/ w[k] - 1 = Found(f)
        \/ w[k] - 1 \in z.known
        \/ \E i \in 1..(k - 1) : w[i] = w[k] - 1

ServedAsk(z, y, f, s, w) ==
    /\ Dropped(z.up, y.up) /\ z.up[1] = GetBlocks(f, s)
    /\ SameClient(z, y) /\ y.tip = z.tip /\ y.drops = z.drops
    /\ Told(z, y, w, (Found(f) + 1)..LastTold(z, f, s)) /\ TellsInOrder(z, w, f)
    /\ y.continue = IF LastTold(z, f, s) = Full(f) THEN Full(f) ELSE z.continue

(* A block of a getdata message, and the best block after the last of a batch. *)
ServedBlock(z, y, b) ==
    /\ Shortened(z.up, y.up, "getdata", b)
    /\ SameClient(z, y) /\ y.known = z.known /\ y.tip = z.tip /\ y.drops = z.drops
    /\ IF b = z.continue
       THEN /\ y.continue = None
            /\ \E d \in Seq(Answers) : Added(z.down, d, BlockMsg(b)) /\ Added(d, y.down, Inv(<<z.tip>>))
       ELSE /\ y.continue = z.continue
            /\ Added(z.down, y.down, BlockMsg(b))

(* The end of a getdata message. *)
EmptyData(z, y) ==
    /\ Dropped(z.up, y.up) /\ z.up[1].cmd = "getdata" /\ z.up[1].invs = << >>
    /\ SameClient(z, y) /\ SameServer(z, y) /\ y.down = z.down

Mined(z, y, w) ==
    /\ SameClient(z, y) /\ y.up = z.up
    /\ y.tip = z.tip + 1 /\ y.continue = z.continue /\ y.drops = z.drops
    /\ Told(z, y, w, {z.tip + 1})

(* The connection is new. *)
Fresh(y) ==
    /\ y.asked \cap Held(y) = {}
    /\ y.ready = << >> /\ y.later = << >> /\ y.down = << >>
    /\ y.last = <<y.best, None>> /\ y.up = <<GetBlocks(y.best, None)>>
    /\ y.known = {} /\ y.continue = None

(* A new connection starts with a request. *)
LEMMA FreshSound ==
    ASSUME NEW y, IsLink(y), Fresh(y)
    PROVE  Sound(y)
<1>1. y.last[1] = y.best /\ y.last[2] = None /\ Len(y.up) = 1 /\ y.up[1] = GetBlocks(y.best, None)
  BY DEF Fresh
<1>2. Asks(y.up[1]) /\ y.up[1].from = y.best /\ y.up[1].stop = None
  BY <1>1, MessageFacts DEF Asks
<1>3. \A i \in 1..Len(y.up) : i = 1
  BY <1>1
<1>4. 1 \in 1..Len(y.up)
  BY <1>1
<1>5. Wanted(y) = {}
  BY DEF Fresh, Wanted, Elements
<1>6. KnownUnderWay(y) /\ AskedNotHeld(y)
  BY <1>5 DEF KnownUnderWay, AskedNotHeld, Fresh
<1>7. LastIsLast(y)
  <2>1. IsAsk(y, y.best, None)
    BY TreeFacts DEF IsAsk
  <2>2. 1 \in 1..Len(y.up) /\ 1 \in 1..Len(y.up)
    BY <1>4
  <2> QED
    BY <1>1, <1>2, <1>3, <2>1, <2>2 DEF LastIsLast
<1>8. ContinueSeen(y)
  BY DEF ContinueSeen, Fresh, None
<1>9. GapIsClosing(y)
  <2>1. Good(y, y.up[1])
    BY <1>2 DEF Good
  <2> QED
    BY <1>4, <2>1 DEF GapIsClosing, GoodAsked
<1>10. RepeatIsNeedless(y)
  BY <1>1 DEF RepeatIsNeedless, Repeats
<1>11. OrphanIsNotRequested(y)
  <2>1. ~(y.last[2] > Full(y.best))
    BY <1>1, TreeFacts DEF None
  <2> QED
    BY <2>1 DEF OrphanIsNotRequested
<1> QED
  BY <1>6, <1>7, <1>8, <1>9, <1>10, <1>11 DEF Sound

(* What is broadcast is announced and seen. *)
LEMMA ToldFacts ==
    ASSUME NEW z, NEW y, NEW w, NEW S, S \subseteq Nat, IsLink(z), IsLink(y), SameTree(z, y),
           Told(z, y, w, S), z.tip <= y.tip, \A x \in 1..y.tip : x > z.tip => x \in S
    PROVE  /\ Grows(z, y) /\ Held(y) = Held(z) /\ Seen(y) = Seen(z) \cup S
           /\ Announced(y) = Announced(z) \cup (S \ z.known) /\ Coming(y) = Coming(z)
           /\ \A c \in Nat : Follows(z, c) => Follows(y, c)
<1>1. Held(y) = Held(z) /\ Seen(y) = Seen(z) \cup S
  BY DEF SameTree, Held, Seen, Told
<1>2. Grows(z, y)
  BY <1>1 DEF Grows
<1>3. Announced(y) = Announced(z) \cup (S \ z.known) /\ Coming(y) = Coming(z)
  <2>1. CASE w = << >>
    <3>1. Elements(w) = {} /\ y.down = z.down
      BY <2>1 DEF Elements, Told
    <3> QED
      BY <3>1, DownFacts DEF Told
  <2>2. CASE w # << >>
    <3>1. Announced(y) = Announced(z) \cup Elements(w) /\ Coming(y) = Coming(z)
      BY <2>2, DownFacts DEF Told
    <3> QED
      BY <3>1 DEF Told
  <2> QED
    BY <2>1, <2>2
<1>4. ASSUME NEW c \in Nat, Follows(z, c) PROVE Follows(y, c)
  BY <1>2, <1>4, FollowsFacts DEF Told
<1> QED
  BY <1>1, <1>2, <1>3, <1>4

(* A new block of the server is announced. *)
LEMMA MinedSound ==
    ASSUME NEW z, NEW y, NEW w, Sound(z), IsLink(y), Mined(z, y, w)
    PROVE  Sound(y)
<1>0. IsLink(z) /\ y.up = z.up /\ SameTree(z, y) /\ SameClient(z, y)
  BY DEF Sound, Mined, SameClient
<1>1. /\ Grows(z, y) /\ Held(y) = Held(z) /\ Seen(y) = Seen(z) \cup {z.tip + 1}
      /\ Announced(y) = Announced(z) \cup ({z.tip + 1} \ z.known) /\ Coming(y) = Coming(z)
      /\ \A c \in Nat : Follows(z, c) => Follows(y, c)
  <2>1. z.tip \in Nat /\ y.tip = z.tip + 1
    BY <1>0 DEF IsLink, Mined
  <2>2. z.tip <= y.tip /\ {z.tip + 1} \subseteq Nat /\ \A x \in 1..y.tip : x > z.tip => x \in {z.tip + 1}
    BY <2>1
  <2> DEFINE S == {z.tip + 1}
  <2>3. Told(z, y, w, S)
    BY DEF Mined
  <2> HIDE DEF S
  <2>4. z.tip <= y.tip /\ S \subseteq Nat /\ \A x \in 1..y.tip : x > z.tip => x \in S
    BY <2>2 DEF S
  <2>5. /\ Grows(z, y) /\ Held(y) = Held(z) /\ Seen(y) = Seen(z) \cup S
        /\ Announced(y) = Announced(z) \cup (S \ z.known) /\ Coming(y) = Coming(z)
        /\ \A c \in Nat : Follows(z, c) => Follows(y, c)
    BY <1>0, <2>3, <2>4, ToldFacts
  <2> QED
    BY <2>5 DEF S
<1>2. /\ y.known = z.known \cup {z.tip + 1} /\ y.continue = z.continue
      /\ Wanted(y) = Wanted(z) /\ Requested(y) = Requested(z)
  BY <1>0 DEF Mined, Told, SameClient, SameQueue, Wanted, Requested
<1>3. KnownUnderWay(y)
  BY <1>1, <1>2 DEF Sound, KnownUnderWay
<1>4. AskedNotHeld(y)
  BY <1>0, <1>1, <1>2 DEF Sound, AskedNotHeld, SameClient
<1>5. LastIsLast(y)
  BY <1>0, LastFacts DEF Sound, SameClient, SameTree
<1>6. ContinueSeen(y)
  BY <1>1, <1>2 DEF Sound, ContinueSeen
<1>7. GapIsClosing(y)
  <2> SUFFICES ASSUME Gap(y) PROVE GoodAsked(y) \/ y.continue # None \/ TopComes(y)
    BY DEF GapIsClosing
  <2>1. Gap(z) /\ \A t : Top(z, t) => Top(y, t)
    BY <1>0, <1>1, GrowsFacts
  <2>2. GoodAsked(z) => GoodAsked(y)
    BY <1>0, <1>1, AskFacts
  <2>4. TopComes(z) => TopComes(y)
    BY <1>1, <1>2, <2>1 DEF TopComes
  <2> QED
    BY <1>2, <2>1, <2>2, <2>4 DEF Sound, GapIsClosing
<1>8. RepeatIsNeedless(y)
  <2> SUFFICES ASSUME Repeats(y) PROVE
        /\ y.last[2] <= Full(y.best) => \A x \in 1..(y.last[2] - 1) : x \in Seen(y)
        /\ y.last[2] > Full(y.best) =>
              \/ y.continue = Full(y.best)
              \/ Full(y.best) \notin y.orphans /\ Follows(y, Full(y.best))
    BY DEF RepeatIsNeedless
  <2>1. Repeats(z)
    BY <1>0, <1>1, GrowsFacts, AskFacts DEF Repeats, SameClient, SameTree
  <2>2. Follows(z, Full(z.best)) => Follows(y, Full(z.best))
    BY <1>0, <1>1, TreeFacts
  <2> QED
    BY <1>0, <1>1, <1>2, <2>1, <2>2 DEF Sound, RepeatIsNeedless, SameClient, SameTree
<1>9. OrphanIsNotRequested(y)
  BY <1>0, NotRequestedFacts DEF Sound, SameClient, SameTree
<1> QED
  BY <1>3, <1>4, <1>5, <1>6, <1>7, <1>8, <1>9 DEF Sound

(* The end of a getdata message changes nothing. *)
LEMMA EmptyDataSound ==
    ASSUME NEW z, NEW y, Sound(z), IsLink(y), EmptyData(z, y)
    PROVE  Sound(y)
<1>0. IsLink(z) /\ SameTree(z, y) /\ SameClient(z, y) /\ SameServer(z, y) /\ y.down = z.down
      /\ Dropped(z.up, y.up) /\ ~Asks(z.up[1]) /\ z.up[1].invs = << >>
  BY DEF Sound, EmptyData, SameClient, Asks
<1>1. /\ Held(y) = Held(z) /\ Wanted(y) = Wanted(z) /\ Requested(y) = Requested(z)
      /\ Announced(y) = Announced(z) /\ Coming(y) = Coming(z)
  BY <1>0, UpFacts, DownFacts DEF SameTree, Held, SameClient, SameQueue, Wanted
<1>2. Grows(z, y) /\ Seen(y) = Seen(z) /\ ContinueSeen(y)
  BY <1>0, <1>1, SeenFacts DEF Sound, Seen
<1>3. KnownUnderWay(y)
  BY <1>0, <1>1 DEF Sound, KnownUnderWay, SameServer
<1>4. AskedNotHeld(y)
  BY <1>0, <1>1 DEF Sound, AskedNotHeld, SameClient
<1>5. LastIsLast(y)
  BY <1>0, LastFacts DEF Sound, SameClient, SameTree
<1>6. GapIsClosing(y)
  <2> SUFFICES ASSUME Gap(y) PROVE GoodAsked(y) \/ y.continue # None \/ TopComes(y)
    BY DEF GapIsClosing
  <2>1. Gap(z) /\ \A t : Top(z, t) => Top(y, t)
    BY <1>0, <1>2, GrowsFacts
  <2>2. GoodAsked(z) => GoodAsked(y)
    BY <1>0, <1>2, AskFacts DEF Good
  <2>4. TopComes(z) => TopComes(y)
    BY <1>1, <2>1 DEF TopComes
  <2> QED
    BY <1>0, <2>1, <2>2, <2>4 DEF Sound, GapIsClosing, SameServer
<1>7. RepeatIsNeedless(y)
  <2> SUFFICES ASSUME Repeats(y) PROVE
        /\ y.last[2] <= Full(y.best) => \A x \in 1..(y.last[2] - 1) : x \in Seen(y)
        /\ y.last[2] > Full(y.best) =>
              \/ y.continue = Full(y.best)
              \/ Full(y.best) \notin y.orphans /\ Follows(y, Full(y.best))
    BY DEF RepeatIsNeedless
  <2>1. Repeats(z)
    BY <1>0, <1>2, GrowsFacts, AskFacts DEF Repeats, SameClient, SameTree
  <2>2. Follows(z, Full(z.best)) => Follows(y, Full(z.best))
    BY <1>0, <1>2, FollowsFacts, TreeFacts
  <2> QED
    BY <1>0, <1>2, <2>1, <2>2 DEF Sound, RepeatIsNeedless, SameClient, SameTree, SameServer
<1>8. OrphanIsNotRequested(y)
  BY <1>0, NotRequestedFacts DEF Sound, SameClient, SameTree
<1> QED
  BY <1>2, <1>3, <1>4, <1>5, <1>6, <1>7, <1>8 DEF Sound
(* What a block that is served changes. *)
LEMMA ServedBlockFacts ==
    ASSUME NEW z, NEW y, NEW b \in Nat, IsLink(z), IsLink(y), ServedBlock(z, y, b)
    PROVE  /\ Held(y) = Held(z) /\ Wanted(y) = Wanted(z) /\ Seen(y) = Seen(z)
           /\ Requested(z) = Requested(y) \cup {b} /\ Grows(z, y)
           /\ Coming(y) = Coming(z) \cup {b}
           /\ Announced(z) \subseteq Announced(y)
           /\ Announced(y) \subseteq Announced(z) \cup {z.tip}
           /\ b = z.continue => z.tip \in Announced(y)
           /\ \A c \in Nat : Follows(z, c) => Follows(y, c)
           /\ b = z.continue => Follows(y, b)
<1>0. /\ SameTree(z, y) /\ SameClient(z, y) /\ Shortened(z.up, y.up, "getdata", b)
      /\ y.known = z.known /\ y.tip = z.tip
  BY DEF ServedBlock, SameClient
<1>1. /\ Held(y) = Held(z) /\ Wanted(y) = Wanted(z) /\ Seen(y) = Seen(z)
      /\ Requested(z) = Requested(y) \cup {b}
  BY <1>0, UpFacts DEF SameTree, Held, SameClient, SameQueue, Wanted, Seen
<1>2. Grows(z, y)
  <2>1. z.tip \in Nat
    BY <1>0 DEF IsLink
  <2> QED
    BY <1>0, <1>1, <2>1 DEF Grows
<1>3. /\ Coming(y) = Coming(z) \cup {b}
      /\ Announced(z) \subseteq Announced(y) /\ Announced(y) \subseteq Announced(z) \cup {z.tip}
      /\ b = z.continue => z.tip \in Announced(y)
      /\ \A c \in Nat : Follows(z, c) => Follows(y, c)
      /\ b = z.continue => Follows(y, b)
  <2>1. CASE b # z.continue
    <3>1. Added(z.down, y.down, BlockMsg(b))
      BY <2>1 DEF ServedBlock
    <3>2. Announced(y) = Announced(z) /\ Coming(y) = Coming(z) \cup {b}
      BY <1>0, <3>1, DownFacts
    <3>3. \A c \in Nat : Follows(z, c) => Follows(y, c)
      BY <1>0, <1>2, <3>1, FollowsFacts
    <3> QED
      BY <2>1, <3>2, <3>3
  <2>2. CASE b = z.continue
    <3> DEFINE two == Inv(<<z.tip>>)
    <3>1. PICK d \in Seq(Answers) : Added(z.down, d, BlockMsg(b)) /\ Added(d, y.down, two)
      BY <2>2 DEF ServedBlock
    <3>2. z.down \in Seq(Answers) /\ y.down \in Seq(Answers) /\ z.tip \in Nat
      BY <1>0 DEF IsLink
    <3>3. two.cmd = "inv" /\ two.invs = <<z.tip>>
      BY MessageFacts
    <3>t. Elements(<<z.tip>>) = {z.tip}
      BY DEF Elements
    <3>4. \A x : (Lists(two, "inv", x) <=> x = z.tip) /\ two # BlockMsg(x)
      BY <3>3, <3>t, MessageFacts DEF Lists
    <3> HIDE DEF two
    <3>5. \A x : ~Lists(BlockMsg(b), "inv", x)
      BY MessageFacts DEF Lists
    <3>6. \A x : BlockMsg(b) = BlockMsg(x) <=> x = b
      BY MessageFacts
    <3>7. /\ \A cmd, x : Listed(d, cmd, x) <=> Lists(BlockMsg(b), cmd, x) \/ Listed(z.down, cmd, x)
          /\ \A x : Sent(d, x) <=> BlockMsg(b) = BlockMsg(x) \/ Sent(z.down, x)
      BY <3>1, <3>2, AddedFacts
    <3>8. /\ \A cmd, x : Listed(y.down, cmd, x) <=> Lists(two, cmd, x) \/ Listed(d, cmd, x)
          /\ \A x : Sent(y.down, x) <=> two = BlockMsg(x) \/ Sent(d, x)
      BY <3>1, <3>2, AddedFacts
    <3>9. /\ Coming(y) = Coming(z) \cup {b} /\ Announced(y) = Announced(z) \cup {z.tip}
      BY <3>2, <3>4, <3>5, <3>6, <3>7, <3>8 DEF Coming, Announced
    <3>10. Len(z.down) \in Nat /\ Len(d) = Len(z.down) + 1 /\ Len(y.down) = Len(z.down) + 2
      BY <1>0, <3>1, LinkLens DEF Added
    <3>11. /\ \A i \in 1..Len(z.down) : y.down[i] = z.down[i]
           /\ y.down[Len(z.down) + 1] = BlockMsg(b) /\ y.down[Len(z.down) + 2] = two
      <4>1. \A i \in 1..Len(d) : y.down[i] = d[i]
        BY <3>1 DEF Added
      <4>2. \A i \in 1..Len(z.down) : i \in 1..Len(d) /\ d[i] = z.down[i]
        BY <3>1, <3>10 DEF Added
      <4>3. Len(z.down) + 1 \in 1..Len(d) /\ d[Len(z.down) + 1] = BlockMsg(b)
        BY <3>1, <3>10 DEF Added
      <4>4. Len(d) + 1 = Len(z.down) + 2 /\ y.down[Len(d) + 1] = two
        BY <3>1, <3>10 DEF Added
      <4> QED
        BY <4>1, <4>2, <4>3, <4>4
    <3>12. ASSUME NEW c \in Nat, Follows(z, c) PROVE Follows(y, c)
      <4>1. PICK j \in 1..Len(z.down), t \in Nat :
                /\ Lists(z.down[j], "inv", t) /\ Top(z, t)
                /\ \E i \in 1..(j - 1) : z.down[i] = BlockMsg(c)
        BY <3>12 DEF Follows
      <4>2. Top(y, t)
        BY <1>0, <1>2, <4>1, GrowsFacts
      <4>3. PICK i \in 1..(j - 1) : z.down[i] = BlockMsg(c)
        BY <4>1
      <4>4. j \in 1..Len(y.down) /\ i \in 1..Len(z.down)
        BY <3>10
      <4>5. y.down[j] = z.down[j] /\ y.down[i] = z.down[i]
        BY <3>11, <4>4
      <4> QED
        BY <4>1, <4>2, <4>3, <4>4, <4>5 DEF Follows
    <3>13. Follows(y, b)
      <4>1. Top(y, z.tip)
        BY <1>0, <3>2 DEF Top, SeenFrom
      <4>2. /\ Len(z.down) + 2 \in 1..Len(y.down)
            /\ Len(z.down) + 1 \in 1..((Len(z.down) + 2) - 1)
        BY <3>10
      <4> QED
        BY <3>2, <3>4, <3>11, <4>1, <4>2 DEF Follows
    <3> QED
      BY <3>9, <3>12, <3>13
  <2> QED
    BY <2>1, <2>2
<1> QED
  BY <1>1, <1>2, <1>3

(* The last block of a batch is followed by an announcement. *)
LEMMA ServedBlockSound ==
    ASSUME NEW z, NEW y, NEW b \in Nat, Sound(z), IsLink(y), ServedBlock(z, y, b)
    PROVE  Sound(y)
<1>0. /\ IsLink(z) /\ SameTree(z, y) /\ SameClient(z, y) /\ Shortened(z.up, y.up, "getdata", b)
      /\ y.known = z.known /\ y.tip = z.tip
  BY DEF Sound, ServedBlock, SameClient
<1>1. /\ Held(y) = Held(z) /\ Wanted(y) = Wanted(z) /\ Seen(y) = Seen(z)
      /\ Requested(z) = Requested(y) \cup {b}
  BY <1>0, ServedBlockFacts
<1>2. Grows(z, y)
  BY <1>0, ServedBlockFacts
<1>3. /\ Coming(y) = Coming(z) \cup {b}
      /\ Announced(z) \subseteq Announced(y)
      /\ b = z.continue => z.tip \in Announced(y)
      /\ \A c \in Nat : Follows(z, c) => Follows(y, c)
      /\ b = z.continue => Follows(y, b)
  BY <1>0, ServedBlockFacts
<1>4. y.continue = IF b = z.continue THEN None ELSE z.continue
  BY DEF ServedBlock
<1>5. KnownUnderWay(y)
  BY <1>0, <1>1, <1>3 DEF Sound, KnownUnderWay
<1>6. AskedNotHeld(y)
  BY <1>0, <1>1 DEF Sound, AskedNotHeld, SameClient
<1>7. LastIsLast(y)
  BY <1>0, LastFacts DEF Sound, SameClient, SameTree
<1>8. ContinueSeen(y)
  <2>1. CASE b = z.continue
    BY <1>4, <2>1 DEF ContinueSeen, None
  <2>2. CASE b # z.continue
    BY <1>1, <1>4, <2>2 DEF Sound, ContinueSeen
  <2> QED
    BY <2>1, <2>2
<1>9. GapIsClosing(y)
  <2> SUFFICES ASSUME Gap(y) PROVE GoodAsked(y) \/ y.continue # None \/ TopComes(y)
    BY DEF GapIsClosing
  <2>1. Gap(z) /\ \A t : Top(z, t) => Top(y, t)
    BY <1>0, <1>2, GrowsFacts
  <2>2. GoodAsked(z) => GoodAsked(y)
    BY <1>0, <1>2, AskFacts
  <2>3. TopComes(z) => TopComes(y)
    BY <1>1, <1>3, <2>1 DEF TopComes
  <2>4. b = z.continue => TopComes(y)
    <3>1. Top(y, z.tip)
      BY <1>0 DEF Top, SeenFrom, IsLink
    <3> QED
      BY <1>3, <3>1 DEF TopComes
  <2> QED
    BY <1>4, <2>1, <2>2, <2>3, <2>4 DEF Sound, GapIsClosing
<1>10. RepeatIsNeedless(y)
  <2> SUFFICES ASSUME Repeats(y) PROVE
        /\ y.last[2] <= Full(y.best) => \A x \in 1..(y.last[2] - 1) : x \in Seen(y)
        /\ y.last[2] > Full(y.best) =>
              \/ y.continue = Full(y.best)
              \/ Full(y.best) \notin y.orphans /\ Follows(y, Full(y.best))
    BY DEF RepeatIsNeedless
  <2>1. Repeats(z)
    BY <1>0, <1>2, GrowsFacts, AskFacts DEF Repeats, SameClient, SameTree
  <2>2. Follows(z, Full(z.best)) => Follows(y, Full(z.best))
    BY <1>0, <1>3, TreeFacts
  <2>3. /\ y.last = z.last /\ y.best = z.best /\ y.orphans = z.orphans
    BY <1>0 DEF SameClient, SameTree
  <2>4. ASSUME z.last[2] > Full(z.best), z.continue = Full(z.best), b = z.continue
        PROVE  Full(z.best) \notin z.orphans
    <3> SUFFICES ASSUME Full(z.best) \in z.orphans PROVE FALSE
      OBVIOUS
    <3>1. 1 \in 1..Len(z.up) /\ Lists(z.up[1], "getdata", b)
      <4> DEFINE u == z.up[1].invs
      <4>1. /\ Len(z.up) >= 1 /\ z.up[1].cmd = "getdata" /\ u \in Seq(Nat)
            /\ Len(u) = Len(y.up[1].invs) + 1 /\ y.up[1].invs \in Seq(Nat) /\ u[1] = b
        BY <1>0 DEF Shortened
      <4> HIDE DEF u
      <4>2. 1 \in DOMAIN u
        BY <4>1
      <4>3. b \in Elements(u)
        BY <4>1, <4>2 DEF Elements
      <4> QED
        BY <1>0, <4>1, <4>3, LinkLens DEF Lists, u
    <3>2. PICK j \in 2..Len(z.up) : Asks(z.up[j])
      <4>1. \E j \in (1 + 1)..Len(z.up) : Asks(z.up[j])
        BY <2>1, <2>4, <3>1 DEF Sound, OrphanIsNotRequested, Repeats
      <4> QED
        BY <4>1
    <3>3. j \in 1..Len(z.up)
      BY <1>0, LinkLens
    <3> QED
      BY <2>1, <3>2, <3>3 DEF Repeats, Asking
  <2>5. ASSUME z.last[2] > Full(z.best)
        PROVE  y.continue = Full(z.best) \/ (Full(z.best) \notin z.orphans /\ Follows(y, Full(z.best)))
    <3>1. CASE z.continue = Full(z.best)
      BY <1>3, <1>4, <2>4, <2>5, <3>1
    <3>2. CASE z.continue # Full(z.best)
      BY <2>1, <2>2, <2>5, <3>2 DEF Sound, RepeatIsNeedless
    <3> QED
      BY <3>1, <3>2
  <2> QED
    BY <1>1, <2>1, <2>3, <2>5 DEF Sound, RepeatIsNeedless
<1>11. OrphanIsNotRequested(y)
  BY <1>0, NotRequestedFacts DEF Sound, SameClient, SameTree
<1> QED
  BY <1>5, <1>6, <1>7, <1>8, <1>9, <1>10, <1>11 DEF Sound

(* What an answer to getblocks changes. *)
LEMMA ServedAskFacts ==
    ASSUME NEW z, NEW y, NEW f \in Int, NEW s \in Nat, NEW w, Sound(z), IsLink(y),
           ServedAsk(z, y, f, s, w)
    PROVE  /\ z.tip \in Nat /\ Found(f) \in Nat /\ Full(f) \in Nat /\ Full(f) # None
           /\ Full(f) > Found(f) /\ LastTold(z, f, s) \in Nat
           /\ Grows(z, y) /\ Held(y) = Held(z)
           /\ Seen(y) = Seen(z) \cup (Found(f) + 1)..LastTold(z, f, s)
           /\ Announced(y) = Announced(z) \cup ((Found(f) + 1)..LastTold(z, f, s) \ z.known)
           /\ Coming(y) = Coming(z)
           /\ \A c \in Nat : Follows(z, c) => Follows(y, c)
           /\ \A x \in 1..LastTold(z, f, s) : x \in Seen(y)
           /\ y.known = z.known \cup (Found(f) + 1)..LastTold(z, f, s)
           /\ Wanted(y) = Wanted(z) /\ Requested(y) = Requested(z)
<1> DEFINE e == LastTold(z, f, s)
           S == (Found(f) + 1)..e
<1>0. /\ IsLink(z) /\ SameTree(z, y) /\ SameClient(z, y) /\ Dropped(z.up, y.up)
      /\ z.up[1] = GetBlocks(f, s) /\ y.tip = z.tip /\ Told(z, y, w, S)
      /\ y.continue = IF e = Full(f) THEN Full(f) ELSE z.continue
  BY DEF Sound, ServedAsk, SameClient
<1>1. /\ z.tip \in Nat /\ Found(f) \in Nat /\ Full(f) \in Nat /\ Full(f) # None
      /\ Full(f) > Found(f)
  <2>1. Height(f) \in Nat /\ Found(f) \in Nat /\ Full(f) \in Nat /\ Full(f) > Height(f)
        /\ Found(f) <= Height(f)
    BY HeightFacts
  <2> QED
    BY SMTT(20), <1>0, <2>1 DEF IsLink, None
<1>2. e \in Nat
  BY <1>1 DEF LastTold, None
<1>3. Asks(z.up[1]) /\ z.up[1].from = f /\ z.up[1].stop = s /\ 1 \in 1..Len(z.up)
  BY <1>0, MessageFacts, UpPlaces DEF Asks
<1>4. f \in z.have /\ (s = None \/ s > Found(f))
  BY <1>3 DEF Sound, LastIsLast, IsAsk
<1>5. e = IF s # None /\ s > Found(f) /\ s <= Full(f) THEN s - 1
          ELSE IF Full(f) > z.tip THEN z.tip ELSE Full(f)
  BY DEF LastTold
<1> HIDE DEF e
<1>6. S \subseteq Nat /\ z.tip <= y.tip /\ \A x \in 1..y.tip : x > z.tip => x \in S
  BY <1>0, <1>1, <1>2
<1>7. /\ Grows(z, y) /\ Held(y) = Held(z) /\ Seen(y) = Seen(z) \cup S
      /\ Announced(y) = Announced(z) \cup (S \ z.known) /\ Coming(y) = Coming(z)
      /\ \A c \in Nat : Follows(z, c) => Follows(y, c)
  <2> HIDE DEF S
  <2> QED
    BY <1>0, <1>6, ToldFacts
<1>8. \A x \in 1..e : x \in Seen(y)
  <2>1. \A x \in 1..Found(f) : x \in z.have
    BY <1>0, <1>4, HaveFound
  <2>2. \A x \in 1..e : x \in 1..Found(f) \/ x \in S
    BY <1>1, <1>2
  <2> QED
    BY <1>7, <2>1, <2>2 DEF Seen, Held
<1>9. /\ y.known = z.known \cup S
      /\ Wanted(y) = Wanted(z) /\ Requested(y) = Requested(z)
  BY <1>0, <1>3, UpFacts DEF Told, SameClient, SameQueue, Wanted
<1>10. e = LastTold(z, f, s)
  BY DEF e
<1> QED
  BY <1>1, <1>2, <1>7, <1>8, <1>9, <1>10

(* An answer to getblocks ends the gap or sets the continue hash. *)
LEMMA ServedAskSound ==
    ASSUME NEW z, NEW y, NEW f \in Int, NEW s \in Nat, NEW w, Sound(z), IsLink(y),
           ServedAsk(z, y, f, s, w)
    PROVE  Sound(y)
<1> DEFINE e == LastTold(z, f, s)
           S == (Found(f) + 1)..e
<1>0. /\ IsLink(z) /\ SameTree(z, y) /\ SameClient(z, y) /\ Dropped(z.up, y.up)
      /\ z.up[1] = GetBlocks(f, s) /\ y.tip = z.tip /\ Told(z, y, w, S)
      /\ y.continue = IF e = Full(f) THEN Full(f) ELSE z.continue
  BY DEF Sound, ServedAsk, SameClient
<1>1. /\ z.tip \in Nat /\ Found(f) \in Nat /\ Full(f) \in Nat /\ Full(f) # None
      /\ Full(f) > Found(f)
  BY ServedAskFacts
<1>2. e \in Nat
  BY ServedAskFacts
<1>3. Asks(z.up[1]) /\ z.up[1].from = f /\ z.up[1].stop = s /\ 1 \in 1..Len(z.up)
  BY <1>0, MessageFacts, UpPlaces DEF Asks
<1>4. f \in z.have /\ (s = None \/ s > Found(f))
  BY <1>3 DEF Sound, LastIsLast, IsAsk
<1>7. /\ Grows(z, y) /\ Held(y) = Held(z) /\ Seen(y) = Seen(z) \cup S
      /\ Announced(y) = Announced(z) \cup (S \ z.known) /\ Coming(y) = Coming(z)
      /\ \A c \in Nat : Follows(z, c) => Follows(y, c)
  BY ServedAskFacts
<1>8. \A x \in 1..e : x \in Seen(y)
  BY ServedAskFacts
<1>9. /\ y.known = z.known \cup S
      /\ Wanted(y) = Wanted(z) /\ Requested(y) = Requested(z)
  BY ServedAskFacts
<1>5. e = IF s # None /\ s > Found(f) /\ s <= Full(f) THEN s - 1
          ELSE IF Full(f) > z.tip THEN z.tip ELSE Full(f)
  BY DEF LastTold
<1> HIDE DEF e
<1>10. KnownUnderWay(y)
  BY <1>7, <1>9 DEF Sound, KnownUnderWay
<1>11. AskedNotHeld(y)
  BY <1>0, <1>7, <1>9 DEF Sound, AskedNotHeld, SameClient
<1>12. LastIsLast(y)
  BY <1>0, LastFacts DEF Sound, SameClient, SameTree
<1>13. ContinueSeen(y)
  <2>1. CASE e = Full(f)
    BY <1>0, <1>8, <2>1 DEF ContinueSeen
  <2>2. CASE e # Full(f)
    BY <1>0, <1>7, <2>2 DEF Sound, ContinueSeen
  <2> QED
    BY <2>1, <2>2
<1>14. e = z.tip => ~Gap(y)
  BY <1>0, <1>8 DEF Gap
<1>15. ASSUME s = None \/ s > Full(f) PROVE y.continue = Full(f) \/ ~Gap(y)
  <2>1. e = IF Full(f) > z.tip THEN z.tip ELSE Full(f)
    BY <1>1, <1>5, <1>15 DEF None
  <2> QED
    BY <1>0, <1>14, <2>1
<1>16. ASSUME s # None, s <= Full(f) PROVE e = s - 1
  BY <1>4, <1>5, <1>16
<1>17. GapIsClosing(y)
  <2> SUFFICES ASSUME Gap(y) PROVE GoodAsked(y) \/ y.continue # None \/ TopComes(y)
    BY DEF GapIsClosing
  <2>1. Gap(z) /\ \A t : Top(z, t) => Top(y, t)
    BY <1>0, <1>7, GrowsFacts
  <2>2. GoodAsked(z) => Good(z, z.up[1]) \/ GoodAsked(y)
    BY <1>0, <1>7, AskFacts
  <2>3. Good(z, z.up[1]) => y.continue # None
    <3> SUFFICES ASSUME Good(z, z.up[1]) PROVE y.continue # None
      OBVIOUS
    <3>1. CASE s = None \/ s > Full(f)
      BY <1>1, <1>15, <3>1
    <3>2. CASE s # None /\ s <= Full(f)
      <4>1. SeenFrom(y, s)
        BY <1>0, <1>1, <1>3, <1>7, <3>2, GrowsFacts DEF Good
      <4>2. e = s - 1
        BY <1>16, <3>2
      <4>3. ~Gap(y)
        <5> SUFFICES ASSUME NEW x \in 1..y.tip PROVE x \in Seen(y)
          BY DEF Gap
        <5>1. x \in 1..e \/ s <= x
          BY <1>0, <1>1, <1>2, <4>2
        <5> QED
          BY <1>8, <4>1, <5>1 DEF SeenFrom
      <4> QED
        BY <4>3
    <3> QED
      BY <1>1, <3>1, <3>2
  <2>4. TopComes(z) => TopComes(y)
    BY <1>7, <1>9, <2>1 DEF TopComes
  <2>5. z.continue # None => y.continue # None
    BY <1>0, <1>1
  <2> QED
    BY <2>1, <2>2, <2>3, <2>4, <2>5 DEF Sound, GapIsClosing
<1>18. RepeatIsNeedless(y)
  <2> SUFFICES ASSUME Repeats(y) PROVE
        /\ y.last[2] <= Full(y.best) => \A x \in 1..(y.last[2] - 1) : x \in Seen(y)
        /\ y.last[2] > Full(y.best) =>
              \/ y.continue = Full(y.best)
              \/ Full(y.best) \notin y.orphans /\ Follows(y, Full(y.best))
    BY DEF RepeatIsNeedless
  <2>1. z.up[1] = GetBlocks(z.last[1], z.last[2])
    <3>1. PICK j \in 1..Len(z.up) : z.up[j] = GetBlocks(z.last[1], z.last[2])
      BY <1>3 DEF Sound, LastIsLast
    <3>2. CASE j = 1
      BY <3>1, <3>2
    <3>3. CASE j # 1
      <4>1. j - 1 \in 1..Len(y.up) /\ y.up[j - 1] = z.up[j]
        BY <1>0, <3>3, UpPlaces
      <4>2. Asks(y.up[j - 1])
        BY <3>1, <4>1, MessageFacts DEF Asks
      <4> QED
        BY <4>1, <4>2 DEF Repeats, Asking
    <3> QED
      BY <3>2, <3>3
  <2>2. z.last[1] = f /\ z.last[2] = s
    BY <1>0, <2>1 DEF GetBlocks
  <2>3. y.best = f /\ y.last[2] = s /\ s # None
    BY <1>0, <2>2 DEF Repeats, SameClient
  <2>4. ASSUME s <= Full(f) PROVE \A x \in 1..(s - 1) : x \in Seen(y)
    BY <1>8, <1>16, <2>3, <2>4
  <2>5. ASSUME s > Full(f) PROVE y.continue = Full(f)
    BY <1>15, <2>5 DEF Repeats
  <2> QED
    BY <2>3, <2>4, <2>5
<1>19. OrphanIsNotRequested(y)
  BY <1>0, NotRequestedFacts DEF Sound, SameClient, SameTree
<1> QED
  BY <1>10, <1>11, <1>12, <1>13, <1>17, <1>18, <1>19 DEF Sound
----------------------------------------------------------------------------
(* Order. *)

(* What is below p in H is in G. *)
Below(H, G, p) == \A x \in H : x < p => x \in G

(* The lists without the first message. *)
LEMMA ListsDropped ==
    ASSUME NEW s, NEW r, Len(s) \in Nat, Len(r) \in Nat, NEW cmd, NEW H, NEW G, NEW p \in Nat,
           ListsInOrder(s, cmd, H, p), Below(H, G, p), Dropped(s, r),
           \A x \in Nat : Lists(s[1], cmd, x) /\ x < p => x \in G
    PROVE  ListsInOrder(r, cmd, G, p)
<1> SUFFICES ASSUME NEW j \in 1..Len(r), r[j].cmd = cmd,
                    NEW k \in 1..Len(r[j].invs), r[j].invs[k] \in 1..p
             PROVE  \/ r[j].invs[k] - 1 \in G
                    \/ \E i \in 1..(j - 1) : Lists(r[i], cmd, r[j].invs[k] - 1)
                    \/ \E i \in 1..(k - 1) : r[j].invs[i] = r[j].invs[k] - 1
  BY DEF ListsInOrder
<1> DEFINE x == r[j].invs[k]
<1>1. j + 1 \in 1..Len(s) /\ s[j + 1] = r[j]
  BY DEF Dropped
<1>2. \/ x - 1 \in H
      \/ \E i \in 1..j : Lists(s[i], cmd, x - 1)
      \/ \E i \in 1..(k - 1) : r[j].invs[i] = x - 1
  <2>1. (j + 1) - 1 = j
    OBVIOUS
  <2> QED
    BY <1>1, <2>1 DEF ListsInOrder
<1>3. x - 1 \in Nat /\ x - 1 < p
  OBVIOUS
<1> HIDE DEF x
<1>4. CASE x - 1 \in H
  BY <1>3, <1>4 DEF Below, x
<1>5. ASSUME NEW i \in 1..j, Lists(s[i], cmd, x - 1)
      PROVE  x - 1 \in G \/ \E l \in 1..(j - 1) : Lists(r[l], cmd, x - 1)
  <2>1. CASE i = 1
    BY <1>3, <1>5, <2>1
  <2>2. CASE i # 1
    <3>1. i - 1 \in 1..(j - 1) /\ i - 1 \in 1..Len(r) /\ (i - 1) + 1 = i
      BY <2>2
    <3>2. r[i - 1] = s[i]
      BY <3>1 DEF Dropped
    <3> QED
      BY <1>5, <3>1, <3>2
  <2> QED
    BY <2>1, <2>2
<1> QED
  BY <1>2, <1>4, <1>5 DEF x

(* The lists without the first block. *)
LEMMA ListsShortened ==
    ASSUME NEW s, NEW r, Len(s) \in Nat, Len(r) \in Nat, NEW cmd, NEW H, NEW G, NEW p \in Nat,
           ListsInOrder(s, cmd, H, p), Below(H, G, p), NEW b \in Nat, Shortened(s, r, cmd, b),
           b \in G \/ b >= p
    PROVE  ListsInOrder(r, cmd, G, p)
<1> SUFFICES ASSUME NEW j \in 1..Len(r), r[j].cmd = cmd,
                    NEW k \in 1..Len(r[j].invs), r[j].invs[k] \in 1..p
             PROVE  \/ r[j].invs[k] - 1 \in G
                    \/ \E i \in 1..(j - 1) : Lists(r[i], cmd, r[j].invs[k] - 1)
                    \/ \E i \in 1..(k - 1) : r[j].invs[i] = r[j].invs[k] - 1
  BY DEF ListsInOrder
<1> DEFINE x == r[j].invs[k]
           u == s[1].invs
           v == r[1].invs
<1>1. x - 1 \in Nat /\ x - 1 < p
  OBVIOUS
<1>2. /\ Len(s) = Len(r) /\ s[1].cmd = cmd /\ r[1].cmd = cmd
      /\ u \in Seq(Nat) /\ v \in Seq(Nat) /\ Len(u) = Len(v) + 1 /\ u[1] = b
      /\ \A i \in 1..Len(v) : v[i] = u[i + 1]
      /\ \A i \in 2..Len(s) : r[i] = s[i]
  BY DEF Shortened
<1>3. Len(u) \in Nat /\ Len(v) \in Nat /\ DOMAIN u = 1..Len(u) /\ DOMAIN v = 1..Len(v)
  BY SMTT(20), <1>2
<1>4. CASE j = 1
  <2>1. x = v[k] /\ k \in 1..Len(v)
    BY <1>4
  <2> HIDE DEF x, u, v
  <2>2. k + 1 \in 1..Len(u) /\ u[k + 1] = x /\ 1 \in 1..Len(s)
    BY <1>2, <1>3, <1>4, <2>1
  <2>3. \/ x - 1 \in H
        \/ \E i \in 1..(1 - 1) : Lists(s[i], cmd, x - 1)
        \/ \E i \in 1..((k + 1) - 1) : u[i] = x - 1
    BY <1>2, <2>2 DEF ListsInOrder, u, x
  <2>4. ASSUME NEW i \in 1..((k + 1) - 1), u[i] = x - 1
        PROVE  x - 1 \in G \/ \E l \in 1..(k - 1) : v[l] = x - 1
    <3>1. CASE i = 1
      BY <1>1, <1>2, <2>4, <3>1
    <3>2. CASE i # 1
      <4>1. i - 1 \in 1..(k - 1) /\ i - 1 \in 1..Len(v) /\ (i - 1) + 1 = i
        BY <1>3, <2>1, <3>2
      <4>2. v[i - 1] = u[i]
        BY <1>2, <4>1
      <4> QED
        BY <2>4, <4>1, <4>2
    <3> QED
      BY <3>1, <3>2
  <2>5. x - 1 \in H => x - 1 \in G
    BY <1>1 DEF Below
  <2>6. 1..(1 - 1) = {}
    OBVIOUS
  <2>7. x - 1 \in G \/ \E l \in 1..(k - 1) : v[l] = x - 1
    BY <2>3, <2>4, <2>5, <2>6
  <2> QED
    BY <1>4, <2>7 DEF x, v
<1>5. CASE j # 1
  <2>1. j \in 1..Len(s) /\ s[j] = r[j]
    BY <1>2, <1>5
  <2>2. \/ x - 1 \in H
        \/ \E i \in 1..(j - 1) : Lists(s[i], cmd, x - 1)
        \/ \E i \in 1..(k - 1) : r[j].invs[i] = x - 1
    BY <2>1 DEF ListsInOrder
  <2> HIDE DEF x
  <2>3. ASSUME NEW i \in 1..(j - 1), Lists(s[i], cmd, x - 1)
        PROVE  x - 1 \in G \/ Lists(r[i], cmd, x - 1)
    <3>1. CASE i = 1
      <4> HIDE DEF u, v
      <4>1. PICK l \in 1..Len(u) : u[l] = x - 1
        <5>1. x - 1 \in Elements(u)
          BY <2>3, <3>1 DEF Lists, u
        <5> QED
          BY <1>3, <5>1 DEF Elements
      <4>2. CASE l = 1
        BY <1>1, <1>2, <4>1, <4>2
      <4>3. CASE l # 1
        <5>1. l - 1 \in 1..Len(v) /\ (l - 1) + 1 = l
          BY <1>2, <1>3, <4>3
        <5>2. v[l - 1] = x - 1
          BY <1>2, <4>1, <5>1
        <5>3. x - 1 \in Elements(v)
          BY <1>3, <5>1, <5>2 DEF Elements
        <5> QED
          BY <1>2, <3>1, <5>3 DEF Lists, v
      <4> QED
        BY <4>2, <4>3
    <3>2. CASE i # 1
      <4>1. r[i] = s[i]
        BY <1>2, <2>1, <3>2
      <4> QED
        BY <2>3, <4>1
    <3> QED
      BY <3>1, <3>2
  <2>5. x - 1 \in H => x - 1 \in G
    BY <1>1 DEF Below
  <2>6. \/ x - 1 \in G
        \/ \E i \in 1..(j - 1) : Lists(r[i], cmd, x - 1)
        \/ \E i \in 1..(k - 1) : r[j].invs[i] = x - 1
    BY <2>2, <2>3, <2>5
  <2> QED
    BY <2>6 DEF x
<1> QED
  BY <1>4, <1>5

(* What a list with blocks up to p needs to come after the lists of s. *)
NextInOrder(s, m, cmd, G, p) ==
    \A k \in 1..Len(m.invs) : m.invs[k] \in 1..p =>
        \/ m.invs[k] - 1 \in G
        \/ Listed(s, cmd, m.invs[k] - 1)
        \/ \E i \in 1..(k - 1) : m.invs[i] = m.invs[k] - 1

(* The lists with one more message. *)
LEMMA ListsAdded ==
    ASSUME NEW s, NEW r, Len(s) \in Nat, Len(r) \in Nat, NEW cmd, NEW H, NEW G, NEW p \in Nat,
           ListsInOrder(s, cmd, H, p), Below(H, G, p), NEW m, Added(s, r, m),
           m.cmd = cmd => NextInOrder(s, m, cmd, G, p)
    PROVE  ListsInOrder(r, cmd, G, p)
<1> SUFFICES ASSUME NEW j \in 1..Len(r), r[j].cmd = cmd,
                    NEW k \in 1..Len(r[j].invs), r[j].invs[k] \in 1..p
             PROVE  \/ r[j].invs[k] - 1 \in G
                    \/ \E i \in 1..(j - 1) : Lists(r[i], cmd, r[j].invs[k] - 1)
                    \/ \E i \in 1..(k - 1) : r[j].invs[i] = r[j].invs[k] - 1
  BY DEF ListsInOrder
<1> DEFINE x == r[j].invs[k]
<1>1. x - 1 \in Nat /\ x - 1 < p
  OBVIOUS
<1>2. \A i \in 1..Len(s) : r[i] = s[i]
  BY DEF Added
<1>3. CASE j \in 1..Len(s)
  <2>1. s[j] = r[j] /\ \A i \in 1..(j - 1) : r[i] = s[i]
    BY SMTT(20), <1>2, <1>3
  <2>2. \/ x - 1 \in H
        \/ \E i \in 1..(j - 1) : Lists(s[i], cmd, x - 1)
        \/ \E i \in 1..(k - 1) : r[j].invs[i] = x - 1
    BY <1>3, <2>1 DEF ListsInOrder
  <2>3. x - 1 \in H => x - 1 \in G
    BY <1>1 DEF Below
  <2> QED
    BY <2>1, <2>2, <2>3
<1>4. CASE j \notin 1..Len(s)
  <2>1. j = Len(s) + 1 /\ r[j] = m
    BY <1>4 DEF Added
  <2>2. \/ x - 1 \in G
        \/ Listed(s, cmd, x - 1)
        \/ \E i \in 1..(k - 1) : m.invs[i] = x - 1
    BY <2>1 DEF NextInOrder
  <2>3. Listed(s, cmd, x - 1) => \E i \in 1..(j - 1) : Lists(r[i], cmd, x - 1)
    <3>1. (j - 1) = Len(s)
      BY <2>1
    <3> QED
      BY <1>2, <3>1 DEF Listed
  <2> QED
    BY <2>1, <2>2, <2>3
<1> QED
  BY <1>3, <1>4

(* The lists when more is ahead of them. *)
LEMMA ListsKept ==
    ASSUME NEW s, NEW cmd, NEW H, NEW G, NEW p \in Nat,
           ListsInOrder(s, cmd, H, p), Below(H, G, p)
    PROVE  ListsInOrder(s, cmd, G, p)
<1> SUFFICES ASSUME NEW j \in 1..Len(s), s[j].cmd = cmd,
                    NEW k \in 1..Len(s[j].invs), s[j].invs[k] \in 1..p
             PROVE  \/ s[j].invs[k] - 1 \in G
                    \/ \E i \in 1..(j - 1) : Lists(s[i], cmd, s[j].invs[k] - 1)
                    \/ \E i \in 1..(k - 1) : s[j].invs[i] = s[j].invs[k] - 1
  BY DEF ListsInOrder
<1>1. s[j].invs[k] - 1 < p
  OBVIOUS
<1> QED
  BY <1>1 DEF ListsInOrder, Below

(* The blocks with one more message. *)
LEMMA BlocksAdded ==
    ASSUME NEW s, NEW r, Len(s) \in Nat, Len(r) \in Nat, NEW H, NEW G, NEW p \in Nat,
           BlocksInOrder(s, H, p), Below(H, G, p), NEW m, Added(s, r, m),
           \A b \in 1..p : m = BlockMsg(b) => b - 1 \in G \/ Sent(s, b - 1)
    PROVE  BlocksInOrder(r, G, p)
<1>0. ASSUME NEW j \in 1..Len(s), NEW b \in 1..p, s[j] = BlockMsg(b)
      PROVE  b - 1 \in G \/ \E i \in 1..(j - 1) : s[i] = BlockMsg(b - 1)
  <2>1. b - 1 < p
    OBVIOUS
  <2> QED
    BY <1>0, <2>1 DEF BlocksInOrder, Below
<1> SUFFICES ASSUME NEW j \in 1..Len(r), NEW b \in 1..p, r[j] = BlockMsg(b)
             PROVE  b - 1 \in G \/ \E i \in 1..(j - 1) : r[i] = BlockMsg(b - 1)
  BY DEF BlocksInOrder
<1>1. CASE j \in 1..Len(s)
  <2>1. s[j] = r[j] /\ \A i \in 1..(j - 1) : r[i] = s[i]
    BY <1>1 DEF Added
  <2> QED
    BY <1>0, <1>1, <2>1
<1>2. CASE j \notin 1..Len(s)
  <2>1. j = Len(s) + 1 /\ r[j] = m /\ \A i \in 1..Len(s) : i \in 1..(j - 1) /\ r[i] = s[i]
    BY <1>2 DEF Added
  <2> QED
    BY <2>1 DEF Sent
<1> QED
  BY <1>1, <1>2

(* The blocks with fewer messages. *)
LEMMA BlocksKept ==
    ASSUME NEW s, NEW r, Len(s) \in Nat, Len(r) \in Nat, NEW H, NEW G, NEW p \in Nat,
           BlocksInOrder(s, H, p), Below(H, G, p)
    PROVE  /\ r = s => BlocksInOrder(r, G, p)
           /\ \A b : Shortened(s, r, "inv", b) => BlocksInOrder(r, G, p)
           /\ Dropped(s, r) /\ (\A b \in Nat : s[1] = BlockMsg(b) => b \in G \/ b >= p) =>
                  BlocksInOrder(r, G, p)
<1>0. ASSUME NEW j \in 1..Len(s), NEW b \in 1..p, s[j] = BlockMsg(b)
      PROVE  b - 1 \in G \/ \E i \in 1..(j - 1) : s[i] = BlockMsg(b - 1)
  <2>1. b - 1 < p
    OBVIOUS
  <2> QED
    BY <1>0, <2>1 DEF BlocksInOrder, Below
<1>1. ASSUME r = s PROVE BlocksInOrder(r, G, p)
  BY <1>0, <1>1 DEF BlocksInOrder
<1>2. ASSUME NEW c, Shortened(s, r, "inv", c) PROVE BlocksInOrder(r, G, p)
  <2>1. \A i \in 1..Len(s) : i = 1 \/ r[i] = s[i]
    BY <1>2 DEF Shortened
  <2>2. \A b : r[1] # BlockMsg(b) /\ s[1] # BlockMsg(b)
    BY <1>2, MessageFacts DEF Shortened
  <2>3. Len(r) = Len(s)
    BY <1>2 DEF Shortened
  <2> SUFFICES ASSUME NEW j \in 1..Len(r), NEW b \in 1..p, r[j] = BlockMsg(b)
               PROVE  b - 1 \in G \/ \E i \in 1..(j - 1) : r[i] = BlockMsg(b - 1)
    BY DEF BlocksInOrder
  <2>4. j # 1 /\ j \in 1..Len(s) /\ s[j] = BlockMsg(b)
    BY <2>1, <2>2, <2>3
  <2>5. \A i \in 1..(j - 1) : i \in 1..Len(s)
    BY <2>4
  <2> QED
    BY <1>0, <2>1, <2>2, <2>4, <2>5
<1>4. ASSUME Dropped(s, r), \A b \in Nat : s[1] = BlockMsg(b) => b \in G \/ b >= p
      PROVE  BlocksInOrder(r, G, p)
  <2> SUFFICES ASSUME NEW j \in 1..Len(r), NEW b \in 1..p, r[j] = BlockMsg(b)
               PROVE  b - 1 \in G \/ \E i \in 1..(j - 1) : r[i] = BlockMsg(b - 1)
    BY DEF BlocksInOrder
  <2>1. j + 1 \in 1..Len(s) /\ s[j + 1] = r[j] /\ (j + 1) - 1 = j
    BY <1>4 DEF Dropped
  <2>2. b - 1 \in G \/ \E i \in 1..j : s[i] = BlockMsg(b - 1)
    BY <1>0, <2>1
  <2>3. ASSUME NEW i \in 1..j, s[i] = BlockMsg(b - 1), b - 1 \notin G
        PROVE  \E l \in 1..(j - 1) : r[l] = BlockMsg(b - 1)
    <3>1. i # 1
      BY <1>4, <2>3
    <3>2. i - 1 \in 1..(j - 1) /\ i - 1 \in 1..Len(r) /\ (i - 1) + 1 = i
      BY <3>1
    <3>3. r[i - 1] = s[i]
      BY <1>4, <3>2 DEF Dropped
    <3> QED
      BY <2>3, <3>2, <3>3
  <2> QED
    BY <2>2, <2>3
<1> QED
  BY <1>1, <1>2, <1>4

(* The queue when it grows. *)
LEMMA QueueKept ==
    ASSUME NEW q \in Seq(Nat), NEW H, NEW G, NEW p \in Nat, QueueInOrder(q, H, p), Below(H, G, p)
    PROVE  /\ QueueInOrder(q, G, p)
           /\ \A r \in Seq(Nat) :
                 (\A k \in 1..Len(r) : r[k] \in 1..p => r[k] - 1 \in G \cup Elements(q)) =>
                     QueueInOrder(q \o r, G, p)
<1>1. ASSUME NEW k \in 1..Len(q), q[k] \in 1..p
      PROVE  q[k] - 1 \in G \/ \E i \in 1..(k - 1) : q[i] = q[k] - 1
  <2>1. q[k] - 1 < p
    BY <1>1
  <2> QED
    BY <1>1, <2>1 DEF QueueInOrder, Below
<1>2. ASSUME NEW r \in Seq(Nat), \A k \in 1..Len(r) : r[k] \in 1..p => r[k] - 1 \in G \cup Elements(q)
      PROVE  QueueInOrder(q \o r, G, p)
  <2> DEFINE s == q \o r
  <2>1. /\ Len(q) \in Nat /\ DOMAIN q = 1..Len(q) /\ Len(r) \in Nat /\ Len(s) = Len(q) + Len(r)
        /\ \A i \in 1..Len(q) : s[i] = q[i]
        /\ \A i \in 1..Len(r) : s[Len(q) + i] = r[i]
    OBVIOUS
  <2> HIDE DEF s
  <2>2. ASSUME NEW k \in 1..Len(s), s[k] \in 1..p
        PROVE  s[k] - 1 \in G \/ \E i \in 1..(k - 1) : s[i] = s[k] - 1
    <3>1. CASE k \in 1..Len(q)
      <4>1. q[k] = s[k] /\ \A i \in 1..(k - 1) : s[i] = q[i]
        BY <2>1, <3>1
      <4> QED
        BY <1>1, <2>2, <3>1, <4>1
    <3>2. CASE k \notin 1..Len(q)
      <4>1. k - Len(q) \in 1..Len(r) /\ Len(q) + (k - Len(q)) = k
        BY <2>1, <3>2
      <4>2. s[k] = r[k - Len(q)]
        BY <2>1, <4>1
      <4>3. s[k] - 1 \in G \cup Elements(q)
        BY <1>2, <2>2, <4>1, <4>2
      <4>4. CASE s[k] - 1 \in Elements(q)
        <5>1. PICK i \in 1..Len(q) : q[i] = s[k] - 1
          BY <2>1, <4>4 DEF Elements
        <5>2. i \in 1..(k - 1) /\ s[i] = q[i]
          BY <2>1, <3>2
        <5> QED
          BY <5>1, <5>2
      <4> QED
        BY <4>3, <4>4
    <3> QED
      BY <3>1, <3>2
  <2>3. QueueInOrder(s, G, p)
    BY <2>2 DEF QueueInOrder
  <2> QED
    BY <2>3 DEF s
<1> QED
  BY <1>1, <1>2 DEF QueueInOrder
----------------------------------------------------------------------------
(* What a change of the queues does to a regular connection. *)

(* In a gap, all that ends it is above p and not in the tree. *)
LEMMA AboveFacts ==
    ASSUME NEW z, IsLink(z), Gap(z), NEW p \in Nat, OnlyTops(z, p)
    PROVE  /\ \A t \in Nat : Top(z, t) => t > p
           /\ \A x \in z.have : x <= p /\ ~Top(z, x)
           /\ \A x \in z.orphans : x > p
<1>1. ASSUME NEW t \in Nat, Top(z, t), t <= p PROVE FALSE
  <2>1. \A x \in 1..t : x \in Seen(z)
    BY <1>1 DEF OnlyTops, Seen
  <2> QED
    BY <1>1, <2>1, NoGap
<1>2. ASSUME NEW x \in z.have PROVE x <= p /\ ~Top(z, x)
  <2>1. ~Top(z, x) /\ x \in Int
    BY NoGapHave, TreeFacts
  <2>2. CASE x \in Nat
    BY <2>1, <2>2 DEF OnlyTops, Named, Seen, Held
  <2>3. CASE x \notin Nat
    BY <2>1, <2>3
  <2> QED
    BY <2>1, <2>2, <2>3
<1>3. ASSUME NEW x \in z.orphans PROVE x > p
  BY <1>1, TreeFacts DEF OnlyTops
<1> QED
  BY <1>1, <1>2, <1>3

(* What is named in addition ends the gap. *)
LEMMA OnlyTopsKept ==
    ASSUME NEW z, NEW y, IsLink(z), IsLink(y), Grows(z, y), NEW p \in Nat, OnlyTops(z, p),
           z.known \subseteq y.known,
           \A x \in Nat : x \in Named(y) => x \in Named(z) \/ Top(y, x),
           \A x \in y.orphans : x \in z.orphans \/ Top(y, x)
    PROVE  OnlyTops(y, p)
<1>1. \A t : Top(z, t) => Top(y, t)
  BY GrowsFacts
<1> QED
  BY <1>1 DEF OnlyTops

(* No request is sent or served. *)
UpKept(z, y) ==
    \/ y.up = z.up
    \/ \E m : Added(z.up, y.up, m) /\ ~Asks(m)
    \/ \E b : Shortened(z.up, y.up, "getdata", b)
    \/ Dropped(z.up, y.up) /\ ~Asks(z.up[1])

(* The requests of y are requests of z, at d more. *)
Shifted(z, y, d) ==
    /\ \A i \in 1..Len(y.up) : Asks(y.up[i]) => i + d \in 1..Len(z.up) /\ y.up[i] = z.up[i + d]
    /\ \A i \in 1..Len(z.up) : Asks(z.up[i]) => i - d \in 1..Len(y.up) /\ y.up[i - d] = z.up[i]

(* The requests move up by one or stay. *)
LEMMA UpKeptShifted ==
    ASSUME NEW z, NEW y, IsLink(z), IsLink(y), UpKept(z, y)
    PROVE  Shifted(z, y, 0) \/ Shifted(z, y, 1)
<1>0. Len(z.up) \in Nat /\ Len(y.up) \in Nat
  BY LinkLens
<1>1. CASE y.up = z.up
  <2>1. \A i \in Nat : i + 0 = i /\ i - 0 = i
    OBVIOUS
  <2> QED
    BY <1>0, <1>1, <2>1 DEF Shifted
<1>2. ASSUME NEW m, Added(z.up, y.up, m), ~Asks(m)
      PROVE  Shifted(z, y, 0)
  <2>1. \A i \in 1..Len(z.up) : i \in 1..Len(y.up) /\ y.up[i] = z.up[i]
    BY <1>0, <1>2 DEF Added
  <2>2. \A i \in 1..Len(y.up) : i \in 1..Len(z.up) \/ y.up[i] = m
    BY <1>0, <1>2 DEF Added
  <2>3. \A i \in Nat : i + 0 = i /\ i - 0 = i
    OBVIOUS
  <2> QED
    BY <1>2, <2>1, <2>2, <2>3 DEF Shifted
<1>3. ASSUME NEW b, Shortened(z.up, y.up, "getdata", b)
      PROVE  Shifted(z, y, 0)
  <2>1. /\ Len(y.up) = Len(z.up)
        /\ \A i \in 1..Len(z.up) : y.up[i] = z.up[i] \/ (i = 1 /\ ~Asks(y.up[i]) /\ ~Asks(z.up[i]))
    BY <1>3, UpPlaces
  <2>3. \A i \in Nat : i + 0 = i /\ i - 0 = i
    OBVIOUS
  <2> QED
    BY <2>1, <2>3 DEF Shifted
<1>4. CASE Dropped(z.up, y.up) /\ ~Asks(z.up[1])
  <2>1. /\ \A i \in 1..Len(z.up) : i = 1 \/ (i - 1 \in 1..Len(y.up) /\ y.up[i - 1] = z.up[i])
        /\ \A i \in 1..Len(y.up) : i + 1 \in 1..Len(z.up) /\ y.up[i] = z.up[i + 1]
    BY <1>4, UpPlaces
  <2> QED
    BY <1>4, <2>1 DEF Shifted
<1> QED
  BY <1>1, <1>2, <1>3, <1>4 DEF UpKept

(* Requests for batches stay in order when no request is added. *)
LEMMA AsksKept ==
    ASSUME NEW z, NEW y, IsLink(z), IsLink(y), Grows(z, y), NEW p \in Nat,
           UpKept(z, y), y.last = z.last, AsksInOrder(z, p)
    PROVE  AsksInOrder(y, p) /\ (AskAbove(z, p) => AskAbove(y, p))
<1>1. PICK d \in {0, 1} : Shifted(z, y, d)
  BY UpKeptShifted
<1>2. Len(z.up) \in Nat /\ Len(y.up) \in Nat /\ d \in Nat
  BY LinkLens
<1>3. Asking(y) <=> Asking(z)
  BY <1>1 DEF Shifted, Asking
<1>4. ASSUME NEW i \in 1..Len(y.up), Asks(y.up[i])
      PROVE  /\ Full(y.up[i].from) >= p
             /\ y.up[i].stop = None \/ SeenFrom(y, y.up[i].stop)
             /\ \A j \in i..Len(y.up) : Asks(y.up[j]) => Height(y.up[i].from) <= Height(y.up[j].from)
  <2>1. i + d \in 1..Len(z.up) /\ y.up[i] = z.up[i + d]
    BY <1>1, <1>4 DEF Shifted
  <2>2. ASSUME NEW j \in i..Len(y.up), Asks(y.up[j])
        PROVE  j + d \in (i + d)..Len(z.up) /\ y.up[j] = z.up[j + d]
    <3>1. j \in 1..Len(y.up)
      BY <1>2
    <3>2. j + d \in 1..Len(z.up) /\ y.up[j] = z.up[j + d]
      BY <1>1, <2>2, <3>1 DEF Shifted
    <3> QED
      BY <1>2, <3>2
  <2>3. y.up[i].stop = None \/ SeenFrom(y, y.up[i].stop)
    BY <1>4, <2>1, GrowsFacts DEF AsksInOrder
  <2> QED
    BY <1>4, <2>1, <2>2, <2>3 DEF AsksInOrder
<1>5. AskAbove(z, p) => AskAbove(y, p)
  BY <1>1 DEF AskAbove, Shifted
<1> QED
  BY <1>3, <1>4, <1>5 DEF AsksInOrder

(* The client asks for more, or would repeat itself. *)
LEMMA AsksPushed ==
    ASSUME NEW z, NEW y, Sound(z), IsLink(y), Grows(z, y), NEW p \in Nat, AsksInOrder(z, p),
           NEW s \in Nat, s # None, Pushed(z, y, z.best, s), SeenFrom(y, s)
    PROVE  /\ AsksInOrder(y, p) /\ (AskAbove(z, p) => AskAbove(y, p))
           /\ p \in z.have => AskAbove(y, p)
<1>a. IsLink(z)
  BY DEF Sound
<1>0. IsLink(z) /\ Len(z.up) \in Nat /\ Len(y.up) \in Nat
  BY <1>a, LinkLens
<1>1. /\ z.best \in Int /\ Height(z.best) \in Nat /\ Full(z.best) = Height(z.best) + Limit
      /\ Limit \in Nat /\ Limit > 0
  <2>1. z.best \in Int
    BY <1>0, TreeFacts
  <2>2. Height(z.best) \in Nat
    BY <2>1, HeightFacts
  <2>3. Full(z.best) = Height(z.best) + Limit /\ Limit \in Nat /\ Limit > 0
    BY SyncAssumption DEF Full
  <2> QED
    BY <2>1, <2>2, <2>3
<1>2. Full(z.best) >= p
  <2>1. Height(z.last[1]) \in Nat /\ Height(z.last[1]) <= Height(z.best)
    <3>1. Height(z.last[1]) \in Nat
      BY <1>0, HeightFacts DEF IsLink
    <3> QED
      BY <1>1, <3>1 DEF Sound, LastIsLast
  <2> QED
    BY <1>1, <2>1 DEF AsksInOrder, Full
<1>3. p \in z.have => Full(z.best) > p
  <2>1. p \in z.have => Height(p) <= Height(z.best) /\ Height(p) = p
    BY <1>0, TreeFacts DEF Height
  <2> QED
    BY <1>1, <2>1
<1>4. CASE z.last = <<z.best, s>>
  <2>1. y.last = z.last /\ y.up = z.up /\ z.last[1] = z.best /\ z.last[2] = s
    BY <1>4 DEF Pushed
  <2>2. AsksInOrder(y, p) /\ (AskAbove(z, p) => AskAbove(y, p))
    BY <1>0, <2>1, AsksKept DEF UpKept
  <2>3. ASSUME p \in z.have PROVE AskAbove(y, p)
    <3>1. Asking(z)
      BY <1>1, <1>3, <2>1, <2>3 DEF AsksInOrder
    <3>2. PICK i \in 1..Len(z.up) : Asks(z.up[i])
      BY <3>1 DEF Asking
    <3>3. PICK j \in i..Len(z.up) : z.up[j] = GetBlocks(z.best, s)
      BY <2>1, <3>2 DEF Sound, LastIsLast
    <3>4. j \in 1..Len(y.up) /\ y.up[j].from = z.best /\ Asks(y.up[j])
      BY <1>0, <2>1, <3>3, MessageFacts DEF Asks
    <3> QED
      BY <1>3, <2>3, <3>4 DEF AskAbove
  <2> QED
    BY <2>2, <2>3
<1>5. CASE z.last # <<z.best, s>>
  <2>1. y.last = <<z.best, s>> /\ Added(z.up, y.up, GetBlocks(z.best, s))
    BY <1>5 DEF Pushed
  <2>2. y.last[1] = z.best
    BY <2>1
  <2>3. /\ Len(y.up) = Len(z.up) + 1 /\ y.up[Len(z.up) + 1] = GetBlocks(z.best, s)
        /\ \A i \in 1..Len(z.up) : i \in 1..Len(y.up) /\ y.up[i] = z.up[i]
    BY <1>0, <2>1 DEF Added
  <2>4. /\ Asks(GetBlocks(z.best, s)) /\ GetBlocks(z.best, s).from = z.best
        /\ GetBlocks(z.best, s).stop = s
    BY MessageFacts DEF Asks
  <2>5. ASSUME NEW i \in 1..Len(y.up), Asks(y.up[i])
        PROVE  /\ Full(y.up[i].from) >= p
               /\ y.up[i].stop = None \/ SeenFrom(y, y.up[i].stop)
               /\ \A j \in i..Len(y.up) : Asks(y.up[j]) => Height(y.up[i].from) <= Height(y.up[j].from)
    <3>1. CASE i \in 1..Len(z.up)
      <4>1. y.up[i] = z.up[i] /\ y.up[i].from \in z.have
        BY <2>3, <2>5, <3>1 DEF Sound, LastIsLast, IsAsk
      <4>2. Height(y.up[i].from) <= Height(z.best)
        BY <1>0, <4>1, TreeFacts
      <4>3. y.up[i].stop = None \/ SeenFrom(y, y.up[i].stop)
        BY <1>0, <2>5, <3>1, <4>1, GrowsFacts DEF AsksInOrder
      <4>4. ASSUME NEW j \in i..Len(y.up), Asks(y.up[j])
            PROVE  Height(y.up[i].from) <= Height(y.up[j].from)
        <5>1. CASE j \in 1..Len(z.up)
          <6>1. j \in i..Len(z.up) /\ y.up[j] = z.up[j]
            BY <1>0, <2>3, <5>1
          <6> QED
            BY <2>5, <3>1, <4>1, <4>4, <6>1 DEF AsksInOrder
        <5>2. CASE j \notin 1..Len(z.up)
          <6>1. j = Len(z.up) + 1
            BY <1>0, <2>3, <3>1, <5>2
          <6> QED
            BY <2>3, <2>4, <4>2, <6>1
        <5> QED
          BY <5>1, <5>2
      <4> QED
        BY <2>5, <3>1, <4>1, <4>3, <4>4 DEF AsksInOrder
    <3>2. CASE i \notin 1..Len(z.up)
      <4>1. i = Len(z.up) + 1
        BY <1>0, <2>3, <3>2
      <4>2. y.up[i].from = z.best /\ y.up[i].stop = s
        BY <2>3, <2>4, <4>1
      <4>3. \A j \in i..Len(y.up) : j = i
        BY <1>0, <2>3, <4>1
      <4>4. Height(y.up[i].from) <= Height(y.up[i].from)
        BY <1>1, <4>2
      <4> QED
        BY <1>2, <4>2, <4>3, <4>4
    <3> QED
      BY <3>1, <3>2
  <2>6. Len(z.up) + 1 \in 1..Len(y.up)
    BY <1>0, <2>3
  <2>7. Asking(y)
    BY <2>3, <2>4, <2>6 DEF Asking
  <2>8. AsksInOrder(y, p)
    BY <1>2, <2>2, <2>5, <2>7 DEF AsksInOrder
  <2>9. AskAbove(z, p) => AskAbove(y, p)
    BY <2>3 DEF AskAbove
  <2>10. p \in z.have => AskAbove(y, p)
    BY <1>3, <2>3, <2>4, <2>6 DEF AskAbove
  <2> QED
    BY <2>8, <2>9, <2>10
<1> QED
  BY <1>4, <1>5

(* The batch goes on. *)
LEMMA BatchKept ==
    ASSUME NEW z, NEW y, NEW p, BatchGoesOn(z, p), AskAbove(z, p) => AskAbove(y, p),
           y.continue = z.continue, p \in y.have <=> p \in z.have,
           p \in Coming(y) => p \in Coming(z),
           p \notin z.have /\ Follows(z, p) => Follows(y, p),
           p \in z.have /\ TopComes(z) => TopComes(y) \/ AskAbove(y, p)
    PROVE  BatchGoesOn(y, p)
  BY DEF BatchGoesOn
----------------------------------------------------------------------------
(* The steps of the client keep a connection regular. *)

(* A step that leaves the tree and the requests alone. *)
LEMMA KeptRegular ==
    ASSUME NEW z, NEW y, NEW p \in Nat, Sound(z), IsLink(y), Gap(y), Regular(z, p),
           SameTree(z, y), SameServer(z, y), y.last = z.last, y.up = z.up,
           Named(y) \subseteq Named(z), Coming(y) \subseteq Coming(z),
           Wanted(z) \subseteq Wanted(y),
           Announced(z) \subseteq Announced(y) \cup z.have \cup (Wanted(y) \ Held(y)),
           Coming(z) \subseteq Coming(y) \cup Held(y),
           p \notin z.have /\ Follows(z, p) => Follows(y, p),
           ComeInOrder(y, p)
    PROVE  Regular(y, p)
<1>0. IsLink(z)
  BY DEF Sound
<1>1. Held(y) = Held(z) /\ Requested(y) = Requested(z) /\ y.have = z.have /\ y.orphans = z.orphans
      /\ y.known = z.known /\ y.continue = z.continue
  BY DEF SameTree, Held, Requested, SameServer
<1>2. Grows(z, y)
  BY <1>0, <1>1, SeenFacts
<1>3. OnlyTops(y, p)
  BY <1>0, <1>1, <1>2, OnlyTopsKept DEF Regular
<1>4. AsksInOrder(y, p) /\ (AskAbove(z, p) => AskAbove(y, p))
  BY <1>0, <1>2, AsksKept DEF Regular, UpKept
<1>5. TopComes(z) => TopComes(y)
  <2>1. Gap(z) /\ \A t : Top(z, t) => Top(y, t)
    BY <1>0, <1>2, GrowsFacts
  <2>2. \A t \in z.have : ~Top(z, t)
    BY <1>0, <2>1, NoGapHave
  <2> QED
    BY <1>1, <2>1, <2>2 DEF TopComes
<1>6. BatchGoesOn(y, p)
  BY <1>1, <1>4, <1>5, BatchKept DEF Regular
<1> QED
  BY <1>3, <1>4, <1>6 DEF Regular

(* The sets that the lists are ordered by. *)
LEMMA NamedFacts ==
    ASSUME NEW z, NEW y, SameTree(z, y), SameServer(z, y)
    PROVE  Held(y) = Held(z) /\ Seen(y) = Seen(z)
  BY DEF SameTree, SameServer, Held, Seen

(* An inventory that is in the tree. *)
LEMMA HeldInvRegular ==
    ASSUME NEW z, NEW y, NEW b \in Nat, NEW p \in Nat, Sound(z), IsLink(y), HeldInv(z, y, b),
           Gap(y), Regular(z, p)
    PROVE  Regular(y, p)
<1>1. IsLink(z) /\ Shortened(z.down, y.down, "inv", b)
  BY DEF Sound, HeldInv
<1>2. /\ SameTree(z, y) /\ SameServer(z, y) /\ y.last = z.last /\ y.up = z.up
      /\ b \in z.have /\ y.have = z.have /\ y.ready = z.ready /\ y.asked = z.asked
      /\ Held(y) = Held(z) /\ Seen(y) = Seen(z) /\ Wanted(y) = Wanted(z)
      /\ Requested(y) = Requested(z)
  BY NamedFacts DEF HeldInv, SameTree, SameQueue, Wanted, Requested
<1>3. Announced(z) = Announced(y) \cup {b} /\ Coming(y) = Coming(z)
  BY <1>1, DownFacts
<1>4. Grows(z, y)
  BY <1>1, <1>2, SeenFacts
<1>5. Follows(z, p) => Follows(y, p)
  BY <1>1, <1>4, FollowsFacts
<1>6. ComeInOrder(y, p)
  <2>1. Len(z.down) \in Nat /\ Len(y.down) \in Nat
    BY <1>1, LinkLens
  <2>2. BlocksInOrder(y.down, y.have, p)
    <3>1. Below(z.have, y.have, p)
      BY <1>2 DEF Below
    <3>2. BlocksInOrder(z.down, z.have, p)
      BY DEF Regular, ComeInOrder
    <3> QED
      BY <1>1, <2>1, <3>1, <3>2, BlocksKept
  <2>3. ListsInOrder(y.down, "inv",
                     y.have \cup Coming(y) \cup Requested(y) \cup Elements(y.ready), p)
    <3> DEFINE H == z.have \cup Coming(z) \cup Requested(z) \cup Elements(z.ready)
    <3>1. ListsInOrder(z.down, "inv", H, p) /\ b \in H
      BY <1>2 DEF Regular, ComeInOrder
    <3>2. y.have \cup Coming(y) \cup Requested(y) \cup Elements(y.ready) = H
      BY <1>2, <1>3
    <3> HIDE DEF H
    <3>3. Below(H, H, p)
      BY DEF Below
    <3>4. ListsInOrder(y.down, "inv", H, p)
      BY <1>1, <2>1, <3>1, <3>3, ListsShortened
    <3> QED
      BY <3>2, <3>4
  <2> QED
    BY <1>2, <1>3, <2>2, <2>3 DEF Regular, ComeInOrder
<1>7. Named(y) \subseteq Named(z)
  BY <1>2, <1>3 DEF Named
<1> QED
  BY <1>2, <1>3, <1>5, <1>6, <1>7, KeptRegular

(* The end of an inv message. *)
LEMMA EmptyInvRegular ==
    ASSUME NEW z, NEW y, NEW p \in Nat, Sound(z), IsLink(y), EmptyInv(z, y), Gap(y), Regular(z, p)
    PROVE  Regular(y, p)
<1>1. IsLink(z) /\ Dropped(z.down, y.down) /\ z.down[1].cmd = "inv" /\ z.down[1].invs = << >>
  BY DEF Sound, EmptyInv
<1>2. /\ SameTree(z, y) /\ SameServer(z, y) /\ y.last = z.last /\ y.up = z.up
      /\ y.have = z.have /\ y.ready = z.ready /\ y.asked = z.asked
      /\ Held(y) = Held(z) /\ Seen(y) = Seen(z) /\ Wanted(y) = Wanted(z)
      /\ Requested(y) = Requested(z)
  BY NamedFacts DEF EmptyInv, SameTree, SameQueue, Wanted, Requested
<1>3. Announced(z) = Announced(y) /\ Coming(y) = Coming(z)
  BY <1>1, DownFacts
<1>4. Grows(z, y)
  BY <1>1, <1>2, SeenFacts
<1>5. Follows(z, p) => Follows(y, p)
  BY <1>1, <1>4, FollowsFacts, MessageFacts
<1>6. ComeInOrder(y, p)
  <2>1. Len(z.down) \in Nat /\ Len(y.down) \in Nat
    BY <1>1, LinkLens
  <2>2. BlocksInOrder(y.down, y.have, p)
    <3>1. Below(z.have, y.have, p)
      BY <1>2 DEF Below
    <3>2. BlocksInOrder(z.down, z.have, p)
      BY DEF Regular, ComeInOrder
    <3>3. \A b \in Nat : z.down[1] # BlockMsg(b)
      BY <1>1, MessageFacts
    <3> QED
      BY <1>1, <2>1, <3>1, <3>2, <3>3, BlocksKept
  <2>3. ListsInOrder(y.down, "inv",
                     y.have \cup Coming(y) \cup Requested(y) \cup Elements(y.ready), p)
    <3> DEFINE H == z.have \cup Coming(z) \cup Requested(z) \cup Elements(z.ready)
    <3>1. ListsInOrder(z.down, "inv", H, p)
      BY DEF Regular, ComeInOrder
    <3>2. y.have \cup Coming(y) \cup Requested(y) \cup Elements(y.ready) = H
      BY <1>2, <1>3
    <3> HIDE DEF H
    <3>3. Below(H, H, p)
      BY DEF Below
    <3>4. \A x \in Nat : ~Lists(z.down[1], "inv", x)
      BY <1>1 DEF Lists, Elements
    <3>5. ListsInOrder(y.down, "inv", H, p)
      BY <1>1, <2>1, <3>1, <3>3, <3>4, ListsDropped
    <3> QED
      BY <3>2, <3>5
  <2> QED
    BY <1>2, <1>3, <2>2, <2>3 DEF Regular, ComeInOrder
<1>7. Named(y) \subseteq Named(z)
  BY <1>2, <1>3 DEF Named
<1> QED
  BY <1>2, <1>3, <1>5, <1>6, <1>7, KeptRegular

(* A block is taken from down. *)
LEMMA TakenInOrder ==
    ASSUME NEW z, NEW y, NEW b \in Nat, NEW p \in Nat, IsLink(z), IsLink(y), ComeInOrder(z, p),
           Dropped(z.down, y.down), z.down[1] = BlockMsg(b),
           z.have \subseteq y.have, b \in y.have \/ b >= p,
           y.ready = z.ready, Requested(y) = Requested(z),
           y.up = z.up \/ \E m : Added(z.up, y.up, m) /\ m.cmd # "getdata",
           \A x \in 1..p : x \in y.asked => x \in z.asked /\ x # b
    PROVE  ComeInOrder(y, p)
<1>0. /\ Len(z.down) \in Nat /\ Len(y.down) \in Nat /\ z.ready \in Seq(Nat)
      /\ Len(z.up) \in Nat /\ Len(y.up) \in Nat
  BY LinkLens DEF IsLink
<1>1. Announced(z) = Announced(y) /\ Coming(z) = Coming(y) \cup {b}
  BY DownFacts
<1>2. BlocksInOrder(y.down, y.have, p)
  <2>1. Below(z.have, y.have, p)
    BY DEF Below
  <2>2. BlocksInOrder(z.down, z.have, p)
    BY DEF ComeInOrder
  <2>3. ASSUME NEW c \in Nat, z.down[1] = BlockMsg(c) PROVE c \in y.have \/ c >= p
    <3>1. BlockMsg(c).block = c /\ BlockMsg(b).block = b
      BY MessageFacts
    <3>2. c = b
      BY <2>3, <3>1
    <3> QED
      BY <3>2
  <2> QED
    BY <1>0, <2>1, <2>2, <2>3, BlocksKept
<1>3. Below(z.have \cup Coming(z), y.have \cup Coming(y), p)
  BY <1>1 DEF Below
<1>4. Below(z.have \cup Coming(z) \cup Requested(z), y.have \cup Coming(y) \cup Requested(y), p)
  BY <1>1 DEF Below
<1>5. ListsInOrder(y.up, "getdata", y.have \cup Coming(y), p)
  <2> DEFINE H == z.have \cup Coming(z)
             G == y.have \cup Coming(y)
  <2>1. ListsInOrder(z.up, "getdata", H, p)
    BY DEF ComeInOrder
  <2>2. Below(H, G, p)
    BY <1>3
  <2> HIDE DEF H, G
  <2>3. ListsInOrder(y.up, "getdata", G, p)
    <3>1. CASE y.up = z.up
      BY <2>1, <2>2, <3>1, ListsKept
    <3>2. ASSUME NEW m, Added(z.up, y.up, m), m.cmd # "getdata"
          PROVE  ListsInOrder(y.up, "getdata", G, p)
      BY <1>0, <2>1, <2>2, <3>2, ListsAdded
    <3> QED
      BY <3>1, <3>2
  <2> QED
    BY <2>3 DEF G
<1>6. QueueInOrder(y.ready, y.have \cup Coming(y) \cup Requested(y), p)
  <2> DEFINE H == z.have \cup Coming(z) \cup Requested(z)
             G == y.have \cup Coming(y) \cup Requested(y)
  <2>1. QueueInOrder(z.ready, H, p)
    BY DEF ComeInOrder
  <2>2. Below(H, G, p)
    BY <1>4
  <2> HIDE DEF H, G
  <2>3. QueueInOrder(y.ready, G, p)
    BY <1>0, <2>1, <2>2, QueueKept
  <2> QED
    BY <2>3 DEF G
<1>7. ListsInOrder(y.down, "inv", y.have \cup Coming(y) \cup Requested(y) \cup Elements(y.ready), p)
  <2> DEFINE H == z.have \cup Coming(z) \cup Requested(z) \cup Elements(z.ready)
             G == y.have \cup Coming(y) \cup Requested(y) \cup Elements(y.ready)
  <2>1. ListsInOrder(z.down, "inv", H, p)
    BY DEF ComeInOrder
  <2>2. Below(H, G, p)
    BY <1>4 DEF Below
  <2> HIDE DEF H, G
  <2>3. \A x \in Nat : ~Lists(z.down[1], "inv", x)
    BY MessageFacts DEF Lists
  <2>4. ListsInOrder(y.down, "inv", G, p)
    BY <1>0, <2>1, <2>2, <2>3, ListsDropped
  <2> QED
    BY <2>4 DEF G
<1>8. \A x \in 1..p : x \in y.asked => x \in Elements(y.ready) \cup Requested(y) \cup Coming(y)
  BY <1>1 DEF ComeInOrder
<1> QED
  BY <1>2, <1>5, <1>6, <1>7, <1>8 DEF ComeInOrder

(* A block that is held. *)
LEMMA HeldBlockRegular ==
    ASSUME NEW z, NEW y, NEW b \in Nat, NEW p \in Nat, Sound(z), IsLink(y), HeldBlock(z, y, b),
           Gap(y), Regular(z, p)
    PROVE  Regular(y, p)
<1>1. IsLink(z) /\ Dropped(z.down, y.down) /\ z.down[1] = BlockMsg(b)
  BY DEF Sound, HeldBlock
<1>2. /\ SameTree(z, y) /\ SameServer(z, y) /\ y.last = z.last /\ y.up = z.up
      /\ b \in Held(z) /\ y.have = z.have /\ y.ready = z.ready /\ y.asked = z.asked
      /\ Held(y) = Held(z) /\ Seen(y) = Seen(z) /\ Wanted(y) = Wanted(z)
      /\ Requested(y) = Requested(z)
  BY NamedFacts DEF HeldBlock, SameTree, SameQueue, Wanted, Requested
<1>3. Announced(z) = Announced(y) /\ Coming(z) = Coming(y) \cup {b}
  BY <1>1, DownFacts
<1>4. Grows(z, y) /\ Gap(z)
  BY <1>1, <1>2, SeenFacts, GrowsFacts
<1>5. b \in z.have \/ b > p
  BY <1>1, <1>2, <1>4, AboveFacts DEF Held, Regular
<1>6. p \notin z.have /\ Follows(z, p) => Follows(y, p)
  <2> SUFFICES ASSUME p \notin z.have, Follows(z, p) PROVE Follows(y, p)
    OBVIOUS
  <2>1. z.down[1] # BlockMsg(p)
    BY <1>1, <1>5, MessageFacts
  <2> QED
    BY <1>1, <1>4, <2>1, FollowsFacts
<1>7. ComeInOrder(y, p)
  <2>1. b \notin y.asked
    BY <1>2 DEF Sound, AskedNotHeld
  <2> QED
    BY <1>1, <1>2, <1>5, <2>1, TakenInOrder DEF Regular
<1>8. Named(y) \subseteq Named(z)
  BY <1>2, <1>3 DEF Named
<1> QED
  BY <1>2, <1>3, <1>6, <1>7, <1>8, KeptRegular
(* PushGetBlocks() requests no block. *)
LEMMA PushedFacts ==
    ASSUME NEW z, NEW y, IsLink(z), IsLink(y), NEW f \in Int, NEW s \in Nat, Pushed(z, y, f, s)
    PROVE  /\ Requested(y) = Requested(z)
           /\ y.up = z.up \/ \E m : Added(z.up, y.up, m) /\ m.cmd # "getdata"
<1>1. CASE z.last = <<f, s>>
  BY <1>1 DEF Pushed, Requested
<1>2. CASE z.last # <<f, s>>
  <2>1. Added(z.up, y.up, GetBlocks(f, s))
    BY <1>2 DEF Pushed
  <2>2. GetBlocks(f, s).cmd # "getdata"
    BY MessageFacts
  <2>3. Requested(y) = Requested(z)
    BY <2>1, UpFacts
  <2> QED
    BY <2>1, <2>2, <2>3
<1> QED
  BY <1>1, <1>2

(* The first of the orphans that lead to one of them ends the gap too. *)
LEMMA RootTop ==
    ASSUME NEW y, IsLink(y), NEW b \in y.orphans, \A x \in y.orphans : Top(y, x)
    PROVE  SeenFrom(y, OrphanRoot(y.orphans, b))
<1> DEFINE s == OrphanRoot(y.orphans, b)
<1>1. s \in Nat /\ s <= b /\ (\A x \in s..b : x \in y.orphans) /\ b \in Nat
  BY RootFacts, TreeFacts DEF IsLink
<1> HIDE DEF s
<1>2. s \in y.orphans /\ y.tip \in Nat
  BY <1>1 DEF IsLink
<1>3. Top(y, s) /\ s \in Seen(y)
  BY <1>2 DEF Seen, Held
<1>4. ASSUME NEW x \in 1..y.tip, s <= x PROVE x \in Seen(y)
  <2>1. CASE x = s
    BY <1>3, <2>1
  <2>2. CASE x # s
    <3>1. s + 1 <= x
      BY <1>1, <1>4, <2>2
    <3> QED
      BY <1>3, <3>1 DEF Top, SeenFrom
  <2> QED
    BY <2>1, <2>2
<1>5. SeenFrom(y, s)
  BY <1>4 DEF SeenFrom
<1> QED
  BY <1>5 DEF s

(* An orphan that is announced again. *)
LEMMA OrphanInvRegular ==
    ASSUME NEW z, NEW y, NEW b \in Nat, NEW p \in Nat, Sound(z), IsLink(y), OrphanInv(z, y, b),
           Gap(y), Regular(z, p)
    PROVE  Regular(y, p)
<1> DEFINE s == OrphanRoot(z.orphans, b)
<1>0. /\ IsLink(z) /\ Shortened(z.down, y.down, "inv", b) /\ Pushed(z, y, z.best, s)
      /\ SameServer(z, y) /\ SameTree(z, y) /\ SameQueue(z, y) /\ b \in z.orphans
  BY DEF Sound, OrphanInv
<1>1. /\ y.best = z.best /\ y.have = z.have /\ y.orphans = z.orphans /\ y.asked = z.asked
      /\ Held(y) = Held(z) /\ Seen(y) = Seen(z) /\ Wanted(y) = Wanted(z) /\ y.ready = z.ready
      /\ y.known = z.known /\ y.continue = z.continue
  BY <1>0, NamedFacts DEF OrphanInv, SameTree, SameQueue, SameServer, Wanted
<1>2. Announced(z) = Announced(y) \cup {b} /\ Coming(y) = Coming(z)
  BY <1>0, DownFacts
<1>3. Grows(z, y) /\ Gap(z)
  BY <1>0, <1>1, SeenFacts, GrowsFacts
<1>4. s \in Nat /\ s # None
  BY <1>0, RootFacts DEF IsLink
<1>5. b > p
  BY <1>0, <1>3, AboveFacts DEF Regular
<1>6. SeenFrom(y, s)
  <2>1. \A x \in y.orphans : Top(y, x)
    BY <1>0, <1>1, <1>3, GrowsFacts DEF Regular, OnlyTops
  <2>2. SeenFrom(y, OrphanRoot(y.orphans, b))
    BY <1>0, <1>1, <2>1, RootTop
  <2> QED
    BY <1>1, <2>2
<1> HIDE DEF s
<1>7. /\ Requested(y) = Requested(z)
      /\ y.up = z.up \/ \E m : Added(z.up, y.up, m) /\ m.cmd # "getdata"
  BY <1>0, <1>4, PushedFacts, TreeFacts
<1>8. OnlyTops(y, p)
  <2>1. Named(y) \subseteq Named(z)
    BY <1>1, <1>2, <1>7 DEF Named
  <2> QED
    BY <1>0, <1>1, <1>3, <2>1, OnlyTopsKept DEF Regular
<1>9. /\ AsksInOrder(y, p) /\ (AskAbove(z, p) => AskAbove(y, p))
      /\ p \in z.have => AskAbove(y, p)
  BY <1>0, <1>3, <1>4, <1>6, AsksPushed DEF Regular
<1>10. BatchGoesOn(y, p)
  <2>1. Follows(z, p) => Follows(y, p)
    BY <1>0, <1>3, FollowsFacts
  <2> QED
    BY <1>1, <1>2, <1>9, <2>1, BatchKept DEF Regular
<1>11. ComeInOrder(y, p)
  <2>1. /\ Len(z.down) \in Nat /\ Len(y.down) \in Nat
        /\ Len(z.up) \in Nat /\ Len(y.up) \in Nat
    BY <1>0, LinkLens
  <2>2. BlocksInOrder(y.down, y.have, p)
    <3>1. Below(z.have, y.have, p)
      BY <1>1 DEF Below
    <3>2. BlocksInOrder(z.down, z.have, p)
      BY DEF Regular, ComeInOrder
    <3> QED
      BY <1>0, <2>1, <3>1, <3>2, BlocksKept
  <2>3. ListsInOrder(y.up, "getdata", y.have \cup Coming(y), p)
    <3> DEFINE H == z.have \cup Coming(z)
    <3>1. ListsInOrder(z.up, "getdata", H, p)
      BY DEF Regular, ComeInOrder
    <3>2. y.have \cup Coming(y) = H
      BY <1>1, <1>2
    <3> HIDE DEF H
    <3>3. Below(H, H, p)
      BY DEF Below
    <3>4. CASE y.up = z.up
      BY <3>1, <3>2, <3>4
    <3>5. ASSUME NEW m, Added(z.up, y.up, m), m.cmd # "getdata"
          PROVE  ListsInOrder(y.up, "getdata", H, p)
      BY <2>1, <3>1, <3>3, <3>5, ListsAdded
    <3> QED
      BY <1>7, <3>2, <3>4, <3>5
  <2>4. ListsInOrder(y.down, "inv",
                     y.have \cup Coming(y) \cup Requested(y) \cup Elements(y.ready), p)
    <3> DEFINE H == z.have \cup Coming(z) \cup Requested(z) \cup Elements(z.ready)
    <3>1. ListsInOrder(z.down, "inv", H, p)
      BY DEF Regular, ComeInOrder
    <3>2. y.have \cup Coming(y) \cup Requested(y) \cup Elements(y.ready) = H
      BY <1>1, <1>2, <1>7
    <3> HIDE DEF H
    <3>3. Below(H, H, p)
      BY DEF Below
    <3>4. b >= p
      BY <1>5
    <3>5. ListsInOrder(y.down, "inv", H, p)
      BY <1>0, <2>1, <3>1, <3>3, <3>4, ListsShortened
    <3> QED
      BY <3>2, <3>5
  <2> QED
    BY <1>1, <1>2, <1>7, <2>2, <2>3, <2>4 DEF Regular, ComeInOrder
<1> QED
  BY <1>8, <1>9, <1>10, <1>11 DEF Regular
(* Append as concatenation. *)
LEMMA AppendConcat ==
    ASSUME NEW q \in Seq(Nat), NEW b \in Nat
    PROVE  Append(q, b) = q \o <<b>>
  OBVIOUS

(* An inventory that is queued. *)
LEMMA NewInvRegular ==
    ASSUME NEW z, NEW y, NEW b \in Nat, NEW p \in Nat, Sound(z), IsLink(y), NewInv(z, y, b),
           Gap(y), Regular(z, p)
    PROVE  Regular(y, p)
<1>1. /\ IsLink(z) /\ Shortened(z.down, y.down, "inv", b) /\ z.ready \in Seq(Nat)
      /\ z.later \in Seq(Nat)
  BY DEF Sound, NewInv, IsLink
<1>2. /\ SameTree(z, y) /\ SameServer(z, y) /\ y.last = z.last /\ y.up = z.up
      /\ b \notin Held(y) /\ Held(y) = Held(z) /\ Seen(y) = Seen(z) /\ y.have = z.have
      /\ y.asked = z.asked \cup {b} /\ Requested(y) = Requested(z)
  BY NamedFacts DEF NewInv, SameTree, Requested
<1>3. /\ Elements(Append(z.ready, b)) = Elements(z.ready) \cup {b}
      /\ Elements(Append(z.later, b)) = Elements(z.later) \cup {b}
  BY <1>1, AppendElements
<1>4. \/ y.ready = Append(z.ready, b) /\ Elements(y.ready) = Elements(z.ready) \cup {b}
      \/ y.ready = z.ready /\ b \in z.asked
  BY <1>3 DEF NewInv
<1>5. Wanted(y) = Wanted(z) \cup {b}
  BY <1>3 DEF NewInv, Wanted
<1>6. Announced(z) = Announced(y) \cup {b} /\ Coming(y) = Coming(z)
  BY <1>1, DownFacts
<1>7. Grows(z, y)
  BY <1>1, <1>2, SeenFacts
<1>8. Follows(z, p) => Follows(y, p)
  BY <1>1, <1>7, FollowsFacts
<1>9. ComeInOrder(y, p)
  <2>1. /\ Len(z.down) \in Nat /\ Len(y.down) \in Nat /\ Len(z.down) >= 1
    BY <1>1, LinkLens DEF Shortened
  <2>2. BlocksInOrder(y.down, y.have, p)
    <3>1. Below(z.have, y.have, p)
      BY <1>2 DEF Below
    <3>2. BlocksInOrder(z.down, z.have, p)
      BY DEF Regular, ComeInOrder
    <3> QED
      BY <1>1, <2>1, <3>1, <3>2, BlocksKept
  <2>3. b <= p /\ b # 0 => b - 1 \in z.have \cup Coming(z) \cup Requested(z) \cup Elements(z.ready)
    <3> SUFFICES ASSUME b <= p, b # 0
                 PROVE  b - 1 \in z.have \cup Coming(z) \cup Requested(z) \cup Elements(z.ready)
      OBVIOUS
    <3> DEFINE H == z.have \cup Coming(z) \cup Requested(z) \cup Elements(z.ready)
    <3>1. ListsInOrder(z.down, "inv", H, p)
      BY DEF Regular, ComeInOrder
    <3> HIDE DEF H
    <3>2. 1 \in 1..Len(z.down) /\ z.down[1].cmd = "inv" /\ z.down[1].invs[1] = b
          /\ 1 \in 1..Len(z.down[1].invs)
      <4>1. z.down[1].invs \in Seq(Nat) /\ Len(z.down[1].invs) = Len(y.down[1].invs) + 1
            /\ y.down[1].invs \in Seq(Nat) /\ z.down[1].cmd = "inv" /\ z.down[1].invs[1] = b
        BY <1>1 DEF Shortened
      <4>2. Len(y.down[1].invs) \in Nat
        BY <4>1
      <4> QED
        BY <2>1, <4>1, <4>2
    <3>3. b \in 1..p
      OBVIOUS
    <3>4. \/ b - 1 \in H
          \/ \E i \in 1..(1 - 1) : Lists(z.down[i], "inv", b - 1)
          \/ \E i \in 1..(1 - 1) : z.down[1].invs[i] = b - 1
      BY <3>1, <3>2, <3>3 DEF ListsInOrder
    <3>5. 1..(1 - 1) = {}
      OBVIOUS
    <3>6. b - 1 \in H
      BY <3>4, <3>5
    <3> QED
      BY <3>6 DEF H
  <2>4. QueueInOrder(y.ready, y.have \cup Coming(y) \cup Requested(y), p)
    <3> DEFINE H == z.have \cup Coming(z) \cup Requested(z)
    <3>1. QueueInOrder(z.ready, H, p)
      BY DEF Regular, ComeInOrder
    <3>2. y.have \cup Coming(y) \cup Requested(y) = H
      BY <1>2, <1>6
    <3>3. b <= p /\ b # 0 => b - 1 \in H \cup Elements(z.ready)
      BY <2>3
    <3> HIDE DEF H
    <3>4. Below(H, H, p)
      BY DEF Below
    <3>5. CASE y.ready = z.ready
      BY <3>1, <3>2, <3>5
    <3>6. CASE y.ready = Append(z.ready, b)
      <4> DEFINE r == <<b>>
      <4>1. r \in Seq(Nat) /\ Len(r) = 1 /\ r[1] = b
        OBVIOUS
      <4>0. y.ready = z.ready \o r
        BY <1>1, <3>6, AppendConcat
      <4> HIDE DEF r
      <4>2. ASSUME NEW k \in 1..Len(r), r[k] \in 1..p PROVE r[k] - 1 \in H \cup Elements(z.ready)
        <5>1. k = 1
          BY <4>1
        <5> QED
          BY <3>3, <4>1, <4>2, <5>1
      <4>3. QueueInOrder(z.ready \o r, H, p)
        BY <1>1, <3>1, <3>4, <4>1, <4>2, QueueKept
      <4> QED
        BY <3>2, <4>0, <4>3
    <3> QED
      BY <1>4, <3>5, <3>6
  <2>5. \A x \in 1..p : x \in y.asked => x \in Elements(y.ready) \cup Requested(y) \cup Coming(y)
    BY <1>2, <1>4, <1>6 DEF Regular, ComeInOrder
  <2>6. ListsInOrder(y.down, "inv",
                     y.have \cup Coming(y) \cup Requested(y) \cup Elements(y.ready), p)
    <3> DEFINE H == z.have \cup Coming(z) \cup Requested(z) \cup Elements(z.ready)
               G == y.have \cup Coming(y) \cup Requested(y) \cup Elements(y.ready)
    <3>1. ListsInOrder(z.down, "inv", H, p)
      BY DEF Regular, ComeInOrder
    <3>2. Below(H, G, p)
      BY <1>2, <1>4, <1>6 DEF Below
    <3>3. b \in G \/ b >= p
      <4>1. CASE b \in 1..p
        BY <1>2, <2>5, <4>1
      <4>2. CASE b \notin 1..p /\ b # 0
        BY <4>2
      <4>3. CASE b = 0
        <5>1. 0 \in z.have
          BY <1>1 DEF IsLink, IsTree, Connected
        <5> QED
          BY <1>2, <4>3, <5>1 DEF Held
      <4> QED
        BY <4>1, <4>2, <4>3
    <3> HIDE DEF H, G
    <3>4. ListsInOrder(y.down, "inv", G, p)
      BY <1>1, <2>1, <3>1, <3>2, <3>3, ListsShortened
    <3> QED
      BY <3>4 DEF G
  <2>7. ListsInOrder(y.up, "getdata", y.have \cup Coming(y), p)
    BY <1>2, <1>6 DEF Regular, ComeInOrder
  <2> QED
    BY <2>2, <2>4, <2>5, <2>6, <2>7 DEF ComeInOrder
<1>10. Named(y) \subseteq Named(z)
  BY <1>2, <1>5, <1>6 DEF Named
<1> QED
  BY <1>2, <1>5, <1>6, <1>8, <1>9, <1>10, KeptRegular

(* The first block that comes is next to the tree or past p. *)
LEMMA FirstInOrder ==
    ASSUME NEW z, IsLink(z), NEW p \in Nat, BlocksInOrder(z.down, z.have, p),
           Len(z.down) >= 1, NEW b \in 1..p, z.down[1] = BlockMsg(b)
    PROVE  b - 1 \in z.have
<1>1. 1 \in 1..Len(z.down)
  BY LinkLens
<1>2. b - 1 \in z.have \/ \E i \in 1..(1 - 1) : z.down[i] = BlockMsg(b - 1)
  BY <1>1 DEF BlocksInOrder
<1>3. 1..(1 - 1) = {}
  OBVIOUS
<1> QED
  BY <1>2, <1>3

(* A block that becomes an orphan. *)
LEMMA OrphanBlockRegular ==
    ASSUME NEW z, NEW y, NEW b \in Nat, NEW p \in Nat, Sound(z), IsLink(y), OrphanBlock(z, y, b),
           Gap(y), Regular(z, p)
    PROVE  Regular(y, p)
<1> DEFINE s == OrphanRoot(y.orphans, b)
<1>0. /\ IsLink(z) /\ Dropped(z.down, y.down) /\ z.down[1] = BlockMsg(b)
      /\ Pushed(z, y, z.best, s) /\ SameServer(z, y)
  BY DEF Sound, OrphanBlock
<1>1. /\ y.best = z.best /\ y.have = z.have /\ y.orphans = z.orphans \cup {b}
      /\ y.asked = z.asked \ {b} /\ b \notin Held(z) /\ y.ready = z.ready
      /\ Held(y) = Held(z) \cup {b} /\ Wanted(y) = Wanted(z)
      /\ y.known = z.known /\ y.continue = z.continue
  BY <1>0 DEF OrphanBlock, SameQueue, SameServer, Held, Wanted
<1>2. Announced(z) = Announced(y) /\ Coming(z) = Coming(y) \cup {b}
  BY <1>0, DownFacts
<1>3. Grows(z, y) /\ Seen(y) = Seen(z) \cup {b} /\ Gap(z)
  BY <1>0, <1>1, SeenFacts, GrowsFacts DEF Seen
<1>4. s \in Nat /\ s # None
  BY <1>1, RootFacts DEF IsLink
<1>5. b > p
  <2> SUFFICES ASSUME b <= p PROVE FALSE
    OBVIOUS
  <2>1. Prev(b) \notin z.have /\ b \in Positive
    BY <1>1 DEF IsLink, IsTree, Connected
  <2>2. b \in 1..p /\ Prev(b) = b - 1
    BY <2>1 DEF Prev, Positive
  <2>3. BlocksInOrder(z.down, z.have, p) /\ Len(z.down) >= 1
    BY <1>0 DEF Regular, ComeInOrder, Dropped
  <2> QED
    BY <1>0, <2>1, <2>2, <2>3, FirstInOrder
<1>6. Top(z, b)
  BY <1>2, <1>5 DEF Regular, OnlyTops, Named
<1>7. \A t : Top(z, t) => Top(y, t)
  BY <1>0, <1>3, GrowsFacts
<1>8. SeenFrom(y, s)
  <2>1. \A x \in y.orphans : Top(y, x)
    BY <1>1, <1>6, <1>7 DEF Regular, OnlyTops
  <2> QED
    BY <1>1, <2>1, RootTop
<1> HIDE DEF s
<1>9. /\ Requested(y) = Requested(z)
      /\ y.up = z.up \/ \E m : Added(z.up, y.up, m) /\ m.cmd # "getdata"
  BY <1>0, <1>4, PushedFacts, TreeFacts
<1>10. OnlyTops(y, p)
  <2>1. Named(y) \subseteq Named(z)
    BY <1>1, <1>2, <1>3, <1>9 DEF Named
  <2> QED
    BY <1>0, <1>1, <1>3, <1>6, <1>7, <2>1, OnlyTopsKept DEF Regular
<1>11. /\ AsksInOrder(y, p) /\ (AskAbove(z, p) => AskAbove(y, p))
       /\ p \in z.have => AskAbove(y, p)
  BY <1>0, <1>3, <1>4, <1>8, AsksPushed DEF Regular
<1>12. BatchGoesOn(y, p)
  <2>1. Follows(z, p) => Follows(y, p)
    <3>1. BlockMsg(b).block = b /\ BlockMsg(p).block = p
      BY MessageFacts
    <3>2. z.down[1] # BlockMsg(p)
      BY <1>0, <1>5, <3>1
    <3> QED
      BY <1>0, <1>3, <3>2, FollowsFacts
  <2> QED
    BY <1>1, <1>2, <1>11, <2>1, BatchKept DEF Regular
<1>13. ComeInOrder(y, p)
  <2>1. b >= p /\ z.have \subseteq y.have
    BY <1>1, <1>5
  <2>2. \A x \in 1..p : x \in y.asked => x \in z.asked /\ x # b
    BY <1>1
  <2> QED
    BY <1>0, <1>1, <1>9, <2>1, <2>2, TakenInOrder DEF Regular
<1> QED
  BY <1>10, <1>11, <1>12, <1>13 DEF Regular

(* A block that is connected, with its orphans. *)
LEMMA NextBlockRegular ==
    ASSUME NEW z, NEW y, NEW b \in Nat, NEW n \in Nat, NEW p \in Nat, Sound(z), IsLink(y),
           NextBlock(z, y, b, n), Gap(y), Regular(z, p)
    PROVE  Regular(y, p)
<1>0. IsLink(z) /\ Dropped(z.down, y.down) /\ z.down[1] = BlockMsg(b) /\ SameServer(z, y)
      /\ y.last = z.last /\ y.up = z.up
  BY DEF Sound, NextBlock
<1>1. /\ y.have = z.have \cup b..n /\ y.orphans = z.orphans \ b..n /\ n >= b
      /\ y.asked = z.asked \ {b} /\ b \notin Held(z) /\ y.ready = z.ready
      /\ (b + 1)..n \subseteq z.orphans
      /\ Wanted(y) = Wanted(z) /\ Requested(y) = Requested(z)
      /\ y.known = z.known /\ y.continue = z.continue
  BY <1>0 DEF NextBlock, SameQueue, SameServer, Wanted, Requested
<1>2. Held(y) = Held(z) \cup {b}
  <2>1. \A x \in b..n : x = b \/ x \in (b + 1)..n
    OBVIOUS
  <2>2. b..n \subseteq {b} \cup z.orphans /\ b \in b..n
    BY <1>1, <2>1
  <2> QED
    BY <1>1, <2>2 DEF Held
<1>3. Announced(z) = Announced(y) /\ Coming(z) = Coming(y) \cup {b}
  BY <1>0, DownFacts
<1>4. Grows(z, y) /\ Gap(z) /\ Seen(y) = Seen(z) \cup {b}
  BY <1>0, <1>2, SeenFacts, GrowsFacts DEF Seen
<1>5. \A t : Top(z, t) => Top(y, t)
  BY <1>0, <1>4, GrowsFacts
<1>6. \A x \in y.have : ~Top(z, x)
  BY <1>5, NoGapHave
<1>7. b <= p
  <2>1. b \in Named(z) /\ b \in y.have
    BY <1>1, <1>3 DEF Named
  <2> QED
    BY <1>6, <2>1 DEF Regular, OnlyTops
<1>8. n = b
  <2> SUFFICES ASSUME n # b PROVE FALSE
    OBVIOUS
  <2>1. n \in (b + 1)..n /\ n \in b..n
    BY <1>1
  <2>2. n \in z.orphans /\ n \in y.have
    BY <1>1, <2>1
  <2> QED
    BY <1>6, <2>2 DEF Regular, OnlyTops
<1>9. y.have = z.have \cup {b} /\ y.orphans \subseteq z.orphans
  BY <1>1, <1>8
<1>10. OnlyTops(y, p)
  <2>1. Named(y) \subseteq Named(z)
    BY <1>1, <1>2, <1>3, <1>4 DEF Named
  <2> QED
    BY <1>0, <1>1, <1>4, <1>9, <2>1, OnlyTopsKept DEF Regular
<1>11. AsksInOrder(y, p) /\ (AskAbove(z, p) => AskAbove(y, p))
  BY <1>0, <1>4, AsksKept DEF Regular, UpKept
<1>12. ComeInOrder(y, p)
  <2>1. b \in y.have /\ z.have \subseteq y.have
    BY <1>9
  <2>2. \A x \in 1..p : x \in y.asked => x \in z.asked /\ x # b
    BY <1>1
  <2> QED
    BY <1>0, <1>1, <2>1, <2>2, TakenInOrder DEF Regular
<1>13. BatchGoesOn(y, p)
  <2>1. CASE AskAbove(z, p)
    BY <1>11, <2>1 DEF BatchGoesOn
  <2>2. CASE p \notin z.have \cup Coming(z) /\ z.continue = p
    BY <1>1, <1>3, <1>9, <2>2 DEF BatchGoesOn
  <2>3. CASE p \notin z.have /\ Follows(z, p)
    <3>1. CASE b = p
      <4>1. \E t \in Announced(y) : Top(y, t)
        BY <1>0, <1>4, <2>3, <3>1, FollowsFacts
      <4> QED
        BY <1>9, <3>1, <4>1 DEF BatchGoesOn, TopComes
    <3>2. CASE b # p
      <4>1. BlockMsg(b).block = b /\ BlockMsg(p).block = p
        BY MessageFacts
      <4>2. z.down[1] # BlockMsg(p)
        BY <1>0, <3>2, <4>1
      <4>3. Follows(y, p)
        BY <1>0, <1>4, <2>3, <4>2, FollowsFacts
      <4> QED
        BY <1>9, <2>3, <3>2, <4>3 DEF BatchGoesOn
    <3> QED
      BY <3>1, <3>2
  <2>4. CASE p \in z.have /\ TopComes(z)
    <3>1. ~Top(z, b)
      BY <1>6, <1>9
    <3>2. TopComes(y)
      BY <1>1, <1>2, <1>3, <1>5, <2>4, <3>1 DEF TopComes
    <3> QED
      BY <1>9, <2>4, <3>2 DEF BatchGoesOn
  <2> QED
    BY <2>1, <2>2, <2>3, <2>4 DEF Regular, BatchGoesOn
<1> QED
  BY <1>10, <1>11, <1>12, <1>13 DEF Regular
(* What leads to a block that was asked for is held or is asked for too. *)
LEMMA BeforeFacts ==
    ASSUME NEW z, IsLink(z), NEW p \in Nat, ComeInOrder(z, p), NEW x \in 1..p,
           x \in Elements(z.ready) \cup Requested(z) \cup Coming(z)
    PROVE  x - 1 \in z.have \cup Coming(z) \cup Requested(z) \cup Elements(z.ready)
<1>0. /\ z.ready \in Seq(Nat) /\ Len(z.up) \in Nat /\ Len(z.down) \in Nat /\ x - 1 \in Nat
      /\ z.up \in Seq(Requests)
  BY SMTT(20), LinkLens DEF IsLink
<1>1. CASE x \in Elements(z.ready)
  <2>1. PICK k \in 1..Len(z.ready) : z.ready[k] = x
    BY <1>0, <1>1 DEF Elements
  <2>2. \/ z.ready[k] - 1 \in z.have \cup Coming(z) \cup Requested(z)
        \/ \E i \in 1..(k - 1) : z.ready[i] = z.ready[k] - 1
    BY <2>1 DEF ComeInOrder, QueueInOrder
  <2>3. ASSUME NEW i \in 1..(k - 1), z.ready[i] = x - 1 PROVE x - 1 \in Elements(z.ready)
    <3>1. i \in DOMAIN z.ready
      BY <1>0
    <3> QED
      BY <2>3, <3>1 DEF Elements
  <2> QED
    BY <2>1, <2>2, <2>3
<1>2. CASE x \in Requested(z)
  <2>1. PICK j \in 1..Len(z.up) : Lists(z.up[j], "getdata", x)
    BY <1>2 DEF Requested, Listed
  <2> DEFINE u == z.up[j].invs
  <2>2. z.up[j].cmd = "getdata" /\ x \in Elements(u) /\ u \in Seq(Nat)
    <3>1. z.up[j] \in Requests
      BY <1>0
    <3> QED
      BY <2>1, <3>1, MessageFacts DEF Lists
  <2> HIDE DEF u
  <2>3. PICK k \in 1..Len(u) : u[k] = x
    BY <2>2 DEF Elements
  <2>4. \/ x - 1 \in z.have \cup Coming(z)
        \/ \E i \in 1..(j - 1) : Lists(z.up[i], "getdata", x - 1)
        \/ \E i \in 1..(k - 1) : u[i] = x - 1
    BY <2>2, <2>3 DEF ComeInOrder, ListsInOrder, u
  <2>5. ASSUME NEW i \in 1..(j - 1), Lists(z.up[i], "getdata", x - 1) PROVE x - 1 \in Requested(z)
    <3>1. i \in 1..Len(z.up)
      BY <1>0
    <3> QED
      BY <1>0, <2>5, <3>1 DEF Requested, Listed
  <2>6. ASSUME NEW i \in 1..(k - 1), u[i] = x - 1 PROVE x - 1 \in Requested(z)
    <3>1. i \in DOMAIN u
      BY <2>2
    <3>2. x - 1 \in Elements(u)
      BY <2>6, <3>1 DEF Elements
    <3>3. Lists(z.up[j], "getdata", x - 1)
      BY <2>2, <3>2 DEF Lists, u
    <3> QED
      BY <1>0, <3>3 DEF Requested, Listed
  <2> QED
    BY <2>4, <2>5, <2>6
<1>3. CASE x \in Coming(z)
  <2>1. PICK j \in 1..Len(z.down) : z.down[j] = BlockMsg(x)
    BY <1>3 DEF Coming, Sent
  <2>2. x - 1 \in z.have \/ \E i \in 1..(j - 1) : z.down[i] = BlockMsg(x - 1)
    BY <2>1 DEF ComeInOrder, BlocksInOrder
  <2>3. ASSUME NEW i \in 1..(j - 1), z.down[i] = BlockMsg(x - 1) PROVE x - 1 \in Coming(z)
    <3>1. i \in 1..Len(z.down)
      BY <1>0
    <3> QED
      BY <1>0, <2>3, <3>1 DEF Coming, Sent
  <2> QED
    BY <2>2, <2>3
<1> QED
  BY <1>1, <1>2, <1>3

(* What was asked for up to p is asked for again or in the tree. *)
LEMMA RepliedRegular ==
    ASSUME NEW z, NEW y, NEW w, NEW p \in Nat, Sound(z), IsLink(y), Replied(z, y, w),
           Gap(y), Regular(z, p)
    PROVE  Regular(y, p)
<1>0. IsLink(z) /\ z.ready \in Seq(Nat) /\ Len(z.up) \in Nat /\ Len(y.up) \in Nat
  <2>1. IsLink(z)
    BY DEF Sound
  <2> QED
    BY <2>1, LinkLens DEF IsLink
<1>1. w \in Seq(Nat) /\ Elements(w) = Elements(z.ready) \cap z.asked
  BY <1>0, AmongElements DEF Replied
<1>a. IsAmong(w, z.ready, z.asked, Len(z.ready))
  BY <1>0, AmongFacts DEF Replied
<1>2. /\ SameServer(z, y) /\ y.best = z.best /\ y.have = z.have /\ y.orphans = z.orphans
      /\ y.asked = z.asked /\ y.last = z.last /\ y.down = z.down /\ Held(y) = Held(z)
      /\ Seen(y) = Seen(z) /\ y.known = z.known /\ y.continue = z.continue
  BY NamedFacts DEF Replied, SameTree, SameServer
<1>3. /\ y.ready = << >> /\ Elements(y.ready) = {} /\ y.later = z.later
  <2>1. Elements(<< >>) = {}
    BY DEF Elements
  <2> QED
    BY <2>1 DEF Replied
<1>4. Announced(y) = Announced(z) /\ Coming(y) = Coming(z)
  BY <1>0, <1>2, DownFacts
<1>5. Requested(y) = Requested(z) \cup Elements(w)
  <2>1. CASE w = << >>
    <3>1. Elements(w) = {} /\ y.up = z.up
      BY <2>1 DEF Elements, Replied
    <3> QED
      BY <3>1 DEF Requested
  <2>2. CASE w # << >>
    BY <1>0, <1>1, <2>2, UpFacts DEF Replied
  <2> QED
    BY <2>1, <2>2
<1>6. y.up = z.up \/ Added(z.up, y.up, GetData(w))
  BY DEF Replied
<1>7. ~Asks(GetData(w)) /\ GetData(w).cmd = "getdata" /\ GetData(w).invs = w
  BY MessageFacts DEF Asks
<1>8. Grows(z, y) /\ Gap(z)
  BY <1>0, <1>2, SeenFacts, GrowsFacts
<1>9. Elements(z.ready) \subseteq Elements(w) \cup Held(z)
  BY <1>1 DEF Sound, AskedNotHeld, Wanted
<1>10. ASSUME NEW x \in Nat, x <= p, x \in Held(z) PROVE x \in z.have
  BY <1>0, <1>8, <1>10, AboveFacts DEF Held, Regular
<1>11. OnlyTops(y, p)
  <2>1. Named(y) \subseteq Named(z)
    BY <1>1, <1>2, <1>3, <1>4, <1>5 DEF Named, Wanted
  <2> QED
    BY <1>0, <1>2, <1>8, <2>1, OnlyTopsKept DEF Regular
<1>12. AsksInOrder(y, p) /\ (AskAbove(z, p) => AskAbove(y, p))
  BY <1>0, <1>2, <1>6, <1>7, <1>8, AsksKept DEF Regular, UpKept
<1>13. BatchGoesOn(y, p)
  <2>1. Follows(z, p) => Follows(y, p)
    BY <1>0, <1>2, <1>8, FollowsFacts
  <2>2. \A t : Top(z, t) => Top(y, t)
    BY <1>0, <1>8, GrowsFacts
  <2>3. TopComes(z) => TopComes(y)
    BY <1>2, <1>3, <1>4, <1>5, <1>9, <2>2 DEF TopComes, Wanted
  <2> QED
    BY <1>2, <1>4, <1>12, <2>1, <2>3, BatchKept DEF Regular
<1>14. ListsInOrder(y.up, "getdata", y.have \cup Coming(y), p)
  <2> DEFINE H == z.have \cup Coming(z)
  <2>1. ListsInOrder(z.up, "getdata", H, p) /\ y.have \cup Coming(y) = H
    BY <1>2, <1>4 DEF Regular, ComeInOrder
  <2>2. CASE y.up = z.up
    BY <2>1, <2>2
  <2>3. CASE Added(z.up, y.up, GetData(w))
    <3>1. ASSUME NEW k \in 1..Len(w), w[k] \in 1..p
          PROVE  \/ w[k] - 1 \in H
                 \/ Listed(z.up, "getdata", w[k] - 1)
                 \/ \E i \in 1..(k - 1) : w[i] = w[k] - 1
      <4>1. PICK i \in 1..Len(z.ready) :
              /\ z.ready[i] \in z.asked /\ w[k] = z.ready[i]
              /\ \A j \in 1..(i - 1) : z.ready[j] \in z.asked => \E l \in 1..(k - 1) : w[l] = z.ready[j]
        BY <1>a DEF IsAmong
      <4>2. \/ w[k] - 1 \in z.have \cup Coming(z) \cup Requested(z)
            \/ \E j \in 1..(i - 1) : z.ready[j] = w[k] - 1
        BY <3>1, <4>1 DEF Regular, ComeInOrder, QueueInOrder
      <4>3. CASE w[k] - 1 \in Requested(z)
        BY <4>3 DEF Requested
      <4>4. ASSUME NEW j \in 1..(i - 1), z.ready[j] = w[k] - 1
            PROVE  w[k] - 1 \in H \/ \E l \in 1..(k - 1) : w[l] = w[k] - 1
        <5>1. CASE z.ready[j] \in z.asked
          BY <4>1, <4>4, <5>1
        <5>2. CASE z.ready[j] \notin z.asked
          <6>1. j \in DOMAIN z.ready
            BY <1>0
          <6>2. z.ready[j] \in Elements(z.ready)
            BY <6>1 DEF Elements
          <6>3. z.ready[j] \in Held(z)
            BY <1>1, <1>9, <5>2, <6>2
          <6>4. w[k] - 1 \in Nat /\ w[k] - 1 <= p
            BY <3>1
          <6> QED
            BY <1>10, <4>4, <6>3, <6>4
        <5> QED
          BY <5>1, <5>2
      <4> QED
        BY <4>2, <4>3, <4>4
    <3> HIDE DEF H
    <3>2. NextInOrder(z.up, GetData(w), "getdata", H, p)
      BY <1>7, <3>1 DEF NextInOrder
    <3>3. Below(H, H, p)
      BY DEF Below
    <3>4. ListsInOrder(y.up, "getdata", H, p)
      BY <1>0, <2>1, <2>3, <3>2, <3>3, ListsAdded
    <3> QED
      BY <2>1, <3>4
  <2> QED
    BY <1>6, <2>2, <2>3
<1>15. ListsInOrder(y.down, "inv",
                    y.have \cup Coming(y) \cup Requested(y) \cup Elements(y.ready), p)
  <2> DEFINE H == z.have \cup Coming(z) \cup Requested(z) \cup Elements(z.ready)
             G == y.have \cup Coming(y) \cup Requested(y) \cup Elements(y.ready)
  <2>1. ListsInOrder(z.down, "inv", H, p)
    BY DEF Regular, ComeInOrder
  <2>2. ASSUME NEW x \in H, x < p PROVE x \in G
    <3>1. CASE x \in z.have \cup Coming(z) \cup Requested(z)
      BY <1>2, <1>4, <1>5, <3>1
    <3>2. CASE x \in Elements(z.ready)
      <4>1. x \in Nat
        BY <1>0, <3>2 DEF Elements
      <4>2. x \in Held(z) => x \in z.have
        BY <1>10, <2>2, <4>1
      <4> QED
        BY <1>2, <1>5, <1>9, <3>2, <4>2
    <3> QED
      BY <2>2, <3>1, <3>2
  <2>3. Below(H, G, p)
    BY <2>2 DEF Below
  <2> HIDE DEF H, G
  <2>4. ListsInOrder(y.down, "inv", G, p)
    BY <1>2, <2>1, <2>3, ListsKept
  <2> QED
    BY <2>4 DEF G
<1>16. \A x \in 1..p : x \in y.asked => x \in Elements(y.ready) \cup Requested(y) \cup Coming(y)
  BY <1>1, <1>2, <1>3, <1>4, <1>5 DEF Regular, ComeInOrder
<1>17. QueueInOrder(y.ready, y.have \cup Coming(y) \cup Requested(y), p)
  BY <1>3 DEF QueueInOrder
<1>18. BlocksInOrder(y.down, y.have, p)
  BY <1>2 DEF Regular, ComeInOrder
<1>19. ComeInOrder(y, p)
  BY <1>14, <1>15, <1>16, <1>17, <1>18 DEF ComeInOrder
<1> QED
  BY <1>11, <1>12, <1>13, <1>19 DEF Regular

(* The retry delay passes. *)
LEMMA ElapsedRegular ==
    ASSUME NEW z, NEW y, NEW p \in Nat, Sound(z), IsLink(y), Elapsed(z, y),
           Gap(y), Regular(z, p)
    PROVE  Regular(y, p)
<1>1. IsLink(z) /\ z.ready \in Seq(Nat) /\ z.later \in Seq(Nat)
  BY DEF Sound, IsLink
<1>2. Elements(y.ready) = Elements(z.ready) \cup Elements(z.later) /\ Elements(y.later) = {}
  <2>1. Elements(<< >>) = {}
    BY DEF Elements
  <2> QED
    BY <1>1, <2>1, ConcatElements DEF Elapsed
<1>3. /\ SameTree(z, y) /\ SameServer(z, y) /\ y.last = z.last /\ y.up = z.up /\ y.have = z.have
      /\ y.down = z.down /\ Held(y) = Held(z) /\ Seen(y) = Seen(z) /\ y.asked = z.asked
      /\ y.ready = z.ready \o z.later /\ Requested(y) = Requested(z)
  BY NamedFacts DEF Elapsed, SameTree, Requested
<1>4. Wanted(y) = Wanted(z)
  BY <1>2 DEF Wanted
<1>5. Announced(z) = Announced(y) /\ Coming(y) = Coming(z)
  BY <1>1, <1>3, DownFacts
<1>6. Grows(z, y) /\ Gap(z)
  BY <1>1, <1>3, SeenFacts, GrowsFacts
<1>7. Follows(z, p) => Follows(y, p)
  BY <1>1, <1>3, <1>6, FollowsFacts
<1>8. ComeInOrder(y, p)
  <2> DEFINE H == z.have \cup Coming(z) \cup Requested(z)
  <2>1. ASSUME NEW k \in 1..Len(z.later), z.later[k] \in 1..p
        PROVE  z.later[k] - 1 \in H \cup Elements(z.ready)
    <3> DEFINE x == z.later[k]
    <3>1. x \in Wanted(z)
      BY <1>1 DEF Wanted, Elements
    <3>2. CASE x \in z.asked
      <4>1. x \in Elements(z.ready) \cup Requested(z) \cup Coming(z)
        BY <2>1, <3>2 DEF Regular, ComeInOrder
      <4> HIDE DEF x
      <4>2. x \in 1..p
        BY <2>1 DEF x
      <4>3. x - 1 \in z.have \cup Coming(z) \cup Requested(z) \cup Elements(z.ready)
        BY <1>1, <4>1, <4>2, BeforeFacts DEF Regular
      <4> QED
        BY <4>3 DEF x
    <3>3. CASE x \in Held(z)
      <4>1. x \in z.have
        BY <1>1, <1>6, <2>1, <3>3, AboveFacts DEF Held, Regular
      <4>2. Prev(x) = x - 1 /\ x # 0
        BY <2>1 DEF Prev
      <4> QED
        BY <1>1, <4>1, <4>2 DEF IsLink, IsTree, Connected
    <3> QED
      BY <3>1, <3>2, <3>3 DEF Sound, AskedNotHeld
  <2>2. QueueInOrder(z.ready, H, p)
    BY DEF Regular, ComeInOrder
  <2>3. y.have \cup Coming(y) \cup Requested(y) = H
    BY <1>3, <1>5
  <2> HIDE DEF H
  <2>4. Below(H, H, p)
    BY DEF Below
  <2>5. QueueInOrder(z.ready \o z.later, H, p)
    BY <1>1, <2>1, <2>2, <2>4, QueueKept
  <2>6. QueueInOrder(y.ready, y.have \cup Coming(y) \cup Requested(y), p)
    BY <1>3, <2>3, <2>5
  <2>7. ListsInOrder(y.down, "inv",
                     y.have \cup Coming(y) \cup Requested(y) \cup Elements(y.ready), p)
    <3> DEFINE J == z.have \cup Coming(z) \cup Requested(z) \cup Elements(z.ready)
               G == y.have \cup Coming(y) \cup Requested(y) \cup Elements(y.ready)
    <3>1. ListsInOrder(z.down, "inv", J, p)
      BY DEF Regular, ComeInOrder
    <3>2. Below(J, G, p)
      BY <1>2, <1>3, <1>5 DEF Below
    <3> HIDE DEF J, G
    <3>3. ListsInOrder(y.down, "inv", G, p)
      BY <1>3, <3>1, <3>2, ListsKept
    <3> QED
      BY <3>3 DEF G
  <2> QED
    BY <1>2, <1>3, <1>5, <2>6, <2>7 DEF Regular, ComeInOrder
<1>9. Named(y) \subseteq Named(z)
  BY <1>3, <1>4, <1>5 DEF Named
<1> QED
  BY <1>3, <1>4, <1>5, <1>7, <1>8, <1>9, KeptRegular
(* The end of a getdata message. *)
LEMMA EmptyDataRegular ==
    ASSUME NEW z, NEW y, NEW p \in Nat, Sound(z), IsLink(y), EmptyData(z, y), Gap(y), Regular(z, p)
    PROVE  Regular(y, p)
<1>0. /\ IsLink(z) /\ SameTree(z, y) /\ SameClient(z, y) /\ SameServer(z, y) /\ y.down = z.down
      /\ Dropped(z.up, y.up) /\ z.up[1].cmd = "getdata" /\ z.up[1].invs = << >>
  BY DEF Sound, EmptyData, SameClient
<1>1. ~Asks(z.up[1])
  BY <1>0 DEF Asks
<1>2. /\ Held(y) = Held(z) /\ Wanted(y) = Wanted(z) /\ Requested(y) = Requested(z)
      /\ Announced(y) = Announced(z) /\ Coming(y) = Coming(z) /\ Seen(y) = Seen(z)
      /\ y.asked = z.asked /\ y.have = z.have /\ y.orphans = z.orphans /\ y.ready = z.ready
      /\ y.known = z.known /\ y.continue = z.continue /\ y.last = z.last
  BY <1>0, UpFacts, DownFacts, NamedFacts DEF SameTree, SameClient, SameQueue, SameServer, Wanted
<1>3. Grows(z, y)
  BY <1>0, <1>2, SeenFacts
<1>4. OnlyTops(y, p)
  <2>1. Named(y) \subseteq Named(z)
    BY <1>2 DEF Named
  <2> QED
    BY <1>0, <1>2, <1>3, <2>1, OnlyTopsKept DEF Regular
<1>5. AsksInOrder(y, p) /\ (AskAbove(z, p) => AskAbove(y, p))
  BY <1>0, <1>1, <1>2, <1>3, AsksKept DEF Regular, UpKept
<1>6. BatchGoesOn(y, p)
  <2>1. Follows(z, p) => Follows(y, p)
    BY <1>0, <1>3, FollowsFacts
  <2>2. TopComes(z) => TopComes(y)
    BY <1>0, <1>2, <1>3, GrowsFacts DEF TopComes
  <2> QED
    BY <1>2, <1>5, <2>1, <2>2, BatchKept DEF Regular
<1>7. ListsInOrder(y.up, "getdata", y.have \cup Coming(y), p)
  <2> DEFINE H == z.have \cup Coming(z)
  <2>1. ListsInOrder(z.up, "getdata", H, p) /\ y.have \cup Coming(y) = H
    BY <1>2 DEF Regular, ComeInOrder
  <2> HIDE DEF H
  <2>2. Below(H, H, p) /\ Len(z.up) \in Nat /\ Len(y.up) \in Nat
    BY <1>0, LinkLens DEF Below
  <2>3. \A x \in Nat : ~Lists(z.up[1], "getdata", x)
    BY <1>0 DEF Lists, Elements
  <2>4. ListsInOrder(y.up, "getdata", H, p)
    BY <1>0, <2>1, <2>2, <2>3, ListsDropped
  <2> QED
    BY <2>1, <2>4
<1>8. ComeInOrder(y, p)
  BY <1>0, <1>2, <1>7 DEF Regular, ComeInOrder
<1> QED
  BY <1>4, <1>5, <1>6, <1>8 DEF Regular

(* A list of blocks past p may come at any time. *)
LEMMA AddedPast ==
    ASSUME NEW z, NEW y, IsLink(z), IsLink(y), NEW w, NEW H, NEW p \in Nat,
           ListsInOrder(z.down, "inv", H, p), Added(z.down, y.down, Inv(w)),
           \A k \in 1..Len(w) : w[k] > p
    PROVE  ListsInOrder(y.down, "inv", H, p)
<1>1. Inv(w).invs = w
  BY MessageFacts
<1>2. NextInOrder(z.down, Inv(w), "inv", H, p)
  <2>1. \A k \in 1..Len(w) : w[k] \notin 1..p
    OBVIOUS
  <2> QED
    BY <1>1, <2>1 DEF NextInOrder
<1>3. Below(H, H, p) /\ Len(z.down) \in Nat /\ Len(y.down) \in Nat
  BY LinkLens DEF Below
<1> QED
  BY <1>2, <1>3, ListsAdded

(* A new block of the server. *)
LEMMA MinedRegular ==
    ASSUME NEW z, NEW y, NEW w, NEW p \in Nat, Sound(z), IsLink(y), Mined(z, y, w),
           Gap(y), Regular(z, p)
    PROVE  Regular(y, p)
<1> DEFINE S == {z.tip + 1}
<1>0. /\ IsLink(z) /\ y.up = z.up /\ SameTree(z, y) /\ SameClient(z, y) /\ Told(z, y, w, S)
      /\ z.tip \in Nat /\ y.tip = z.tip + 1
  BY DEF Sound, Mined, SameClient, IsLink
<1>1. S \subseteq Nat /\ z.tip <= y.tip /\ \A x \in 1..y.tip : x > z.tip => x \in S
  BY <1>0
<1>2. Top(y, z.tip + 1)
  BY <1>0 DEF Top, SeenFrom
<1> HIDE DEF S
<1>3. /\ Grows(z, y) /\ Held(y) = Held(z) /\ Seen(y) = Seen(z) \cup S
      /\ Announced(y) = Announced(z) \cup (S \ z.known) /\ Coming(y) = Coming(z)
      /\ \A c \in Nat : Follows(z, c) => Follows(y, c)
  BY <1>0, <1>1, ToldFacts
<1>4. /\ y.known = z.known \cup S /\ y.continue = z.continue
      /\ Wanted(y) = Wanted(z) /\ Requested(y) = Requested(z)
      /\ y.have = z.have /\ y.orphans = z.orphans /\ y.asked = z.asked
      /\ y.last = z.last /\ y.ready = z.ready
  BY <1>0 DEF Mined, Told, SameClient, SameTree, SameQueue, Wanted, Requested
<1>5. OnlyTops(y, p)
  <2>1. \A x \in Nat : x \in Named(y) => x \in Named(z) \/ Top(y, x)
    BY <1>2, <1>3, <1>4 DEF Named, S
  <2> QED
    BY <1>0, <1>3, <1>4, <2>1, OnlyTopsKept DEF Regular
<1>6. z.tip + 1 > p
  BY <1>0, <1>2, <1>5, AboveFacts
<1>7. AsksInOrder(y, p) /\ (AskAbove(z, p) => AskAbove(y, p))
  BY <1>0, <1>3, <1>4, AsksKept DEF Regular, UpKept
<1>8. BatchGoesOn(y, p)
  <2>1. TopComes(z) => TopComes(y)
    BY <1>0, <1>3, <1>4, GrowsFacts DEF TopComes
  <2> QED
    BY <1>3, <1>4, <1>7, <2>1, BatchKept DEF Regular
<1>9. \A k \in 1..Len(w) : w[k] > p
  <2>1. w \in Seq(Nat) /\ Elements(w) \subseteq S
    BY <1>0 DEF Told
  <2>2. ASSUME NEW k \in 1..Len(w) PROVE w[k] = z.tip + 1
    <3>1. w[k] \in Elements(w)
      BY <2>1 DEF Elements
    <3> QED
      BY <2>1, <3>1 DEF S
  <2> QED
    BY <1>6, <2>2
<1>10. BlocksInOrder(y.down, y.have, p)
  <2>1. BlocksInOrder(z.down, z.have, p) /\ Below(z.have, y.have, p)
    BY <1>4 DEF Regular, ComeInOrder, Below
  <2>2. Len(z.down) \in Nat /\ Len(y.down) \in Nat
    BY <1>0, LinkLens
  <2>3. CASE w = << >>
    BY <1>0, <1>4, <2>1, <2>3 DEF Told
  <2>4. CASE w # << >>
    <3>1. Added(z.down, y.down, Inv(w))
      BY <1>0, <2>4 DEF Told
    <3>2. \A b \in 1..p : Inv(w) # BlockMsg(b)
      BY DEF Inv, BlockMsg
    <3> QED
      BY <2>1, <2>2, <3>1, <3>2, BlocksAdded
  <2> QED
    BY <2>3, <2>4
<1>11. ListsInOrder(y.down, "inv",
                    y.have \cup Coming(y) \cup Requested(y) \cup Elements(y.ready), p)
  <2> DEFINE H == z.have \cup Coming(z) \cup Requested(z) \cup Elements(z.ready)
  <2>1. ListsInOrder(z.down, "inv", H, p)
    BY DEF Regular, ComeInOrder
  <2>2. y.have \cup Coming(y) \cup Requested(y) \cup Elements(y.ready) = H
    BY <1>3, <1>4
  <2> HIDE DEF H
  <2>3. CASE w = << >>
    BY <1>0, <2>1, <2>2, <2>3 DEF Told
  <2>4. CASE w # << >>
    <3>1. Added(z.down, y.down, Inv(w))
      BY <1>0, <2>4 DEF Told
    <3>2. ListsInOrder(y.down, "inv", H, p)
      BY <1>0, <1>9, <2>1, <3>1, AddedPast
    <3> QED
      BY <2>2, <3>2
  <2> QED
    BY <2>3, <2>4
<1>12. ComeInOrder(y, p)
  BY <1>0, <1>3, <1>4, <1>10, <1>11 DEF Regular, ComeInOrder
<1> QED
  BY <1>5, <1>7, <1>8, <1>12 DEF Regular

(* The first block that is requested is next to the tree, follows one that  *)
(* comes, or is past p.                                                     *)
LEMMA FirstRequested ==
    ASSUME NEW z, IsLink(z), NEW p \in Nat, NEW H, ListsInOrder(z.up, "getdata", H, p),
           NEW b \in 1..p, NEW y, IsLink(y), Shortened(z.up, y.up, "getdata", b)
    PROVE  b - 1 \in H
<1>1. 1 \in 1..Len(z.up) /\ z.up[1].cmd = "getdata" /\ z.up[1].invs[1] = b
      /\ 1 \in 1..Len(z.up[1].invs)
  <2>1. /\ z.up[1].invs \in Seq(Nat) /\ Len(z.up[1].invs) = Len(y.up[1].invs) + 1
        /\ y.up[1].invs \in Seq(Nat) /\ z.up[1].cmd = "getdata" /\ z.up[1].invs[1] = b
        /\ Len(z.up) >= 1 /\ Len(z.up) \in Nat
    BY LinkLens DEF Shortened
  <2>2. Len(y.up[1].invs) \in Nat
    BY SMTT(20), <2>1
  <2> QED
    BY <2>1, <2>2
<1>2. \/ b - 1 \in H
      \/ \E i \in 1..(1 - 1) : Lists(z.up[i], "getdata", b - 1)
      \/ \E i \in 1..(1 - 1) : z.up[1].invs[i] = b - 1
  BY <1>1 DEF ListsInOrder
<1>3. 1..(1 - 1) = {}
  OBVIOUS
<1> QED
  BY <1>2, <1>3

(* A block of a getdata message. *)
LEMMA ServedBlockRegular ==
    ASSUME NEW z, NEW y, NEW b \in Nat, NEW p \in Nat, Sound(z), IsLink(y), ServedBlock(z, y, b),
           Gap(y), Regular(z, p)
    PROVE  Regular(y, p)
<1>0. /\ IsLink(z) /\ SameTree(z, y) /\ SameClient(z, y) /\ Shortened(z.up, y.up, "getdata", b)
      /\ y.known = z.known /\ y.tip = z.tip /\ z.tip \in Nat
      /\ y.have = z.have /\ y.orphans = z.orphans /\ y.asked = z.asked
      /\ y.last = z.last /\ y.ready = z.ready
  BY DEF Sound, ServedBlock, SameClient, SameTree, SameQueue, IsLink
<1>1. /\ Held(y) = Held(z) /\ Wanted(y) = Wanted(z) /\ Seen(y) = Seen(z)
      /\ Requested(z) = Requested(y) \cup {b} /\ Grows(z, y)
      /\ Coming(y) = Coming(z) \cup {b}
      /\ Announced(z) \subseteq Announced(y)
      /\ Announced(y) \subseteq Announced(z) \cup {z.tip}
      /\ b = z.continue => z.tip \in Announced(y)
      /\ \A c \in Nat : Follows(z, c) => Follows(y, c)
      /\ b = z.continue => Follows(y, b)
  BY <1>0, ServedBlockFacts
<1>2. y.continue = IF b = z.continue THEN None ELSE z.continue
  BY DEF ServedBlock
<1>3. Top(y, z.tip)
  BY <1>0 DEF Top, SeenFrom
<1>4. OnlyTops(y, p)
  <2>1. \A x \in Nat : x \in Named(y) => x \in Named(z) \/ Top(y, x)
    BY <1>0, <1>1, <1>3 DEF Named
  <2> QED
    BY <1>0, <1>1, <2>1, OnlyTopsKept DEF Regular
<1>5. z.tip > p
  BY <1>0, <1>3, <1>4, AboveFacts
<1>6. AsksInOrder(y, p) /\ (AskAbove(z, p) => AskAbove(y, p))
  BY <1>0, <1>1, AsksKept DEF Regular, UpKept
<1>7. BatchGoesOn(y, p)
  <2>1. CASE AskAbove(z, p)
    BY <1>6, <2>1 DEF BatchGoesOn
  <2>2. CASE p \notin z.have \cup Coming(z) /\ z.continue = p
    BY <1>0, <1>1, <1>2, <2>2 DEF BatchGoesOn
  <2>3. CASE p \notin z.have /\ Follows(z, p)
    BY <1>0, <1>1, <2>3 DEF BatchGoesOn
  <2>4. CASE p \in z.have /\ TopComes(z)
    <3>1. TopComes(y)
      BY <1>0, <1>1, <2>4, GrowsFacts DEF TopComes
    <3> QED
      BY <1>0, <2>4, <3>1 DEF BatchGoesOn
  <2> QED
    BY <2>1, <2>2, <2>3, <2>4 DEF Regular, BatchGoesOn
<1>8. /\ Len(z.down) \in Nat /\ Len(y.down) \in Nat
      /\ Len(z.up) \in Nat /\ Len(y.up) \in Nat
  BY <1>0, LinkLens
<1>9. ListsInOrder(y.up, "getdata", y.have \cup Coming(y), p)
  <2> DEFINE H == z.have \cup Coming(z)
             G == y.have \cup Coming(y)
  <2>1. ListsInOrder(z.up, "getdata", H, p)
    BY DEF Regular, ComeInOrder
  <2>2. Below(H, G, p) /\ b \in G
    BY <1>0, <1>1 DEF Below
  <2> HIDE DEF H, G
  <2>3. ListsInOrder(y.up, "getdata", G, p)
    BY <1>0, <1>8, <2>1, <2>2, ListsShortened
  <2> QED
    BY <2>3 DEF G
<1>10. \A c \in 1..p : BlockMsg(b) = BlockMsg(c) => c - 1 \in y.have \/ Sent(z.down, c - 1)
  <2> SUFFICES ASSUME NEW c \in 1..p, BlockMsg(b) = BlockMsg(c)
               PROVE  c - 1 \in y.have \/ Sent(z.down, c - 1)
    OBVIOUS
  <2>1. BlockMsg(b).block = b /\ BlockMsg(c).block = c
    BY MessageFacts
  <2>2. c = b
    BY <2>1
  <2> DEFINE H == z.have \cup Coming(z)
  <2>3. ListsInOrder(z.up, "getdata", H, p)
    BY DEF Regular, ComeInOrder
  <2> HIDE DEF H
  <2>4. b \in 1..p
    BY <2>2
  <2>5. b - 1 \in H
    BY <1>0, <2>3, <2>4, FirstRequested
  <2> QED
    BY <1>0, <2>2, <2>5 DEF H, Coming
<1>11. /\ BlocksInOrder(y.down, y.have, p)
       /\ ListsInOrder(y.down, "inv",
                       y.have \cup Coming(y) \cup Requested(y) \cup Elements(y.ready), p)
  <2> DEFINE H == z.have \cup Coming(z) \cup Requested(z) \cup Elements(z.ready)
             m == BlockMsg(b)
             v == Inv(<<z.tip>>)
  <2>1. ListsInOrder(z.down, "inv", H, p) /\ BlocksInOrder(z.down, z.have, p)
    BY DEF Regular, ComeInOrder
  <2>2. y.have \cup Coming(y) \cup Requested(y) \cup Elements(y.ready) = H
    BY <1>0, <1>1
  <2>3. m.cmd = "block" /\ v.cmd = "inv" /\ v.invs = <<z.tip>>
    BY MessageFacts
  <2>4. \A c : v # BlockMsg(c)
    BY <2>3, MessageFacts
  <2>5. \A s : NextInOrder(s, v, "inv", H, p)
    <3>1. Len(v.invs) = 1 /\ v.invs[1] = z.tip
      BY <2>3
    <3>2. \A k \in 1..Len(v.invs) : v.invs[k] \notin 1..p
      BY <1>0, <1>5, <3>1
    <3> QED
      BY <3>2 DEF NextInOrder
  <2>6. \A c \in 1..p : m = BlockMsg(c) => c - 1 \in y.have \/ Sent(z.down, c - 1)
    BY <1>10
  <2>7. b # z.continue => Added(z.down, y.down, m)
    BY DEF ServedBlock
  <2>8. b = z.continue => \E d \in Seq(Answers) : Added(z.down, d, m) /\ Added(d, y.down, v)
    BY DEF ServedBlock
  <2> HIDE DEF H, m, v
  <2>9. Below(H, H, p) /\ Below(z.have, y.have, p) /\ Below(y.have, y.have, p)
    BY <1>0 DEF Below
  <2>10. ASSUME NEW d, Len(d) \in Nat, Added(z.down, d, m)
         PROVE  BlocksInOrder(d, y.have, p) /\ ListsInOrder(d, "inv", H, p)
    <3>1. BlocksInOrder(d, y.have, p)
      BY <1>8, <2>1, <2>6, <2>9, <2>10, BlocksAdded
    <3>2. ListsInOrder(d, "inv", H, p)
      BY <1>8, <2>1, <2>3, <2>9, <2>10, ListsAdded
    <3> QED
      BY <3>1, <3>2
  <2>11. CASE b # z.continue
    BY <1>8, <2>2, <2>7, <2>10, <2>11
  <2>12. CASE b = z.continue
    <3>1. PICK d \in Seq(Answers) : Added(z.down, d, m) /\ Added(d, y.down, v)
      BY <2>8, <2>12
    <3>2. Len(d) \in Nat
      OBVIOUS
    <3>3. BlocksInOrder(d, y.have, p) /\ ListsInOrder(d, "inv", H, p)
      BY <2>10, <3>1, <3>2
    <3>4. BlocksInOrder(y.down, y.have, p)
      BY <1>8, <2>4, <2>9, <3>1, <3>2, <3>3, BlocksAdded
    <3>5. ListsInOrder(y.down, "inv", H, p)
      BY <1>8, <2>5, <2>9, <3>1, <3>2, <3>3, ListsAdded
    <3> QED
      BY <2>2, <3>4, <3>5
  <2> QED
    BY <2>11, <2>12
<1>12. QueueInOrder(y.ready, y.have \cup Coming(y) \cup Requested(y), p)
  <2>1. y.have \cup Coming(y) \cup Requested(y) = z.have \cup Coming(z) \cup Requested(z)
    BY <1>0, <1>1
  <2> QED
    BY <1>0, <2>1 DEF Regular, ComeInOrder
<1>13. \A x \in 1..p : x \in y.asked => x \in Elements(y.ready) \cup Requested(y) \cup Coming(y)
  BY <1>0, <1>1 DEF Regular, ComeInOrder
<1>14. ComeInOrder(y, p)
  BY <1>9, <1>11, <1>12, <1>13 DEF ComeInOrder
<1> QED
  BY <1>4, <1>6, <1>7, <1>14 DEF Regular
(* An answer moves the end of the batches to the end of what it tells. *)
LEMMA ServedAskRegular ==
    ASSUME NEW z, NEW y, NEW f \in Int, NEW s \in Nat, NEW w, NEW p \in Nat, Sound(z), IsLink(y),
           ServedAsk(z, y, f, s, w), Gap(y), Regular(z, p)
    PROVE  Regular(y, Full(f))
<1> DEFINE e == LastTold(z, f, s)
           q == Full(f)
           S == (Found(f) + 1)..e
<1>0. /\ IsLink(z) /\ SameTree(z, y) /\ SameClient(z, y) /\ Dropped(z.up, y.up)
      /\ z.up[1] = GetBlocks(f, s) /\ y.tip = z.tip /\ Told(z, y, w, S)
      /\ y.continue = (IF e = q THEN q ELSE z.continue) /\ TellsInOrder(z, w, f)
      /\ y.have = z.have /\ y.orphans = z.orphans /\ y.asked = z.asked
      /\ y.last = z.last /\ y.ready = z.ready
  BY DEF Sound, ServedAsk, SameClient, SameTree, SameQueue
<1>1. /\ z.tip \in Nat /\ Found(f) \in Nat /\ q \in Nat /\ q # None
      /\ q > Found(f) /\ e \in Nat
  BY ServedAskFacts
<1>2. Asks(z.up[1]) /\ z.up[1].from = f /\ z.up[1].stop = s /\ 1 \in 1..Len(z.up)
  BY <1>0, MessageFacts, UpPlaces DEF Asks
<1>3. f \in z.have /\ (s = None \/ s > Found(f))
  BY <1>2 DEF Sound, LastIsLast, IsAsk
<1>4. /\ Grows(z, y) /\ Held(y) = Held(z) /\ Seen(y) = Seen(z) \cup S
      /\ Announced(y) = Announced(z) \cup (S \ z.known) /\ Coming(y) = Coming(z)
      /\ \A c \in Nat : Follows(z, c) => Follows(y, c)
  BY ServedAskFacts
<1>5. \A x \in 1..e : x \in Seen(y)
  BY ServedAskFacts
<1>6. /\ y.known = z.known \cup S
      /\ Wanted(y) = Wanted(z) /\ Requested(y) = Requested(z)
  BY ServedAskFacts
<1>7. /\ q >= p /\ (s = None \/ SeenFrom(z, s))
      /\ \A j \in 1..Len(z.up) : Asks(z.up[j]) => Height(f) <= Height(z.up[j].from)
  BY <1>2 DEF Regular, AsksInOrder
<1>8. e = q /\ q <= z.tip
  <2>1. e = IF s # None /\ s > Found(f) /\ s <= q THEN s - 1
            ELSE IF q > z.tip THEN z.tip ELSE q
    BY DEF LastTold
  <2> HIDE DEF e, q, S
  <2>2. e # z.tip \/ q = z.tip
    <3> SUFFICES ASSUME e = z.tip PROVE FALSE
      OBVIOUS
    <3> QED
      BY <1>0, <1>5 DEF Gap
  <2>3. ~(s # None /\ s > Found(f) /\ s <= q)
    <3> SUFFICES ASSUME s # None, s > Found(f), s <= q PROVE FALSE
      OBVIOUS
    <3>1. e = s - 1
      BY <2>1
    <3>2. SeenFrom(y, s)
      BY <1>0, <1>4, <1>7, GrowsFacts
    <3>3. ASSUME NEW x \in 1..y.tip PROVE x \in Seen(y)
      <4>1. x \in 1..e \/ s <= x
        BY <1>0, <1>1, <3>1
      <4> QED
        BY <1>5, <3>2, <4>1 DEF SeenFrom
    <3> QED
      BY <3>3 DEF Gap
  <2> QED
    BY <1>1, <2>1, <2>2, <2>3
<1>9. S = (Found(f) + 1)..q /\ y.continue = q
  BY <1>0, <1>8
<1> HIDE DEF e, q, S
<1>10. Gap(z) /\ \A t : Top(z, t) => Top(y, t)
  BY <1>0, <1>4, GrowsFacts
<1>11. Found(f) <= p
  <2>1. f <= p
    BY <1>0, <1>3, <1>10, AboveFacts DEF Regular
  <2> QED
    BY <2>1 DEF Found
<1>12. OnlyTops(y, q)
  <2>1. ASSUME NEW x \in 1..q PROVE x \in y.known
    <3>1. CASE x <= p
      BY <1>6, <3>1 DEF Regular, OnlyTops
    <3>2. CASE x > p
      BY <1>1, <1>6, <1>9, <1>11, <3>2
    <3> QED
      BY <1>1, <3>1, <3>2
  <2>2. ASSUME NEW x \in Nat, x \in Named(y) PROVE x <= q \/ Top(y, x)
    <3>1. x \in Named(z) \/ x \in S
      BY <1>0, <1>4, <1>6, <2>2 DEF Named
    <3>2. CASE x \in S
      BY <1>1, <1>9, <3>2
    <3>3. CASE x \in Named(z)
      BY <1>1, <1>7, <1>10, <3>3 DEF Regular, OnlyTops
    <3> QED
      BY <3>1, <3>2, <3>3
  <2>3. \A x \in y.orphans : Top(y, x)
    BY <1>0, <1>10 DEF Regular, OnlyTops
  <2> QED
    BY <2>1, <2>2, <2>3 DEF OnlyTops
<1>13. ASSUME NEW x \in Nat, x \in Named(z), x <= q PROVE x <= p
  <2>1. ~Top(z, x)
    BY <1>0, <1>1, <1>10, <1>12, <1>13, AboveFacts
  <2> QED
    BY <1>13, <2>1 DEF Regular, OnlyTops
<1>14. \A x \in 1..q : x \in Named(z) => x \in 1..p
  BY <1>1, <1>13
<1>15. BlocksInOrder(y.down, y.have, q)
  <2>1. BlocksInOrder(z.down, z.have, q)
    <3>1. ASSUME NEW j \in 1..Len(z.down), NEW b \in 1..q, z.down[j] = BlockMsg(b)
          PROVE  b - 1 \in z.have \/ \E i \in 1..(j - 1) : z.down[i] = BlockMsg(b - 1)
      <4>1. b \in Coming(z)
        BY <1>1, <3>1 DEF Coming, Sent
      <4>2. b \in 1..p
        BY <1>14, <4>1 DEF Named
      <4> QED
        BY <3>1, <4>2 DEF Regular, ComeInOrder, BlocksInOrder
    <3> QED
      BY <3>1 DEF BlocksInOrder
  <2>2. Below(z.have, y.have, q) /\ Len(z.down) \in Nat /\ Len(y.down) \in Nat
    BY <1>0, LinkLens DEF Below
  <2>3. CASE w = << >>
    BY <1>0, <2>1, <2>3 DEF Told
  <2>4. CASE w # << >>
    <3>1. Added(z.down, y.down, Inv(w))
      BY <1>0, <2>4 DEF Told
    <3>2. \A b \in 1..q : Inv(w) # BlockMsg(b)
      BY DEF Inv, BlockMsg
    <3> QED
      BY <1>1, <2>1, <2>2, <3>1, <3>2, BlocksAdded
  <2> QED
    BY <2>3, <2>4
<1>16. /\ \A x \in Requested(z) : x <= q => x <= p
       /\ \A x \in Announced(z) : x <= q => x <= p
       /\ \A x \in Wanted(z) : x <= q => x <= p
  <2>1. Wanted(z) \subseteq Nat
    <3>1. z.ready \in Seq(Nat) /\ z.later \in Seq(Nat)
      BY <1>0 DEF IsLink
    <3>2. \A i \in DOMAIN z.ready : z.ready[i] \in Nat
      BY <3>1
    <3>3. \A i \in DOMAIN z.later : z.later[i] \in Nat
      BY <3>1
    <3> QED
      BY <3>2, <3>3 DEF Wanted, Elements
  <2> QED
    BY <1>13, <2>1 DEF Named, Requested, Announced
<1>17. ListsInOrder(y.up, "getdata", y.have \cup Coming(y), q)
  <2> DEFINE H == z.have \cup Coming(z)
  <2>1. ListsInOrder(z.up, "getdata", H, p) /\ y.have \cup Coming(y) = H
    BY <1>0, <1>4 DEF Regular, ComeInOrder
  <2> HIDE DEF H
  <2>2. \A x \in Nat : Listed(z.up, "getdata", x) /\ x <= q => x <= p
    BY <1>16 DEF Requested
  <2>3. z.up \in Seq(Requests)
    BY <1>0 DEF IsLink
  <2>4. ListsInOrder(z.up, "getdata", H, q)
    <3>1. ASSUME NEW j \in 1..Len(z.up), z.up[j].cmd = "getdata", NEW k \in 1..Len(z.up[j].invs),
                 z.up[j].invs[k] \in 1..q
          PROVE  z.up[j].invs[k] \in 1..p
      <4>1. z.up[j].invs \in Seq(Nat)
        <5>1. z.up[j] \in Requests
          BY <2>3
        <5> QED
          BY <3>1, <5>1, MessageFacts
      <4>2. Lists(z.up[j], "getdata", z.up[j].invs[k])
        BY <3>1, <4>1 DEF Lists, Elements
      <4>3. Listed(z.up, "getdata", z.up[j].invs[k])
        BY <4>2 DEF Listed
      <4>4. z.up[j].invs[k] \in Nat /\ z.up[j].invs[k] >= 1 /\ z.up[j].invs[k] <= q
        BY SMTT(20), <1>1, <3>1
      <4>5. z.up[j].invs[k] <= p
        BY <2>2, <4>3, <4>4
      <4> QED
        BY <4>4, <4>5
    <3> QED
      BY <2>1, <3>1 DEF ListsInOrder
  <2>5. Below(H, H, q) /\ Len(z.up) \in Nat /\ Len(y.up) \in Nat
    BY <1>0, LinkLens DEF Below
  <2>6. \A x \in Nat : ~Lists(z.up[1], "getdata", x)
    BY <1>2 DEF Lists, Asks
  <2>7. ListsInOrder(y.up, "getdata", H, q)
    BY <1>0, <1>1, <2>4, <2>5, <2>6, ListsDropped
  <2> QED
    BY <2>1, <2>7
<1>18. QueueInOrder(y.ready, y.have \cup Coming(y) \cup Requested(y), q)
  <2>1. ASSUME NEW k \in 1..Len(z.ready), z.ready[k] \in 1..q PROVE z.ready[k] \in 1..p
    <3>1. z.ready[k] \in Wanted(z)
      <4>1. z.ready \in Seq(Nat)
        BY <1>0 DEF IsLink
      <4>2. k \in DOMAIN z.ready
        BY <4>1
      <4> QED
        BY <4>2 DEF Wanted, Elements
    <3> QED
      BY <1>1, <1>16, <2>1, <3>1
  <2>2. QueueInOrder(z.ready, z.have \cup Coming(z) \cup Requested(z), p)
    BY DEF Regular, ComeInOrder
  <2> QED
    BY <1>0, <1>4, <1>6, <2>1, <2>2 DEF QueueInOrder
<1>19. \A x \in 1..q : x \in y.asked => x \in Elements(y.ready) \cup Requested(y) \cup Coming(y)
  <2> SUFFICES ASSUME NEW x \in 1..q, x \in y.asked
               PROVE  x \in Elements(y.ready) \cup Requested(y) \cup Coming(y)
    OBVIOUS
  <2>1. x \in z.asked /\ x \in Named(z)
    BY <1>0 DEF Named
  <2>2. x \in 1..p
    BY <1>14, <2>1
  <2> QED
    BY <1>0, <1>4, <1>6, <2>1, <2>2 DEF Regular, ComeInOrder
<1>20. ListsInOrder(y.down, "inv",
                    y.have \cup Coming(y) \cup Requested(y) \cup Elements(y.ready), q)
  <2> DEFINE H == z.have \cup Coming(z) \cup Requested(z) \cup Elements(z.ready)
  <2>1. ListsInOrder(z.down, "inv", H, p)
        /\ y.have \cup Coming(y) \cup Requested(y) \cup Elements(y.ready) = H
    BY <1>0, <1>4, <1>6 DEF Regular, ComeInOrder
  <2>2. \A x \in Nat : Listed(z.down, "inv", x) /\ x <= q => x <= p
    BY <1>16 DEF Announced
  <2>3. z.down \in Seq(Answers)
    BY <1>0 DEF IsLink
  <2>4. 0 \in H /\ Found(f) \in H
    BY <1>0, <1>3 DEF IsLink, IsTree, Found
  <2>5. ASSUME NEW x \in z.known, x \in 1..q PROVE x \in H \/ Listed(z.down, "inv", x)
    <3>1. x \in 1..p
      BY <1>14, <2>5 DEF Named, Seen
    <3>2. x \in Held(z) => x \in z.have
      BY <1>0, <1>10, <3>1, AboveFacts DEF Held, Regular
    <3>3. x \in z.asked => x \in H
      BY <3>1 DEF Regular, ComeInOrder
    <3>4. x \in Wanted(z) => x \in H
      BY <3>2, <3>3 DEF Sound, AskedNotHeld
    <3>5. x \in Announced(z) => Listed(z.down, "inv", x)
      BY DEF Announced
    <3> QED
      BY <3>2, <3>4, <3>5 DEF Sound, KnownUnderWay
  <2> HIDE DEF H
  <2>6. ListsInOrder(z.down, "inv", H, q)
    <3>1. ASSUME NEW j \in 1..Len(z.down), z.down[j].cmd = "inv", NEW k \in 1..Len(z.down[j].invs),
                 z.down[j].invs[k] \in 1..q
          PROVE  z.down[j].invs[k] \in 1..p
      <4>1. z.down[j].invs \in Seq(Nat)
        <5>1. z.down[j] \in Answers
          BY <2>3
        <5> QED
          BY <3>1, <5>1, MessageFacts
      <4>2. Lists(z.down[j], "inv", z.down[j].invs[k])
        BY <3>1, <4>1 DEF Lists, Elements
      <4> QED
        <5>1. Listed(z.down, "inv", z.down[j].invs[k])
          BY <4>2 DEF Listed
        <5>2. z.down[j].invs[k] \in Nat /\ z.down[j].invs[k] >= 1 /\ z.down[j].invs[k] <= q
          BY SMTT(20), <1>1, <3>1
        <5>3. z.down[j].invs[k] <= p
          BY <2>2, <5>1, <5>2
        <5> QED
          BY <5>2, <5>3
    <3> QED
      BY <2>1, <3>1 DEF ListsInOrder
  <2>7. CASE w = << >>
    BY <1>0, <2>1, <2>6, <2>7 DEF Told
  <2>8. CASE w # << >>
    <3>1. Added(z.down, y.down, Inv(w)) /\ Inv(w).invs = w
      BY <1>0, <2>8, MessageFacts DEF Told
    <3>2. ASSUME NEW k \in 1..Len(w), w[k] \in 1..q
          PROVE  \/ w[k] - 1 \in H
                 \/ Listed(z.down, "inv", w[k] - 1)
                 \/ \E i \in 1..(k - 1) : w[i] = w[k] - 1
      <4>1. \/ w[k] - 1 = Found(f)
            \/ w[k] - 1 \in z.known
            \/ \E i \in 1..(k - 1) : w[i] = w[k] - 1
        BY <1>0 DEF TellsInOrder
      <4>2. w[k] - 1 = 0 \/ w[k] - 1 \in 1..q
        BY <1>1, <3>2
      <4> QED
        BY <2>4, <2>5, <4>1, <4>2
    <3>3. NextInOrder(z.down, Inv(w), "inv", H, q)
      BY <3>1, <3>2 DEF NextInOrder
    <3>4. Below(H, H, q) /\ Len(z.down) \in Nat /\ Len(y.down) \in Nat
      BY <1>0, LinkLens DEF Below
    <3>5. ListsInOrder(y.down, "inv", H, q)
      BY <1>1, <2>6, <3>1, <3>3, <3>4, ListsAdded
    <3> QED
      BY <2>1, <3>5
  <2> QED
    BY <2>7, <2>8
<1>21. ComeInOrder(y, q)
  BY <1>15, <1>17, <1>18, <1>19, <1>20 DEF ComeInOrder
<1>22. /\ \A i \in 1..Len(z.up) : i = 1 \/ (i - 1 \in 1..Len(y.up) /\ y.up[i - 1] = z.up[i])
       /\ \A i \in 1..Len(y.up) : i + 1 \in 1..Len(z.up) /\ y.up[i] = z.up[i + 1]
       /\ Len(z.up) \in Nat /\ Len(y.up) \in Nat
  BY <1>0, UpPlaces, LinkLens
<1>23. /\ z.last[1] \in Int /\ Full(z.last[1]) = Height(z.last[1]) + Limit
       /\ Height(z.last[1]) \in Nat /\ Height(f) \in Nat /\ q = Height(f) + Limit /\ Limit \in Nat
  <2>1. z.last[1] \in Int
    BY <1>0 DEF IsLink
  <2>2. Height(z.last[1]) \in Nat /\ Height(f) \in Nat
    BY <2>1, HeightFacts
  <2> QED
    BY <2>1, <2>2, SyncAssumption DEF Full, q
<1>24. AsksInOrder(y, q)
  <2>1. PICK j \in 1..Len(z.up) : z.up[j] = GetBlocks(z.last[1], z.last[2])
    BY <1>2 DEF Sound, LastIsLast
  <2>2. Asks(z.up[j]) /\ z.up[j].from = z.last[1]
    BY <2>1, MessageFacts DEF Asks
  <2>3. Full(y.last[1]) >= q
    <3>1. Height(f) <= Height(z.last[1])
      BY <1>7, <2>2
    <3>2. y.last[1] = z.last[1]
      BY <1>0
    <3>3. Full(z.last[1]) >= q
      BY <1>23, <3>1
    <3> QED
      BY <3>2, <3>3
  <2>4. ASSUME ~Asking(y) PROVE Full(y.last[1]) = q
    <3>1. j = 1
      BY <1>22, <2>2, <2>4 DEF Asking
    <3>2. z.last[1] = f
      BY <1>2, <2>2, <3>1
    <3> QED
      BY <1>0, <3>2 DEF q
  <2>5. ASSUME NEW i \in 1..Len(y.up), Asks(y.up[i])
        PROVE  /\ Full(y.up[i].from) >= q
               /\ y.up[i].stop = None \/ SeenFrom(y, y.up[i].stop)
               /\ \A k \in i..Len(y.up) : Asks(y.up[k]) => Height(y.up[i].from) <= Height(y.up[k].from)
    <3>1. i + 1 \in 1..Len(z.up) /\ y.up[i] = z.up[i + 1]
      BY <1>22
    <3>2. Full(y.up[i].from) >= q
      <4>1. Height(f) <= Height(y.up[i].from) /\ y.up[i].from \in Int
        <5>1. z.up \in Seq(Requests)
          BY <1>0 DEF IsLink
        <5>2. z.up[i + 1] \in Requests
          BY <3>1, <5>1
        <5>3. z.up[i + 1].from \in Int
          BY <2>5, <3>1, <5>2, MessageFacts DEF Asks
        <5> QED
          BY <1>7, <2>5, <3>1, <5>3
      <4>2. Height(y.up[i].from) \in Nat
        BY <4>1, HeightFacts
      <4> QED
        BY <1>23, <4>1, <4>2 DEF Full
    <3>3. y.up[i].stop = None \/ SeenFrom(y, y.up[i].stop)
      <4>1. z.up[i + 1].stop = None \/ SeenFrom(z, z.up[i + 1].stop)
        BY <2>5, <3>1 DEF Regular, AsksInOrder
      <4> QED
        BY <1>0, <1>4, <3>1, <4>1, GrowsFacts
    <3>4. ASSUME NEW k \in i..Len(y.up), Asks(y.up[k])
          PROVE  Height(y.up[i].from) <= Height(y.up[k].from)
      <4>1. k \in 1..Len(y.up) /\ k + 1 \in (i + 1)..Len(z.up) /\ y.up[k] = z.up[k + 1]
        <5>1. k \in 1..Len(y.up)
          BY <1>22
        <5>2. k + 1 \in 1..Len(z.up) /\ y.up[k] = z.up[k + 1]
          BY <1>22, <5>1
        <5> QED
          BY <1>22, <5>1, <5>2
      <4> QED
        BY <2>5, <3>1, <3>4, <4>1 DEF Regular, AsksInOrder
    <3> QED
      BY <3>2, <3>3, <3>4
  <2> QED
    BY <2>3, <2>4, <2>5 DEF AsksInOrder
<1>25. BatchGoesOn(y, q)
  <2>1. CASE q > p
    <3>1. q \notin z.have
      BY <1>0, <1>1, <1>10, <2>1, AboveFacts DEF Regular
    <3>2. q \notin Coming(z)
      <4>1. q \in Coming(z) => q \in Named(z)
        BY DEF Named
      <4> QED
        BY <1>1, <1>13, <2>1, <4>1
    <3> QED
      BY <1>0, <1>4, <1>9, <3>1, <3>2 DEF BatchGoesOn
  <2>2. CASE q = p
    <3>1. CASE AskAbove(z, p)
      <4>1. PICK i \in 1..Len(z.up) : Asks(z.up[i]) /\ Full(z.up[i].from) > p
        BY <3>1 DEF AskAbove
      <4>2. i # 1
        BY <1>2, <2>2, <4>1 DEF q
      <4>3. i - 1 \in 1..Len(y.up) /\ y.up[i - 1] = z.up[i]
        BY <1>22, <4>2
      <4>4. AskAbove(y, q)
        BY <2>2, <4>1, <4>3 DEF AskAbove
      <4> QED
        BY <4>4 DEF BatchGoesOn
    <3>2. CASE p \notin z.have \cup Coming(z)
      BY <1>0, <1>4, <1>9, <2>2, <3>2 DEF BatchGoesOn
    <3>3. CASE p \notin z.have /\ Follows(z, p)
      BY <1>0, <1>4, <2>2, <3>3 DEF BatchGoesOn
    <3>4. CASE p \in z.have /\ TopComes(z)
      <4>1. TopComes(y)
        BY <1>4, <1>6, <1>10, <3>4 DEF TopComes
      <4> QED
        BY <1>0, <2>2, <3>4, <4>1 DEF BatchGoesOn
    <3> QED
      BY <3>1, <3>2, <3>3, <3>4 DEF Regular, BatchGoesOn
  <2> QED
    BY <1>1, <1>7, <2>1, <2>2
<1>26. Regular(y, q)
  BY <1>12, <1>21, <1>24, <1>25 DEF Regular
<1> QED
  BY <1>26 DEF q

(* The first connection: nothing was announced. *)
LEMMA FreshRegular ==
    ASSUME NEW y, IsLink(y), Fresh(y), y.orphans = {}, y.asked = {}, \A x \in y.have : x <= 0
    PROVE  Regular(y, 0)
<1>1. y.last[1] = y.best /\ y.last[2] = None /\ Len(y.up) = 1 /\ y.up[1] = GetBlocks(y.best, None)
  BY DEF Fresh
<1>2. Asks(y.up[1]) /\ y.up[1].from = y.best /\ y.up[1].stop = None
  BY <1>1, MessageFacts DEF Asks
<1>3. 1 \in 1..Len(y.up) /\ \A i \in 1..Len(y.up) : i = 1
  BY <1>1
<1>4. Wanted(y) = {} /\ Announced(y) = {} /\ Coming(y) = {} /\ y.known = {}
  BY DEF Fresh, Wanted, Elements, Announced, Listed, Coming, Sent
<1>5. Requested(y) = {}
  <2>1. \A x : ~Lists(y.up[1], "getdata", x)
    BY <1>2 DEF Lists, Asks
  <2> QED
    BY <1>3, <2>1 DEF Requested, Listed
<1>6. Height(y.best) \in Nat /\ Full(y.best) > 0 /\ Full(y.best) \in Nat
  <2>1. y.best \in Int
    BY TreeFacts
  <2> QED
    BY <2>1, HeightFacts, SyncAssumption DEF Full
<1>7. OnlyTops(y, 0)
  <2>1. Named(y) \subseteq y.have
    BY <1>4, <1>5 DEF Named, Seen, Held
  <2> QED
    BY <2>1 DEF OnlyTops
<1>8. 1..0 = {}
  OBVIOUS
<1>9. ComeInOrder(y, 0)
  BY <1>8 DEF ComeInOrder, BlocksInOrder, ListsInOrder, QueueInOrder
<1>10. Asking(y) /\ AskAbove(y, 0)
  BY <1>2, <1>3, <1>6 DEF Asking, AskAbove
<1>11. AsksInOrder(y, 0)
  <2>1. \A i \in 1..Len(y.up), j \in 1..Len(y.up) : Height(y.up[i].from) <= Height(y.up[j].from)
    BY <1>2, <1>3, <1>6
  <2>2. \A i \in 1..Len(y.up) : \A j \in i..Len(y.up) : j \in 1..Len(y.up)
    BY <1>1
  <2> QED
    BY <1>1, <1>2, <1>3, <1>6, <1>10, <2>1, <2>2 DEF AsksInOrder
<1> QED
  BY <1>7, <1>9, <1>10, <1>11 DEF Regular, BatchGoesOn

----------------------------------------------------------------------------
(* Every step keeps the invariant of the connection. *)

ClientStep(z, y) ==
    \/ \E b \in Nat : HeldInv(z, y, b) \/ OrphanInv(z, y, b) \/ NewInv(z, y, b)
    \/ EmptyInv(z, y)
    \/ \E b \in Nat : HeldBlock(z, y, b) \/ OrphanBlock(z, y, b)
    \/ \E b \in Nat, n \in Nat : NextBlock(z, y, b, n)
    \/ \E w : Replied(z, y, w)
    \/ Elapsed(z, y)

(* The client forgets nothing and leaves the server alone. *)
LEMMA ClientStepGrows ==
    ASSUME NEW z, NEW y, IsLink(z), IsLink(y), ClientStep(z, y)
    PROVE  Grows(z, y) /\ y.drops = z.drops
<1>1. SameServer(z, y)
  BY DEF ClientStep, HeldInv, OrphanInv, NewInv, EmptyInv, HeldBlock, OrphanBlock, NextBlock,
         Replied, Elapsed
<1>2. Held(z) \subseteq Held(y)
  <2>1. CASE SameTree(z, y)
    BY <2>1 DEF SameTree, Held
  <2>2. ASSUME NEW b \in Nat, OrphanBlock(z, y, b) PROVE Held(z) \subseteq Held(y)
    BY <2>2 DEF OrphanBlock, Held
  <2>3. ASSUME NEW b \in Nat, NEW n \in Nat, NextBlock(z, y, b, n) PROVE Held(z) \subseteq Held(y)
    <3>1. y.have = z.have \cup b..n /\ y.orphans = z.orphans \ b..n
      BY <2>3 DEF NextBlock
    <3> QED
      BY <3>1 DEF Held
  <2> QED
    BY <2>1, <2>2, <2>3
       DEF ClientStep, HeldInv, OrphanInv, NewInv, EmptyInv, HeldBlock, Replied, Elapsed
<1>3. Grows(z, y)
  BY <1>1, <1>2, SeenFacts
<1> QED
  BY <1>1, <1>3 DEF SameServer

(* The client keeps what holds on every connection. *)
LEMMA ClientStepSound ==
    ASSUME NEW z, NEW y, Sound(z), IsLink(y), ClientStep(z, y)
    PROVE  Sound(y)
<1>1. ASSUME NEW b \in Nat, HeldInv(z, y, b) \/ OrphanInv(z, y, b) \/ NewInv(z, y, b)
      PROVE  Sound(y)
  BY <1>1, HeldInvSound, OrphanInvSound, NewInvSound
<1>2. CASE EmptyInv(z, y)
  BY <1>2, EmptyInvSound
<1>3. ASSUME NEW b \in Nat, HeldBlock(z, y, b) \/ OrphanBlock(z, y, b)
      PROVE  Sound(y)
  BY <1>3, HeldBlockSound, OrphanBlockSound
<1>4. ASSUME NEW b \in Nat, NEW n \in Nat, NextBlock(z, y, b, n)
      PROVE  Sound(y)
  BY <1>4, NextBlockSound
<1>5. ASSUME NEW w, Replied(z, y, w)
      PROVE  Sound(y)
  BY <1>5, RepliedSound
<1>6. CASE Elapsed(z, y)
  BY <1>6, ElapsedSound
<1> QED
  BY <1>1, <1>2, <1>3, <1>4, <1>5, <1>6 DEF ClientStep

(* The client keeps what holds on the first one. *)
LEMMA ClientStepRegular ==
    ASSUME NEW z, NEW y, Sound(z), IsLink(y), ClientStep(z, y), Gap(y),
           NEW p \in Nat, Regular(z, p)
    PROVE  Regular(y, p)
<1>1. ASSUME NEW b \in Nat, HeldInv(z, y, b) \/ OrphanInv(z, y, b) \/ NewInv(z, y, b)
      PROVE  Regular(y, p)
  BY <1>1, HeldInvRegular, OrphanInvRegular, NewInvRegular
<1>2. CASE EmptyInv(z, y)
  BY <1>2, EmptyInvRegular
<1>3. ASSUME NEW b \in Nat, HeldBlock(z, y, b) \/ OrphanBlock(z, y, b)
      PROVE  Regular(y, p)
  BY <1>3, HeldBlockRegular, OrphanBlockRegular
<1>4. ASSUME NEW b \in Nat, NEW n \in Nat, NextBlock(z, y, b, n)
      PROVE  Regular(y, p)
  BY <1>4, NextBlockRegular
<1>5. ASSUME NEW w, Replied(z, y, w)
      PROVE  Regular(y, p)
  BY <1>5, RepliedRegular
<1>6. CASE Elapsed(z, y)
  BY <1>6, ElapsedRegular
<1> QED
  BY <1>1, <1>2, <1>3, <1>4, <1>5, <1>6 DEF ClientStep

(* The steps of the client. *)
LEMMA ClientStepLink ==
    ASSUME NEW z, NEW y, SoundLink(z), IsLink(y), ClientStep(z, y)
    PROVE  SoundLink(y)
<1>0. IsLink(z) /\ Sound(z)
  BY DEF Sound, SoundLink
<1>1. Grows(z, y) /\ y.drops = z.drops
  BY <1>0, ClientStepGrows
<1>2. Sound(y)
  BY <1>0, ClientStepSound
<1>3. ASSUME y.drops = 0, Gap(y) PROVE \E p \in Nat : Regular(y, p)
  <2>1. Gap(z)
    BY <1>0, <1>1, <1>3, GrowsFacts
  <2>2. PICK p \in Nat : Regular(z, p)
    BY <1>1, <1>3, <2>1 DEF SoundLink, FirstIsRegular
  <2>3. Regular(y, p)
    BY <1>0, <1>3, <2>2, ClientStepRegular
  <2> QED
    BY <2>3
<1> QED
  BY <1>2, <1>3 DEF SoundLink, FirstIsRegular

(* A block that is served. *)
LEMMA ServedBlockLink ==
    ASSUME NEW z, NEW y, NEW b \in Nat, SoundLink(z), IsLink(y), ServedBlock(z, y, b)
    PROVE  SoundLink(y)
<1>0. IsLink(z) /\ Sound(z)
  BY DEF Sound, SoundLink
<1>1. Grows(z, y) /\ y.drops = z.drops
  <2>1. y.drops = z.drops
    BY DEF ServedBlock
  <2> QED
    BY <1>0, <2>1, ServedBlockFacts
<1>2. Sound(y)
  BY <1>0, ServedBlockSound
<1>3. ASSUME y.drops = 0, Gap(y) PROVE \E p \in Nat : Regular(y, p)
  <2>1. Gap(z)
    BY <1>0, <1>1, <1>3, GrowsFacts
  <2>2. PICK p \in Nat : Regular(z, p)
    BY <1>1, <1>3, <2>1 DEF SoundLink, FirstIsRegular
  <2>3. Regular(y, p)
    BY <1>0, <1>3, <2>2, ServedBlockRegular
  <2> QED
    BY <2>3
<1> QED
  BY <1>2, <1>3 DEF SoundLink, FirstIsRegular

(* The end of a getdata message. *)
LEMMA EmptyDataLink ==
    ASSUME NEW z, NEW y, SoundLink(z), IsLink(y), EmptyData(z, y)
    PROVE  SoundLink(y)
<1>0. IsLink(z) /\ Sound(z)
  BY DEF Sound, SoundLink
<1>1. Grows(z, y) /\ y.drops = z.drops
  <2>1. SameServer(z, y) /\ Held(z) \subseteq Held(y)
    BY DEF EmptyData, SameClient, SameTree, Held
  <2> QED
    BY <1>0, <2>1, SeenFacts DEF SameServer
<1>2. Sound(y)
  BY <1>0, EmptyDataSound
<1>3. ASSUME y.drops = 0, Gap(y) PROVE \E p \in Nat : Regular(y, p)
  <2>1. Gap(z)
    BY <1>0, <1>1, <1>3, GrowsFacts
  <2>2. PICK p \in Nat : Regular(z, p)
    BY <1>1, <1>3, <2>1 DEF SoundLink, FirstIsRegular
  <2>3. Regular(y, p)
    BY <1>0, <1>3, <2>2, EmptyDataRegular
  <2> QED
    BY <2>3
<1> QED
  BY <1>2, <1>3 DEF SoundLink, FirstIsRegular

(* An answer to getblocks. *)
LEMMA ServedAskLink ==
    ASSUME NEW z, NEW y, NEW f \in Int, NEW s \in Nat, NEW w, SoundLink(z), IsLink(y),
           ServedAsk(z, y, f, s, w)
    PROVE  SoundLink(y)
<1>0. IsLink(z) /\ Sound(z)
  BY DEF Sound, SoundLink
<1>1. Grows(z, y) /\ y.drops = z.drops
  <2>1. y.drops = z.drops
    BY DEF ServedAsk
  <2> QED
    BY <1>0, <2>1, ServedAskFacts
<1>2. Sound(y)
  BY <1>0, ServedAskSound
<1>3. ASSUME y.drops = 0, Gap(y) PROVE \E p \in Nat : Regular(y, p)
  <2>1. Gap(z)
    BY <1>0, <1>1, <1>3, GrowsFacts
  <2>2. PICK p \in Nat : Regular(z, p)
    BY <1>1, <1>3, <2>1 DEF SoundLink, FirstIsRegular
  <2>3. Regular(y, Full(f)) /\ Full(f) \in Nat
    BY <1>0, <1>3, <2>2, ServedAskRegular, HeightFacts
  <2> QED
    BY <2>3
<1> QED
  BY <1>2, <1>3 DEF SoundLink, FirstIsRegular

(* A new block of the server. *)
LEMMA MinedLink ==
    ASSUME NEW z, NEW y, NEW w, SoundLink(z), IsLink(y), Mined(z, y, w)
    PROVE  SoundLink(y)
<1>0. IsLink(z) /\ Sound(z)
  BY DEF Sound, SoundLink
<1>1. Grows(z, y) /\ y.drops = z.drops
  <2>1. /\ y.drops = z.drops /\ y.tip = z.tip + 1 /\ z.tip \in Nat
        /\ y.known = z.known \cup {z.tip + 1} /\ Held(y) = Held(z)
    BY <1>0 DEF Mined, Told, SameClient, SameTree, Held, IsLink
  <2>2. Seen(y) = Seen(z) \cup {z.tip + 1}
    BY <2>1 DEF Seen
  <2> QED
    BY <2>1, <2>2 DEF Grows
<1>2. Sound(y)
  BY <1>0, MinedSound
<1>3. ASSUME y.drops = 0, Gap(y) PROVE \E p \in Nat : Regular(y, p)
  <2>1. Gap(z)
    BY <1>0, <1>1, <1>3, GrowsFacts
  <2>2. PICK p \in Nat : Regular(z, p)
    BY <1>1, <1>3, <2>1 DEF SoundLink, FirstIsRegular
  <2>3. Regular(y, p)
    BY <1>0, <1>3, <2>2, MinedRegular
  <2> QED
    BY <2>3
<1> QED
  BY <1>2, <1>3 DEF SoundLink, FirstIsRegular

(* A new connection. *)
LEMMA FreshLink ==
    ASSUME NEW y, IsLink(y), Fresh(y),
           y.drops = 0 => y.orphans = {} /\ y.asked = {} /\ \A x \in y.have : x <= 0
    PROVE  SoundLink(y)
<1>1. Sound(y)
  BY FreshSound
<1>2. y.drops = 0 => Regular(y, 0)
  BY FreshRegular
<1> QED
  BY <1>1, <1>2 DEF SoundLink, FirstIsRegular

----------------------------------------------------------------------------
(* The lists of messages of an inv or a getdata message, block by block. *)

(* What is left of a list after its first n blocks. *)
Rest(s, n) == [i \in 1..(Len(s) - n) |-> s[n + i]]

(* A message with what is left, and the messages r. *)
Left(cmd, s, n, r) == <<[cmd |-> cmd, invs |-> Rest(s, n)]>> \o r

(* The messages are in S. *)
ListsIn(cmd, S) == \A v \in Seq(Nat) : [cmd |-> cmd, invs |-> v] \in S

(* A message ahead of others. *)
LEMMA ConsFacts ==
    ASSUME NEW S, NEW m \in S, NEW r \in Seq(S)
    PROVE  /\ <<m>> \o r \in Seq(S) /\ Len(<<m>> \o r) = Len(r) + 1 /\ (<<m>> \o r)[1] = m
           /\ \A i \in 1..Len(r) : (<<m>> \o r)[i + 1] = r[i]
           /\ Tail(<<m>> \o r) = r
<1>1. <<m>> \o r \in Seq(S) /\ Len(<<m>> \o r) = Len(r) + 1 /\ (<<m>> \o r)[1] = m /\ Len(r) \in Nat
  OBVIOUS
<1>2. \A i \in 1..Len(r) : (<<m>> \o r)[i + 1] = r[i]
  BY <1>1
<1>3. Tail(<<m>> \o r) = r
  OBVIOUS
<1> QED
  BY <1>1, <1>2, <1>3

(* What is left is a list. *)
LEMMA RestFacts ==
    ASSUME NEW s \in Seq(Nat), NEW n \in 0..Len(s)
    PROVE  /\ Rest(s, n) \in Seq(Nat)
           /\ Len(Rest(s, n)) = Len(s) - n
           /\ \A i \in 1..(Len(s) - n) : Rest(s, n)[i] = s[n + i]
<1> DEFINE k == Len(s) - n
           v == [i \in 1..k |-> s[n + i]]
<1>1. k \in Nat /\ \A i \in 1..k : s[n + i] \in Nat
  OBVIOUS
<1> HIDE DEF k
<1>2. v \in [1..k -> Nat]
  BY <1>1
<1>3. v \in Seq(Nat)
  <2> HIDE DEF v
  <2> QED
    BY <1>1, <1>2, FunctionIsSequence
<1>4. DOMAIN v = 1..k
  OBVIOUS
<1>5. Len(v) = k
  <2> HIDE DEF v
  <2> QED
    BY <1>1, <1>3, <1>4
<1>6. \A i \in 1..k : v[i] = s[n + i]
  OBVIOUS
<1>7. Rest(s, n) = v
  BY DEF Rest, k
<1> HIDE DEF v
<1> QED
  BY <1>3, <1>5, <1>6, <1>7 DEF k

(* t is the message cmd with the list v, and the messages r. *)
Leads(t, cmd, v, r) ==
    /\ Len(t) = Len(r) + 1 /\ t[1].cmd = cmd /\ t[1].invs = v
    /\ \A i \in 1..Len(r) : t[i + 1] = r[i]

(* What is left is a message ahead of the others. *)
LEMMA LeftFacts ==
    ASSUME NEW S, NEW cmd, NEW s \in Seq(Nat), NEW n \in 0..Len(s), NEW r \in Seq(S),
           ListsIn(cmd, S)
    PROVE  Left(cmd, s, n, r) \in Seq(S) /\ Leads(Left(cmd, s, n, r), cmd, Rest(s, n), r)
<1> DEFINE v == Rest(s, n)
           m == [cmd |-> cmd, invs |-> v]
<1>1. v \in Seq(Nat)
  BY RestFacts
<1> HIDE DEF v
<1>2. m \in S /\ m.cmd = cmd /\ m.invs = v
  BY <1>1 DEF ListsIn
<1>3. Left(cmd, s, n, r) = <<m>> \o r
  BY DEF Left, v
<1> HIDE DEF m
<1>4. /\ <<m>> \o r \in Seq(S) /\ Len(<<m>> \o r) = Len(r) + 1 /\ (<<m>> \o r)[1] = m
      /\ \A i \in 1..Len(r) : (<<m>> \o r)[i + 1] = r[i]
  BY <1>2, ConsFacts
<1>5. Leads(<<m>> \o r, cmd, v, r)
  BY <1>2, <1>4 DEF Leads
<1> QED
  BY <1>3, <1>4, <1>5 DEF v

(* Block by block, the list gets shorter. *)
LEMMA LeftShortened ==
    ASSUME NEW S, NEW cmd, NEW s \in Seq(Nat), NEW n \in 1..Len(s), NEW r \in Seq(S),
           ListsIn(cmd, S)
    PROVE  Shortened(Left(cmd, s, n - 1, r), Left(cmd, s, n, r), cmd, s[n])
<1> DEFINE a == Left(cmd, s, n - 1, r)
           b == Left(cmd, s, n, r)
           u == Rest(s, n - 1)
           v == Rest(s, n)
<1>0. Len(s) \in Nat /\ n - 1 \in 0..Len(s) /\ n \in 0..Len(s) /\ Len(r) \in Nat
  OBVIOUS
<1>1. /\ a \in Seq(S) /\ Len(a) = Len(r) + 1 /\ a[1].cmd = cmd /\ a[1].invs = u
      /\ \A i \in 1..Len(r) : a[i + 1] = r[i]
  <2>1. a \in Seq(S) /\ Leads(a, cmd, u, r)
    BY <1>0, LeftFacts
  <2> HIDE DEF a, u
  <2> QED
    BY <2>1 DEF Leads
<1>2. /\ b \in Seq(S) /\ Len(b) = Len(r) + 1 /\ b[1].cmd = cmd /\ b[1].invs = v
      /\ \A i \in 1..Len(r) : b[i + 1] = r[i]
  <2>1. b \in Seq(S) /\ Leads(b, cmd, v, r)
    BY <1>0, LeftFacts
  <2> HIDE DEF b, v
  <2> QED
    BY <2>1 DEF Leads
<1>3. u \in Seq(Nat) /\ Len(u) = Len(s) - (n - 1)
  BY <1>0, RestFacts
<1>4. v \in Seq(Nat) /\ Len(v) = Len(s) - n
  BY <1>0, RestFacts
<1>5. u[1] = s[n] /\ \A i \in 1..Len(v) : v[i] = u[i + 1]
  <2>1. u[1] = s[n]
    <3>1. 1 \in 1..(Len(s) - (n - 1)) /\ (n - 1) + 1 = n
      BY <1>0
    <3> QED
      BY <1>0, <3>1, RestFacts
  <2>2. ASSUME NEW i \in 1..(Len(s) - n) PROVE v[i] = u[i + 1]
    <3>1. i + 1 \in 1..(Len(s) - (n - 1)) /\ (n - 1) + (i + 1) = n + i
      BY <1>0
    <3>2. u[i + 1] = s[(n - 1) + (i + 1)]
      BY <1>0, <3>1, RestFacts
    <3>3. v[i] = s[n + i]
      BY <1>0, RestFacts
    <3> QED
      BY <3>1, <3>2, <3>3
  <2> QED
    BY <1>4, <2>1, <2>2
<1> HIDE DEF a, b, u, v
<1>6. \A i \in 2..Len(a) : b[i] = a[i]
  <2> SUFFICES ASSUME NEW i \in 2..Len(a) PROVE b[i] = a[i]
    OBVIOUS
  <2>1. i - 1 \in 1..Len(r) /\ (i - 1) + 1 = i
    BY <1>0, <1>1
  <2>2. a[(i - 1) + 1] = r[i - 1] /\ b[(i - 1) + 1] = r[i - 1]
    BY <1>1, <1>2, <2>1
  <2> QED
    BY <2>1, <2>2
<1>7. Len(u) = Len(v) + 1 /\ Len(a) >= 1 /\ Len(a) = Len(b)
  BY SMTT(20), <1>0, <1>1, <1>2, <1>3, <1>4
<1>8. Shortened(a, b, cmd, s[n])
  BY <1>1, <1>2, <1>3, <1>4, <1>5, <1>6, <1>7 DEF Shortened
<1> QED
  BY <1>8 DEF a, b

(* It starts as the message and ends empty. *)
LEMMA LeftEnds ==
    ASSUME NEW S, NEW cmd, NEW s \in Seq(Nat), NEW r \in Seq(S),
           ListsIn(cmd, S)
    PROVE  /\ Left(cmd, s, 0, r) = <<[cmd |-> cmd, invs |-> s]>> \o r
           /\ Left(cmd, s, Len(s), r)[1].cmd = cmd
           /\ Left(cmd, s, Len(s), r)[1].invs = << >>
           /\ Dropped(Left(cmd, s, Len(s), r), r)
<1> DEFINE z == Left(cmd, s, Len(s), r)
<1>0. Len(s) \in Nat /\ Len(s) \in 0..Len(s) /\ Len(r) \in Nat
  OBVIOUS
<1>1. Left(cmd, s, 0, r) = <<[cmd |-> cmd, invs |-> s]>> \o r
  <2>1. Rest(s, 0) = s
    <3>1. Len(s) - 0 = Len(s) /\ \A i \in 1..Len(s) : 0 + i = i
      BY <1>0
    <3>2. [i \in 1..(Len(s) - 0) |-> s[0 + i]] = [i \in 1..Len(s) |-> s[i]]
      BY <3>1
    <3>3. s = [i \in 1..Len(s) |-> s[i]]
      OBVIOUS
    <3> QED
      BY <3>2, <3>3 DEF Rest
  <2> QED
    BY <2>1 DEF Left
<1>2. /\ z \in Seq(S) /\ Len(z) = Len(r) + 1 /\ z[1].cmd = cmd
      /\ z[1].invs = Rest(s, Len(s))
      /\ \A i \in 1..Len(r) : z[i + 1] = r[i]
  <2>1. z \in Seq(S) /\ Leads(z, cmd, Rest(s, Len(s)), r)
    BY <1>0, LeftFacts
  <2> HIDE DEF z
  <2> QED
    BY <2>1 DEF Leads
<1>3. Rest(s, Len(s)) = << >>
  <2> DEFINE v == Rest(s, Len(s))
  <2>1. v \in Seq(Nat) /\ Len(v) = Len(s) - Len(s)
    BY <1>0, RestFacts
  <2> HIDE DEF v
  <2>2. v \in Seq(Nat) /\ Len(v) = 0
    BY <1>0, <2>1
  <2>3. v = << >>
    BY <2>2
  <2> QED
    BY <2>3 DEF v
<1>4. Dropped(z, r)
  BY <1>0, <1>2 DEF Dropped
<1> QED
  BY <1>1, <1>2, <1>3, <1>4

(* Messages that wait behind others. *)
LEMMA BehindFacts ==
    ASSUME NEW S, NEW q \in Seq(S), NEW u \in Seq(S), NEW m \in S
    PROVE  /\ q \o u \in Seq(S) /\ q \o << >> = q
           /\ q \o Append(u, m) = Append(q \o u, m)
           /\ q # << >> => q \o u = <<Head(q)>> \o (Tail(q) \o u) /\ Head(q) \in S
                           /\ Tail(q) \o u \in Seq(S)
<1>1. q \o u \in Seq(S) /\ q \o << >> = q
  OBVIOUS
<1>2. q \o Append(u, m) = Append(q \o u, m)
  OBVIOUS
<1>3. ASSUME q # << >>
      PROVE  q \o u = <<Head(q)>> \o (Tail(q) \o u) /\ Head(q) \in S /\ Tail(q) \o u \in Seq(S)
  <2>1. Tail(q) \in Seq(S) /\ Head(q) \in S /\ Tail(q) \o u \in Seq(S)
    BY <1>3
  <2>2. q \o u = <<Head(q)>> \o (Tail(q) \o u)
    BY <1>3
  <2> QED
    BY <2>1, <2>2
<1> QED
  BY <1>1, <1>2, <1>3

----------------------------------------------------------------------------
(* The operations of the client are such steps. *)

IsCaller(c) ==
    IsClient(c) /\ DOMAIN c.asked \subseteq Nat /\ c.last[1] \in Int /\ c.last[2] \in Nat

(* The client of the connection is c, with what it sent, q. *)
At(z, c, q) ==
    /\ SameTree(c, z) /\ SameQueue(c, z)
    /\ z.asked = DOMAIN c.asked /\ z.last = c.last /\ z.up = q \o c.unsent

(* PushGetBlocks() *)
LEMMA PushGetBlocksFacts ==
    ASSUME NEW c, IsCaller(c), NEW s \in Nat, NEW q \in Seq(Requests), NEW z, NEW y,
           At(z, c, q), At(y, PushGetBlocks(c, s), q)
    PROVE  /\ IsCaller(PushGetBlocks(c, s))
           /\ SameTree(z, y) /\ SameQueue(z, y) /\ y.asked = z.asked
           /\ Pushed(z, y, z.best, s)
<1> DEFINE d == PushGetBlocks(c, s)
           l == <<c.best, s>>
           m == GetBlocks(c.best, s)
           u == Append(c.unsent, m)
<1>0. /\ IsClient(c) /\ c.best \in Int /\ c.unsent \in Seq(Requests) /\ m \in Requests
      /\ IsClient(d)
  <2>1. c.best \in Int /\ c.unsent \in Seq(Requests)
    BY DEF IsCaller, IsClient, IsTree
  <2>2. m \in Requests
    BY <2>1, MessageFacts
  <2>3. IsClient(c)
    BY DEF IsCaller
  <2>4. IsClient(d)
    BY <2>3, PushGetBlocksOK
  <2> QED
    BY <2>1, <2>2, <2>3, <2>4
<1>1. CASE c.last = l
  <2>1. d = c
    BY <1>1 DEF PushGetBlocks
  <2> QED
    BY <1>1, <2>1 DEF At, SameTree, SameQueue, Pushed
<1>2. CASE c.last # l
  <2>1. d = [c EXCEPT !.last = l, !.unsent = u]
    BY <1>2 DEF PushGetBlocks
  <2>2. l[1] = c.best /\ l[2] = s
    OBVIOUS
  <2> HIDE DEF d, l, u, m
  <2>3. d = [have |-> c.have, best |-> c.best, orphans |-> c.orphans, ready |-> c.ready,
             later |-> c.later, asked |-> c.asked, last |-> l, unsent |-> u]
    BY <1>0, <2>1 DEF IsClient, IsRecord
  <2>4. SameTree(c, d) /\ SameQueue(c, d) /\ d.asked = c.asked /\ d.last = l /\ d.unsent = u
    BY <2>3 DEF SameTree, SameQueue
  <2>5. IsCaller(d)
    BY <1>0, <2>2, <2>4 DEF IsCaller
  <2>6. At(y, d, q)
    BY DEF d
  <2>7. SameTree(z, y) /\ SameQueue(z, y) /\ y.asked = z.asked /\ z.best = c.best
        /\ z.last = c.last /\ y.last = l /\ z.up = q \o c.unsent /\ y.up = q \o u
    BY <2>4, <2>6 DEF At, SameTree, SameQueue
  <2>8. Added(z.up, y.up, m)
    <3>1. q \o u = Append(q \o c.unsent, m) /\ q \o c.unsent \in Seq(Requests)
      BY <1>0, BehindFacts DEF u
    <3> QED
      BY <1>0, <2>7, <3>1, AppendAdded
  <2>9. Pushed(z, y, z.best, s)
    BY <1>2, <2>7, <2>8 DEF Pushed, l, m
  <2> QED
    BY <2>5, <2>7, <2>9 DEF d
<1> QED
  BY <1>1, <1>2

(* Peer::queue() *)
Queued(z, y, b) ==
    /\ SameTree(z, y) /\ y.asked = z.asked \cup {b} /\ y.last = z.last /\ y.up = z.up
    /\ \/ y.ready = Append(z.ready, b) /\ y.later = z.later
       \/ y.ready = z.ready /\ y.later = Append(z.later, b) /\ b \in z.asked

(* What is queued is due now or waits. *)
LEMMA QueueFacts ==
    ASSUME NEW c, IsCaller(c), NEW b \in Nat, NEW q, NEW z, NEW y,
           At(z, c, q), At(y, Queue(c, b), q)
    PROVE  IsCaller(Queue(c, b)) /\ Queued(z, y, b)
<1> DEFINE due == b \in DOMAIN c.asked => c.asked[b]
           a == [x \in DOMAIN c.asked \cup {b} |-> IF x = b THEN FALSE ELSE c.asked[x]]
           r == IF due THEN Append(c.ready, b) ELSE c.ready
           l == IF due THEN c.later ELSE Append(c.later, b)
           d == Queue(c, b)
<1>0. IsClient(c) /\ IsClient(d)
  <2>1. IsClient(c)
    BY DEF IsCaller
  <2> QED
    BY <2>1, QueueOK
<1>1. DOMAIN a = DOMAIN c.asked \cup {b}
  OBVIOUS
<1>2. d = [c EXCEPT !.asked = a, !.ready = r, !.later = l]
  BY DEF Queue
<1>3. \/ r = Append(c.ready, b) /\ l = c.later
      \/ r = c.ready /\ l = Append(c.later, b) /\ b \in DOMAIN c.asked
  <2>1. CASE due
    BY <2>1
  <2>2. CASE ~due
    <3>1. b \in DOMAIN c.asked
      BY <2>2
    <3> QED
      BY <2>2, <3>1
  <2> QED
    BY <2>1, <2>2
<1> HIDE DEF a, r, l, d
<1>4. d = [have |-> c.have, best |-> c.best, orphans |-> c.orphans, ready |-> r,
           later |-> l, asked |-> a, last |-> c.last, unsent |-> c.unsent]
  BY <1>0, <1>2 DEF IsClient, IsRecord
<1>5. /\ SameTree(c, d) /\ d.ready = r /\ d.later = l /\ d.asked = a /\ d.last = c.last
      /\ d.unsent = c.unsent
  BY <1>4 DEF SameTree
<1>6. IsCaller(d)
  BY <1>0, <1>1, <1>5 DEF IsCaller
<1>7. At(y, d, q)
  BY DEF d
<1>8. /\ SameTree(z, y) /\ y.asked = z.asked \cup {b} /\ y.last = z.last /\ y.up = z.up
      /\ y.ready = r /\ y.later = l /\ z.ready = c.ready /\ z.later = c.later
      /\ z.asked = DOMAIN c.asked
  BY <1>1, <1>5, <1>7 DEF At, SameTree, SameQueue
<1>9. Queued(z, y, b)
  BY <1>3, <1>8 DEF Queued
<1> QED
  BY <1>6, <1>9 DEF d

(* An inventory of the inv message. *)
LEMMA HandleInvStep ==
    ASSUME NEW c, IsCaller(c), NEW b \in Nat, NEW q \in Seq(Requests), NEW z, NEW y,
           At(z, c, q), At(y, HandleInv(c, b), q), SameServer(z, y),
           Shortened(z.down, y.down, "inv", b)
    PROVE  IsCaller(HandleInv(c, b)) /\ ClientStep(z, y)
<1>0. z.orphans = c.orphans /\ z.have = c.have
  BY DEF At, SameTree
<1>1. CASE b \in c.orphans
  <2> DEFINE s == OrphanRoot(c.orphans, b)
  <2>1. s \in Nat
    <3>1. c.orphans \subseteq Positive
      BY DEF IsCaller, IsClient, IsTree
    <3> QED
      BY <1>1, <3>1, OrphanRootFacts
  <2>2. HandleInv(c, b) = PushGetBlocks(c, s)
    BY <1>1 DEF HandleInv
  <2>3. s = OrphanRoot(z.orphans, b)
    BY <1>0
  <2> HIDE DEF s
  <2>4. At(y, PushGetBlocks(c, s), q)
    BY <2>2
  <2>5. /\ IsCaller(PushGetBlocks(c, s))
        /\ SameTree(z, y) /\ SameQueue(z, y) /\ y.asked = z.asked
        /\ Pushed(z, y, z.best, s)
    BY <2>1, <2>4, PushGetBlocksFacts
  <2>6. OrphanInv(z, y, b)
    BY <1>0, <1>1, <2>3, <2>5 DEF OrphanInv
  <2> QED
    BY <2>2, <2>5, <2>6 DEF ClientStep
<1>2. CASE b \notin c.orphans /\ b \in c.have
  <2>1. HandleInv(c, b) = c
    BY <1>2 DEF HandleInv
  <2>2. HeldInv(z, y, b)
    BY <1>0, <1>2, <2>1 DEF HeldInv, At, SameTree, SameQueue
  <2> QED
    BY <2>1, <2>2 DEF ClientStep
<1>3. CASE b \notin c.orphans /\ b \notin c.have
  <2>1. HandleInv(c, b) = Queue(c, b)
    BY <1>3 DEF HandleInv
  <2>2. At(y, Queue(c, b), q)
    BY <2>1
  <2>3. IsCaller(Queue(c, b)) /\ Queued(z, y, b)
    BY <2>2, QueueFacts
  <2>4. NewInv(z, y, b)
    BY <1>0, <1>3, <2>3 DEF NewInv, Queued, Held
  <2> QED
    BY <2>1, <2>3, <2>4 DEF ClientStep
<1> QED
  BY <1>1, <1>2, <1>3

(* dequeue() *)
LEMMA DequeueFacts ==
    ASSUME NEW c, IsCaller(c), NEW b
    PROVE  /\ IsCaller(Dequeue(c, b)) /\ SameTree(c, Dequeue(c, b)) /\ SameQueue(c, Dequeue(c, b))
           /\ DOMAIN Dequeue(c, b).asked = DOMAIN c.asked \ {b}
           /\ Dequeue(c, b).last = c.last /\ Dequeue(c, b).unsent = c.unsent
<1> DEFINE a == [x \in DOMAIN c.asked \ {b} |-> c.asked[x]]
           d == Dequeue(c, b)
<1>0. IsClient(c) /\ IsClient(d)
  <2>1. IsClient(c)
    BY DEF IsCaller
  <2> QED
    BY <2>1, DequeueOK
<1>1. DOMAIN a = DOMAIN c.asked \ {b}
  OBVIOUS
<1>2. d = [c EXCEPT !.asked = a]
  BY DEF Dequeue
<1> HIDE DEF a, d
<1>3. d = [have |-> c.have, best |-> c.best, orphans |-> c.orphans, ready |-> c.ready,
           later |-> c.later, asked |-> a, last |-> c.last, unsent |-> c.unsent]
  BY <1>0, <1>2 DEF IsClient, IsRecord
<1>4. SameTree(c, d) /\ SameQueue(c, d) /\ d.asked = a /\ d.last = c.last /\ d.unsent = c.unsent
  BY <1>3 DEF SameTree, SameQueue
<1>5. IsCaller(d)
  BY <1>0, <1>1, <1>4 DEF IsCaller
<1> QED
  BY <1>1, <1>4, <1>5 DEF d

(* An orphan is kept. *)
LEMMA KeepFacts ==
    ASSUME NEW c, IsCaller(c), NEW b \in Positive, b \notin c.have, Prev(b) \notin c.have,
           NEW o, o = [c EXCEPT !.orphans = c.orphans \cup {b}]
    PROVE  /\ IsCaller(o) /\ o.have = c.have /\ o.best = c.best
           /\ o.orphans = c.orphans \cup {b} /\ SameQueue(c, o)
           /\ o.asked = c.asked /\ o.last = c.last /\ o.unsent = c.unsent
<1> DEFINE g == c.orphans \cup {b}
<1>0. IsClient(c)
  BY DEF IsCaller
<1>1. IsClient(o)
  BY <1>0, OrphanOK
<1>2. o = [c EXCEPT !.orphans = g]
  OBVIOUS
<1> HIDE DEF g
<1>3. o = [have |-> c.have, best |-> c.best, orphans |-> g, ready |-> c.ready,
           later |-> c.later, asked |-> c.asked, last |-> c.last, unsent |-> c.unsent]
  BY <1>0, <1>2 DEF IsClient, IsRecord
<1>4. /\ o.have = c.have /\ o.best = c.best /\ o.orphans = g /\ SameQueue(c, o)
      /\ o.asked = c.asked /\ o.last = c.last /\ o.unsent = c.unsent
  BY <1>3 DEF SameQueue
<1>5. IsCaller(o)
  BY <1>1, <1>4 DEF IsCaller
<1> QED
  BY <1>4, <1>5 DEF g

(* process() *)
LEMMA ProcessFacts ==
    ASSUME NEW c, IsCaller(c), NEW b \in Positive, b - 1 \in c.have
    PROVE  /\ IsCaller(Process(c, b)) /\ SameQueue(c, Process(c, b))
           /\ Process(c, b).asked = c.asked /\ Process(c, b).last = c.last
           /\ Process(c, b).unsent = c.unsent
           /\ \E n \in Nat :
                 /\ n >= b /\ (b + 1)..n \subseteq c.orphans
                 /\ Process(c, b).have = c.have \cup b..n
                 /\ Process(c, b).orphans = c.orphans \ b..n
                 /\ Process(c, b).best = IF Height(n) > Height(c.best) THEN n ELSE c.best
<1> DEFINE o == c.orphans
           new == CHOOSE n \in b..(b + Cardinality(o)) : (b + 1)..n \subseteq o /\ n + 1 \notin o
           h == c.have \cup b..new
           q == c.orphans \ b..new
           top == IF Height(new) > Height(c.best) THEN new ELSE c.best
           d == Process(c, b)
<1>0. IsClient(c) /\ IsClient(d)
  <2>1. IsClient(c)
    BY DEF IsCaller
  <2> QED
    BY <2>1, ProcessOK
<1>1. o \subseteq Positive /\ IsFiniteSet(o) /\ b \in Nat
  BY <1>0 DEF IsClient, IsTree, Positive
<1>2. \E n \in b..(b + Cardinality(o)) : (b + 1)..n \subseteq o /\ n + 1 \notin o
  BY <1>1, RunEnds
<1>3. new \in b..(b + Cardinality(o)) /\ (b + 1)..new \subseteq o
  <2> HIDE DEF o
  <2> QED
    BY <1>2
<1>4. d = [c EXCEPT !.have = h, !.orphans = q, !.best = top]
  BY DEF Process
<1>5. Cardinality(o) \in Nat
  BY <1>1, FS_CardinalityType
<1> HIDE DEF new
<1>6. new \in Nat /\ new >= b
  BY <1>1, <1>3, <1>5
<1> HIDE DEF h, q, top, d, o
<1>8. d = [have |-> h, best |-> top, orphans |-> q, ready |-> c.ready,
           later |-> c.later, asked |-> c.asked, last |-> c.last, unsent |-> c.unsent]
  BY <1>0, <1>4 DEF IsClient, IsRecord
<1>9. /\ d.have = h /\ d.orphans = q /\ d.best = top /\ SameQueue(c, d)
      /\ d.asked = c.asked /\ d.last = c.last /\ d.unsent = c.unsent
  BY <1>8 DEF SameQueue
<1>10. IsCaller(d)
  BY <1>0, <1>9 DEF IsCaller
<1>11. /\ new >= b /\ (b + 1)..new \subseteq c.orphans
       /\ d.have = c.have \cup b..new
       /\ d.orphans = c.orphans \ b..new
       /\ d.best = IF Height(new) > Height(c.best) THEN new ELSE c.best
  BY <1>3, <1>6, <1>9 DEF h, q, top, o
<1> HIDE DEF d
<1>12. \E n \in Nat :
         /\ n >= b /\ (b + 1)..n \subseteq c.orphans
         /\ d.have = c.have \cup b..n
         /\ d.orphans = c.orphans \ b..n
         /\ d.best = IF Height(n) > Height(c.best) THEN n ELSE c.best
  BY <1>6, <1>11
<1> QED
  BY <1>9, <1>10, <1>12 DEF d

(* The block message. *)
LEMMA HandleBlockStep ==
    ASSUME NEW c, IsCaller(c), NEW b \in Nat, NEW q \in Seq(Requests), NEW z, NEW y,
           At(z, c, q), At(y, HandleBlock(c, b), q), SameServer(z, y),
           Dropped(z.down, y.down), z.down[1] = BlockMsg(b)
    PROVE  IsCaller(HandleBlock(c, b)) /\ ClientStep(z, y)
<1>0. /\ z.orphans = c.orphans /\ z.have = c.have /\ z.best = c.best /\ z.ready = c.ready
      /\ z.later = c.later /\ z.asked = DOMAIN c.asked /\ z.last = c.last /\ z.up = q \o c.unsent
  BY DEF At, SameTree, SameQueue
<1>1. CASE b \in c.have \cup c.orphans
  <2>1. HandleBlock(c, b) = c
    BY <1>1 DEF HandleBlock
  <2>2. HeldBlock(z, y, b)
    BY <1>0, <1>1, <2>1 DEF HeldBlock, At, SameTree, SameQueue, Held
  <2> QED
    BY <2>1, <2>2 DEF ClientStep
<1>2. CASE b \notin c.have \cup c.orphans
  <2> DEFINE d == Dequeue(c, b)
  <2>1. b \in Positive /\ Prev(b) = b - 1
    BY <1>2 DEF IsCaller, IsClient, IsTree, Positive, Prev
  <2>2. /\ IsCaller(d) /\ SameTree(c, d) /\ SameQueue(c, d) /\ DOMAIN d.asked = DOMAIN c.asked \ {b}
        /\ d.last = c.last /\ d.unsent = c.unsent
    BY DequeueFacts
  <2> HIDE DEF d
  <2>h. d.have = c.have /\ d.orphans = c.orphans /\ d.best = c.best
    BY <2>2 DEF SameTree
  <2>3. CASE Prev(b) \notin c.have
    <3> DEFINE o == [d EXCEPT !.orphans = d.orphans \cup {b}]
    <3>1. /\ IsCaller(o) /\ o.have = d.have /\ o.best = d.best
          /\ o.orphans = d.orphans \cup {b} /\ SameQueue(d, o)
          /\ o.asked = d.asked /\ o.last = d.last /\ o.unsent = d.unsent
      <4>1. b \notin d.have /\ Prev(b) \notin d.have
        BY <1>2, <2>3, <2>h
      <4> QED
        BY <2>1, <2>2, <4>1, KeepFacts
    <3>2. HandleBlock(c, b) = PushGetBlocks(o, OrphanRoot(o.orphans, b))
      BY <1>2, <2>3 DEF HandleBlock, d
    <3> HIDE DEF o
    <3> DEFINE s == OrphanRoot(o.orphans, b)
               x == [have |-> o.have, best |-> o.best, orphans |-> o.orphans, ready |-> o.ready,
                     later |-> o.later, asked |-> DOMAIN o.asked, last |-> o.last,
                     up |-> q \o o.unsent]
    <3>3. s \in Nat
      BY <2>1, <3>1, OrphanRootFacts DEF IsCaller, IsClient, IsTree
    <3>4. /\ At(x, o, q) /\ x.have = o.have /\ x.best = o.best /\ x.orphans = o.orphans
          /\ x.ready = o.ready /\ x.later = o.later /\ x.asked = DOMAIN o.asked
          /\ x.last = o.last /\ x.up = q \o o.unsent
      BY DEF At, SameTree, SameQueue
    <3> HIDE DEF s, x
    <3>5. At(y, PushGetBlocks(o, s), q)
      BY <3>2 DEF s
    <3>6. /\ IsCaller(PushGetBlocks(o, s))
          /\ SameTree(x, y) /\ SameQueue(x, y) /\ y.asked = x.asked
          /\ Pushed(x, y, x.best, s)
      BY <3>1, <3>3, <3>4, <3>5, PushGetBlocksFacts
    <3>7. /\ y.have = z.have /\ y.best = z.best /\ y.orphans = z.orphans \cup {b}
          /\ SameQueue(z, y) /\ y.asked = z.asked \ {b}
          /\ x.last = z.last /\ x.up = z.up /\ x.best = z.best /\ o.orphans = y.orphans
      BY <1>0, <2>2, <2>h, <3>1, <3>4, <3>6 DEF SameTree, SameQueue
    <3>8. Pushed(z, y, z.best, s)
      BY <3>6, <3>7 DEF Pushed
    <3>9. OrphanBlock(z, y, b)
      BY <1>0, <1>2, <3>7, <3>8 DEF OrphanBlock, Held, s
    <3> QED
      BY <3>2, <3>6, <3>9 DEF ClientStep, s
  <2>4. CASE Prev(b) \in c.have
    <3> DEFINE e == Process(d, b)
    <3>1. HandleBlock(c, b) = e
      BY <1>2, <2>4 DEF HandleBlock, d
    <3>2. b - 1 \in d.have
      BY <2>1, <2>4, <2>h
    <3>3. /\ IsCaller(e) /\ SameQueue(d, e) /\ e.asked = d.asked /\ e.last = d.last
          /\ e.unsent = d.unsent
          /\ \E n \in Nat :
                /\ n >= b /\ (b + 1)..n \subseteq d.orphans
                /\ e.have = d.have \cup b..n
                /\ e.orphans = d.orphans \ b..n
                /\ e.best = IF Height(n) > Height(d.best) THEN n ELSE d.best
      BY <2>1, <2>2, <3>2, ProcessFacts
    <3> HIDE DEF e
    <3>4. PICK n \in Nat :
                /\ n >= b /\ (b + 1)..n \subseteq d.orphans
                /\ e.have = d.have \cup b..n
                /\ e.orphans = d.orphans \ b..n
                /\ e.best = IF Height(n) > Height(d.best) THEN n ELSE d.best
      BY <3>3
    <3>5. /\ y.have = e.have /\ y.best = e.best /\ y.orphans = e.orphans /\ y.ready = e.ready
          /\ y.later = e.later /\ y.asked = DOMAIN e.asked /\ y.last = e.last /\ y.up = q \o e.unsent
      BY <3>1 DEF At, SameTree, SameQueue
    <3>6. /\ y.have = z.have \cup b..n /\ y.orphans = z.orphans \ b..n
          /\ y.best = (IF Height(n) > Height(z.best) THEN n ELSE z.best)
          /\ SameQueue(z, y) /\ y.asked = z.asked \ {b} /\ y.last = z.last /\ y.up = z.up
          /\ (b + 1)..n \subseteq z.orphans
      BY <1>0, <2>2, <2>h, <3>3, <3>4, <3>5 DEF SameQueue
    <3>7. NextBlock(z, y, b, n)
      BY <1>0, <1>2, <3>4, <3>6 DEF NextBlock, Held
    <3> QED
      BY <3>1, <3>3, <3>7 DEF ClientStep
  <2> QED
    BY <2>3, <2>4
<1> QED
  BY <1>1, <1>2

(* The fields of a connection, and what they are. *)
IsLinkOf(z, c, up, down, kn, cont, n, d) ==
    /\ SameTree(c, z) /\ SameQueue(c, z) /\ z.asked = DOMAIN c.asked /\ z.last = c.last
    /\ z.up = up /\ z.down = down
    /\ z.known = kn /\ z.continue = cont /\ z.tip = n /\ z.drops = d

(* The record has these fields. *)
LEMMA LinkFields ==
    ASSUME NEW c, NEW up, NEW down, NEW kn, NEW cont, NEW n, NEW d
    PROVE  IsLinkOf(Link(c, up, down, kn, cont, n, d), c, up, down, kn, cont, n, d)
  BY DEF IsLinkOf, Link, SameTree, SameQueue

(* It is one of a connection. *)
LEMMA IsLinkFacts ==
    ASSUME NEW c, IsCaller(c), NEW up \in Seq(Requests), NEW down \in Seq(Answers),
           NEW kn, kn \subseteq Nat, NEW cont \in Nat, NEW n \in Nat, NEW d \in Nat,
           NEW z, IsLinkOf(z, c, up, down, kn, cont, n, d)
    PROVE  IsLink(z)
<1>1. /\ IsTree(c.have, c.best, c.orphans) /\ c.ready \in Seq(Nat) /\ c.later \in Seq(Nat)
      /\ DOMAIN c.asked \subseteq Nat /\ c.last[1] \in Int /\ c.last[2] \in Nat
  BY DEF IsCaller, IsClient
<1>2. /\ z.have = c.have /\ z.best = c.best /\ z.orphans = c.orphans
      /\ z.ready = c.ready /\ z.later = c.later /\ z.asked = DOMAIN c.asked /\ z.last = c.last
      /\ z.up = up /\ z.down = down /\ z.known = kn /\ z.continue = cont /\ z.tip = n /\ z.drops = d
  BY DEF IsLinkOf, SameTree, SameQueue
<1> QED
  BY <1>1, <1>2 DEF IsLink

(* reply() *)
LEMMA ReplyStep ==
    ASSUME NEW c, IsCaller(c), NEW q \in Seq(Requests), NEW z, NEW y,
           At(z, c, q), At(y, Reply(c), q), SameServer(z, y), y.down = z.down
    PROVE  IsCaller(Reply(c)) /\ ClientStep(z, y)
<1> DEFINE want == Among(c.ready, DOMAIN c.asked)
           e == << >>
           u == IF want = << >> THEN c.unsent ELSE Append(c.unsent, GetData(want))
           d == Reply(c)
<1>0. /\ IsClient(c) /\ IsClient(d) /\ c.unsent \in Seq(Requests) /\ want \in Seq(Nat)
      /\ q \o c.unsent \in Seq(Requests)
  <2>1. IsClient(c)
    BY DEF IsCaller
  <2>2. IsClient(d)
    BY <2>1, ReplyOK
  <2>3. c.unsent \in Seq(Requests) /\ c.ready \in Seq(Nat)
    BY <2>1 DEF IsClient
  <2>4. want \in Seq(Nat)
    BY <2>3, AmongElements
  <2> QED
    BY <2>1, <2>2, <2>3, <2>4
<1>1. d = [c EXCEPT !.ready = e, !.unsent = u]
  BY DEF Reply
<1> HIDE DEF e, u, d
<1>2. d = [have |-> c.have, best |-> c.best, orphans |-> c.orphans, ready |-> e,
           later |-> c.later, asked |-> c.asked, last |-> c.last, unsent |-> u]
  BY <1>0, <1>1 DEF IsClient, IsRecord
<1>3. /\ SameTree(c, d) /\ d.ready = e /\ d.later = c.later /\ d.asked = c.asked
      /\ d.last = c.last /\ d.unsent = u
  BY <1>2 DEF SameTree
<1>4. IsCaller(d)
  BY <1>0, <1>3 DEF IsCaller
<1>5. At(y, d, q)
  BY DEF d
<1>6. /\ SameTree(z, y) /\ y.ready = e /\ y.later = z.later /\ y.asked = z.asked /\ y.last = z.last
      /\ z.ready = c.ready /\ z.asked = DOMAIN c.asked /\ z.up = q \o c.unsent /\ y.up = q \o u
  BY <1>3, <1>5 DEF At, SameTree, SameQueue
<1>7. want = Among(z.ready, z.asked)
  BY <1>6
<1> HIDE DEF want
<1>8. IF want = << >> THEN y.up = z.up ELSE Added(z.up, y.up, GetData(want))
  <2>1. CASE want = << >>
    BY <1>6, <2>1 DEF u
  <2>2. CASE want # << >>
    <3> DEFINE m == GetData(want)
    <3>1. m \in Requests
      BY <1>0, MessageFacts
    <3>2. u = Append(c.unsent, m)
      BY <2>2 DEF u
    <3> HIDE DEF m
    <3>3. q \o u = Append(q \o c.unsent, m)
      BY SMTT(20), <1>0, <3>1, <3>2, BehindFacts
    <3>4. Added(z.up, y.up, m)
      BY <1>0, <1>6, <3>1, <3>3, AppendAdded
    <3> QED
      BY <2>2, <3>4 DEF m
  <2> QED
    BY <2>1, <2>2
<1>9. Replied(z, y, want)
  BY <1>6, <1>7, <1>8 DEF Replied, e
<1> QED
  BY <1>4, <1>9 DEF ClientStep, d

(* The connection of a client that was not flushed. *)
LEMMA CallerLink ==
    ASSUME NEW c, IsCaller(c), NEW q \in Seq(Requests), NEW down \in Seq(Answers),
           NEW kn, kn \subseteq Nat, NEW cont \in Nat, NEW n \in Nat, NEW d \in Nat,
           NEW z, z = Link(c, q \o c.unsent, down, kn, cont, n, d)
    PROVE  /\ IsLink(z) /\ At(z, c, q) /\ z.down = down
           /\ IsLinkOf(z, c, q \o c.unsent, down, kn, cont, n, d)
<1>1. c.unsent \in Seq(Requests)
  BY DEF IsCaller, IsClient
<1>2. q \o c.unsent \in Seq(Requests)
  BY <1>1
<1>3. IsLinkOf(z, c, q \o c.unsent, down, kn, cont, n, d)
  BY LinkFields
<1>4. IsLink(z)
  BY <1>2, <1>3, IsLinkFacts
<1>5. At(z, c, q) /\ z.down = down
  BY <1>3 DEF At, IsLinkOf
<1> QED
  BY <1>3, <1>4, <1>5

(* The inv message. *)
LEMMA HandleInvsLink ==
    ASSUME NEW c, IsCaller(c), NEW invs \in Seq(Nat), NEW q \in Seq(Requests), NEW t \in Seq(Answers),
           NEW kn, kn \subseteq Nat, NEW cont \in Nat, NEW n \in Nat, NEW d \in Nat,
           SoundLink(Link(c, q \o c.unsent, <<Inv(invs)>> \o t, kn, cont, n, d)),
           NEW g, g = HandleInvs(c, invs)
    PROVE  IsCaller(g) /\ SoundLink(Link(g, q \o g.unsent, t, kn, cont, n, d))
<1> DEFINE K(e, down) == Link(e, q \o e.unsent, down, kn, cont, n, d)
           L(i) == Left("inv", invs, i, t)
<1>1. PICK F : /\ F[0] = c /\ HandleInvs(c, invs) = F[Len(invs)]
               /\ \A i \in 1..Len(invs) : F[i] = HandleInv(F[i - 1], invs[i])
  BY HandleInvsSteps
<1>2. ListsIn("inv", Answers)
  BY DEF ListsIn, Answers
<1>3. ASSUME NEW i \in 0..Len(invs) PROVE L(i) \in Seq(Answers)
  BY <1>2, LeftFacts
<1>4. ASSUME NEW i \in 1..Len(invs) PROVE Shortened(L(i - 1), L(i), "inv", invs[i])
  BY <1>2, LeftShortened
<1>5. /\ L(0) = <<Inv(invs)>> \o t
      /\ L(Len(invs))[1].cmd = "inv" /\ L(Len(invs))[1].invs = << >> /\ Dropped(L(Len(invs)), t)
  <2>1. [cmd |-> "inv", invs |-> invs] = Inv(invs)
    BY DEF Inv
  <2> QED
    BY <1>2, <2>1, LeftEnds
<1> HIDE DEF L
<1>6. ASSUME NEW e, IsCaller(e), NEW down \in Seq(Answers)
      PROVE  /\ IsLink(K(e, down)) /\ At(K(e, down), e, q) /\ K(e, down).down = down
             /\ IsLinkOf(K(e, down), e, q \o e.unsent, down, kn, cont, n, d)
  BY <1>6, CallerLink
<1>7. SoundLink(K(c, L(0)))
  BY <1>5
<1> HIDE DEF K
<1>8. Len(invs) \in Nat
  OBVIOUS
<1>9. ASSUME NEW i \in 1..Len(invs), IsCaller(F[i - 1]), SoundLink(K(F[i - 1], L(i - 1)))
      PROVE  IsCaller(F[i]) /\ SoundLink(K(F[i], L(i)))
  <2> DEFINE z == K(F[i - 1], L(i - 1))
             y == K(F[i], L(i))
             e == F[i - 1]
             f == F[i]
             b == invs[i]
  <2>0. i - 1 \in 0..Len(invs) /\ i \in 0..Len(invs) /\ b \in Nat
    BY <1>8
  <2>1. L(i - 1) \in Seq(Answers) /\ L(i) \in Seq(Answers)
    BY <1>3, <2>0
  <2>2. IsCaller(e) /\ SoundLink(z)
    BY <1>9
  <2>3. f = HandleInv(e, b)
    BY <1>1
  <2>4. At(z, e, q) /\ z.down = L(i - 1) /\ IsLinkOf(z, e, q \o e.unsent, L(i - 1), kn, cont, n, d)
    BY <1>6, <2>1, <2>2
  <2>5. IsLinkOf(y, f, q \o f.unsent, L(i), kn, cont, n, d)
    BY LinkFields DEF K
  <2>6. At(y, f, q) /\ y.down = L(i) /\ SameServer(z, y)
    BY <2>4, <2>5 DEF At, IsLinkOf, SameServer
  <2>7. Shortened(z.down, y.down, "inv", b)
    BY <1>4, <2>4, <2>6
  <2> HIDE DEF z, y, e, f, b
  <2>8. At(y, HandleInv(e, b), q)
    BY <2>3, <2>6
  <2>9. IsCaller(HandleInv(e, b)) /\ ClientStep(z, y)
    BY <2>0, <2>2, <2>4, <2>6, <2>7, <2>8, HandleInvStep
  <2>10. IsCaller(f)
    BY <2>3, <2>9
  <2>11. IsLink(y)
    BY <1>6, <2>1, <2>10 DEF y, f
  <2>12. SoundLink(y)
    BY <2>2, <2>9, <2>11, ClientStepLink
  <2> QED
    BY <2>10, <2>12 DEF f, y
<1>10. \A i \in 0..Len(invs) : IsCaller(F[i]) /\ SoundLink(K(F[i], L(i)))
  <2> DEFINE T == {i \in 0..Len(invs) : ~(IsCaller(F[i]) /\ SoundLink(K(F[i], L(i))))}
  <2>1. SUFFICES ASSUME T # {} PROVE FALSE
    OBVIOUS
  <2>2. T \subseteq Nat
    OBVIOUS
  <2>3. PICK i \in T : \A k \in T : i <= k
    <3> HIDE DEF T
    <3> QED
      BY <2>1, <2>2, LeastElement
  <2>4. i # 0
    BY <1>1, <1>7, <2>3
  <2>5. i \in 1..Len(invs) /\ i - 1 \in 0..Len(invs) /\ i - 1 \notin T
    BY <1>8, <2>3, <2>4
  <2>6. IsCaller(F[i - 1]) /\ SoundLink(K(F[i - 1], L(i - 1)))
    BY <2>5
  <2>7. IsCaller(F[i]) /\ SoundLink(K(F[i], L(i)))
    BY <1>9, <2>5, <2>6
  <2> QED
    BY <2>3, <2>7
<1>11. IsCaller(g) /\ SoundLink(K(g, L(Len(invs)))) /\ L(Len(invs)) \in Seq(Answers)
  <2>1. Len(invs) \in 0..Len(invs)
    BY <1>8
  <2> QED
    BY <1>1, <1>3, <1>10, <2>1
<1>12. SoundLink(K(g, t))
  <2> DEFINE z == K(g, L(Len(invs)))
             y == K(g, t)
  <2>1. z.down = L(Len(invs)) /\ IsLinkOf(z, g, q \o g.unsent, L(Len(invs)), kn, cont, n, d)
    BY <1>6, <1>11
  <2>2. y.down = t /\ IsLink(y) /\ IsLinkOf(y, g, q \o g.unsent, t, kn, cont, n, d)
    BY <1>6, <1>11
  <2>3. SoundLink(z)
    BY <1>11
  <2> HIDE DEF z, y
  <2>4. /\ SameTree(z, y) /\ SameQueue(z, y) /\ SameServer(z, y)
        /\ y.asked = z.asked /\ y.last = z.last /\ y.up = z.up
    BY <2>1, <2>2 DEF IsLinkOf, SameTree, SameQueue, SameServer
  <2>5. EmptyInv(z, y)
    BY <1>5, <2>1, <2>2, <2>4 DEF EmptyInv
  <2>6. SoundLink(y)
    BY <2>2, <2>3, <2>5, ClientStepLink DEF ClientStep
  <2> QED
    BY <2>6 DEF y
<1> QED
  BY <1>11, <1>12 DEF K

(* A message that the client handles. *)
LEMMA HandleLink ==
    ASSUME NEW c, IsCaller(c), NEW m \in Answers, NEW q \in Seq(Requests), NEW t \in Seq(Answers),
           NEW kn, kn \subseteq Nat, NEW cont \in Nat, NEW n \in Nat, NEW d \in Nat,
           SoundLink(Link(c, q \o c.unsent, <<m>> \o t, kn, cont, n, d)),
           NEW g, g = Handle(c, m)
    PROVE  IsCaller(g) /\ SoundLink(Link(g, q \o g.unsent, t, kn, cont, n, d))
<1>1. CASE m.cmd = "inv"
  <2>1. m.invs \in Seq(Nat) /\ m = Inv(m.invs) /\ g = HandleInvs(c, m.invs)
    BY <1>1 DEF Answers, Inv, Handle
  <2> DEFINE invs == m.invs
  <2>2. SoundLink(Link(c, q \o c.unsent, <<Inv(invs)>> \o t, kn, cont, n, d))
    BY <2>1
  <2> HIDE DEF invs
  <2>3. invs \in Seq(Nat) /\ g = HandleInvs(c, invs)
    BY <2>1 DEF invs
  <2> QED
    BY <2>2, <2>3, HandleInvsLink
<1>2. CASE m.cmd # "inv"
  <2> DEFINE b == m.block
             down == <<m>> \o t
             z == Link(c, q \o c.unsent, down, kn, cont, n, d)
             y == Link(g, q \o g.unsent, t, kn, cont, n, d)
  <2>1. b \in Nat /\ m = BlockMsg(b) /\ g = HandleBlock(c, b)
    BY <1>2 DEF Answers, BlockMsg, Handle
  <2>2. /\ down \in Seq(Answers) /\ Len(down) = Len(t) + 1 /\ down[1] = m
        /\ \A i \in 1..Len(t) : down[i + 1] = t[i]
    BY ConsFacts
  <2>3. SoundLink(z)
    OBVIOUS
  <2> HIDE DEF down
  <2>z. IsLinkOf(z, c, q \o c.unsent, down, kn, cont, n, d)
    BY LinkFields
  <2> HIDE DEF z
  <2>4. At(z, c, q) /\ z.down = down
    BY <2>z DEF At, IsLinkOf
  <2>5. IsLinkOf(y, g, q \o g.unsent, t, kn, cont, n, d)
    BY LinkFields
  <2> HIDE DEF b
  <2>6. At(y, g, q) /\ y.down = t /\ SameServer(z, y)
    BY <2>z, <2>5 DEF At, IsLinkOf, SameServer
  <2>7. Dropped(z.down, y.down) /\ z.down[1] = BlockMsg(b)
    <3>1. Len(t) \in Nat
      OBVIOUS
    <3>2. Dropped(down, t)
      BY <2>2, <3>1 DEF Dropped
    <3> HIDE DEF y
    <3> QED
      BY <2>1, <2>2, <2>4, <2>6, <3>2
  <2>c. ASSUME IsCaller(g) PROVE IsLink(y)
    BY <2>c, CallerLink
  <2> HIDE DEF y
  <2>8. At(y, HandleBlock(c, b), q)
    BY <2>1, <2>6
  <2>9. IsCaller(HandleBlock(c, b)) /\ ClientStep(z, y)
    BY <2>1, <2>4, <2>6, <2>7, <2>8, HandleBlockStep
  <2>10. IsCaller(g)
    BY <2>1, <2>9
  <2>11. SoundLink(y)
    BY <2>3, <2>9, <2>10, <2>c, ClientStepLink
  <2> QED
    BY <2>10, <2>11 DEF y
<1> QED
  BY <1>1, <1>2

(* A block of a getdata message. *)
LEMMA ServedStep ==
    ASSUME tip \in Nat, NEW x, IsSent(x), NEW b \in Nat, NEW w, w = Serve(x, b),
           NEW c, NEW up0, NEW up1, NEW kn, NEW d, NEW z, NEW y,
           IsLinkOf(z, c, up0, x.msgs, kn, x.continue, tip, d),
           IsLinkOf(y, c, up1, w.msgs, kn, w.continue, tip, d),
           Shortened(up0, up1, "getdata", b)
    PROVE  /\ IsSent(w) /\ (w.continue = x.continue \/ w.continue = None)
           /\ ServedBlock(z, y, b)
<1> DEFINE m == BlockMsg(b)
           i == Inv(<<tip>>)
           one == Append(x.msgs, m)
           two == Append(one, i)
<1>0. m \in Answers /\ i \in Answers /\ x.msgs \in Seq(Answers)
  <2>1. <<tip>> \in Seq(Nat)
    OBVIOUS
  <2> QED
    BY <2>1, MessageFacts DEF IsSent
<1>1. IsSent(w)
  BY ServeOK
<1>2. /\ SameClient(z, y) /\ y.known = z.known /\ y.tip = z.tip /\ y.drops = z.drops
      /\ Shortened(z.up, y.up, "getdata", b)
      /\ z.down = x.msgs /\ y.down = w.msgs /\ z.continue = x.continue /\ y.continue = w.continue
      /\ z.tip = tip
  BY DEF IsLinkOf, SameClient, SameTree, SameQueue
<1>3. Added(x.msgs, one, m) /\ one \in Seq(Answers)
  <2> HIDE DEF m
  <2> QED
    BY <1>0, AppendAdded
<1>4. Added(one, two, i)
  <2> HIDE DEF one, i
  <2> QED
    BY <1>0, <1>3, AppendAdded
<1>5. CASE b = x.continue
  <2> DEFINE none == None
             msgs == x.msgs \o <<m, i>>
  <2>1. w = [msgs |-> msgs, continue |-> none]
    BY <1>5 DEF Serve
  <2>2. msgs = two
    <3> HIDE DEF m, i
    <3> QED
      BY <1>0
  <2> HIDE DEF msgs, none, m, i, one, two
  <2>3. w.msgs = two /\ w.continue = none
    BY <2>1, <2>2
  <2>4. ServedBlock(z, y, b)
    BY <1>2, <1>3, <1>4, <1>5, <2>3 DEF ServedBlock, none, m, i
  <2> QED
    BY <1>1, <2>3, <2>4 DEF none
<1>6. CASE b # x.continue
  <2>1. w = [x EXCEPT !.msgs = one]
    BY <1>6 DEF Serve
  <2> HIDE DEF one, two, m, i
  <2>2. w = [msgs |-> one, continue |-> x.continue]
    BY <2>1 DEF IsSent
  <2>3. w.msgs = one /\ w.continue = x.continue
    BY <2>2
  <2>4. ServedBlock(z, y, b)
    BY <1>2, <1>3, <1>6, <2>3 DEF ServedBlock, m
  <2> QED
    BY <1>1, <2>3, <2>4
<1> QED
  BY <1>5, <1>6

(* What the server has left to answer, and what it sent. *)
Serving(c, up, x, kn, d) == Link(c, up, x.msgs, kn, x.continue, tip, d)

(* That is a connection. *)
LEMMA ServingLink ==
    ASSUME tip \in Nat, NEW c, IsCaller(c), NEW up \in Seq(Requests),
           NEW kn, kn \subseteq Nat, NEW d \in Nat, NEW x, IsSent(x), x.continue \in Nat,
           NEW z, z = Serving(c, up, x, kn, d)
    PROVE  IsLink(z) /\ IsLinkOf(z, c, up, x.msgs, kn, x.continue, tip, d)
<1>1. IsLinkOf(z, c, up, x.msgs, kn, x.continue, tip, d)
  BY LinkFields DEF Serving
<1>2. x.msgs \in Seq(Answers)
  BY DEF IsSent
<1>3. IsLink(z)
  BY <1>1, <1>2, IsLinkFacts
<1> QED
  BY <1>1, <1>3

(* The getdata message. *)
LEMMA ServeAllLink ==
    ASSUME tip \in Nat, NEW c, IsCaller(c), NEW invs \in Seq(Nat), NEW r \in Seq(Requests),
           NEW kn, kn \subseteq Nat, NEW d \in Nat,
           NEW x, IsSent(x), x.continue \in Nat,
           SoundLink(Serving(c, <<GetData(invs)>> \o r, x, kn, d)),
           NEW w, w = ServeAll(x, invs)
    PROVE  IsSent(w) /\ w.continue \in Nat /\ SoundLink(Serving(c, r, w, kn, d))
<1> DEFINE K(v, up) == Serving(c, up, v, kn, d)
           L(i) == Left("getdata", invs, i, r)
           OK(v) == IsSent(v) /\ v.continue \in Nat
<1>1. PICK F : /\ F[0] = x /\ ServeAll(x, invs) = F[Len(invs)]
               /\ \A i \in 1..Len(invs) : F[i] = Serve(F[i - 1], invs[i])
  BY SMTT(20), ServeAllSteps
<1>2. ListsIn("getdata", Requests)
  BY DEF ListsIn, Requests
<1>3. ASSUME NEW i \in 0..Len(invs) PROVE L(i) \in Seq(Requests)
  BY <1>2, LeftFacts
<1>4. ASSUME NEW i \in 1..Len(invs) PROVE Shortened(L(i - 1), L(i), "getdata", invs[i])
  BY <1>2, LeftShortened
<1>5. /\ L(0) = <<GetData(invs)>> \o r
      /\ L(Len(invs))[1].cmd = "getdata" /\ L(Len(invs))[1].invs = << >>
      /\ Dropped(L(Len(invs)), r)
  <2>1. [cmd |-> "getdata", invs |-> invs] = GetData(invs)
    BY DEF GetData
  <2> QED
    BY <1>2, <2>1, LeftEnds
<1> HIDE DEF L
<1>6. ASSUME NEW v, OK(v), NEW up \in Seq(Requests)
      PROVE  IsLink(K(v, up)) /\ IsLinkOf(K(v, up), c, up, v.msgs, kn, v.continue, tip, d)
  BY <1>6, ServingLink
<1>7. SoundLink(K(x, L(0))) /\ OK(x)
  BY <1>5
<1> HIDE DEF K
<1>8. Len(invs) \in Nat
  OBVIOUS
<1>9. ASSUME NEW i \in 1..Len(invs), OK(F[i - 1]), SoundLink(K(F[i - 1], L(i - 1)))
      PROVE  OK(F[i]) /\ SoundLink(K(F[i], L(i)))
  <2> DEFINE z == K(F[i - 1], L(i - 1))
             y == K(F[i], L(i))
             e == F[i - 1]
             f == F[i]
             b == invs[i]
  <2>0. i - 1 \in 0..Len(invs) /\ i \in 0..Len(invs) /\ b \in Nat
    BY <1>8
  <2>1. L(i - 1) \in Seq(Requests) /\ L(i) \in Seq(Requests)
    BY <1>3, <2>0
  <2>2. IsSent(e) /\ e.continue \in Nat /\ SoundLink(z)
    BY <1>9
  <2>3. f = Serve(e, b)
    BY <1>1
  <2>4. IsLinkOf(z, c, L(i - 1), e.msgs, kn, e.continue, tip, d)
    BY <1>6, <2>1, <2>2
  <2>5. IsLinkOf(y, c, L(i), f.msgs, kn, f.continue, tip, d)
    BY LinkFields DEF K, Serving
  <2>7. Shortened(L(i - 1), L(i), "getdata", b)
    BY <1>4
  <2> HIDE DEF z, y, e, f, b
  <2>9. IsSent(f) /\ (f.continue = e.continue \/ f.continue = None) /\ ServedBlock(z, y, b)
    BY <2>0, <2>2, <2>3, <2>4, <2>5, <2>7, ServedStep
  <2>10. OK(f)
    BY <2>2, <2>9 DEF None
  <2>11. IsLink(y)
    BY <1>6, <2>1, <2>10 DEF y, f
  <2>12. SoundLink(y)
    BY <2>0, <2>2, <2>9, <2>11, ServedBlockLink
  <2> QED
    BY <2>10, <2>12 DEF f, y
<1> HIDE DEF OK
<1>10. \A i \in 0..Len(invs) : OK(F[i]) /\ SoundLink(K(F[i], L(i)))
  <2> DEFINE T == {i \in 0..Len(invs) : ~(OK(F[i]) /\ SoundLink(K(F[i], L(i))))}
  <2>1. SUFFICES ASSUME T # {} PROVE FALSE
    OBVIOUS
  <2>2. T \subseteq Nat
    OBVIOUS
  <2>3. PICK i \in T : \A k \in T : i <= k
    <3> HIDE DEF T
    <3> QED
      BY <2>1, <2>2, LeastElement
  <2>4. i # 0
    BY <1>1, <1>7, <2>3
  <2>5. i \in 1..Len(invs) /\ i - 1 \in 0..Len(invs) /\ i - 1 \notin T
    BY <1>8, <2>3, <2>4
  <2>6. OK(F[i - 1]) /\ SoundLink(K(F[i - 1], L(i - 1)))
    BY <2>5
  <2>7. OK(F[i]) /\ SoundLink(K(F[i], L(i)))
    BY <1>9, <2>5, <2>6
  <2> QED
    BY <2>3, <2>7
<1>11. OK(w) /\ SoundLink(K(w, L(Len(invs)))) /\ L(Len(invs)) \in Seq(Requests)
  <2>1. Len(invs) \in 0..Len(invs)
    BY <1>8
  <2> QED
    BY <1>1, <1>3, <1>10, <2>1
<1>12. SoundLink(K(w, r))
  <2> DEFINE z == K(w, L(Len(invs)))
             y == K(w, r)
  <2>1. IsLinkOf(z, c, L(Len(invs)), w.msgs, kn, w.continue, tip, d)
    BY <1>6, <1>11
  <2>2. IsLink(y) /\ IsLinkOf(y, c, r, w.msgs, kn, w.continue, tip, d)
    BY <1>6, <1>11
  <2>3. SoundLink(z)
    BY <1>11
  <2> HIDE DEF z, y
  <2>4. /\ SameClient(z, y) /\ SameServer(z, y) /\ y.down = z.down
        /\ z.up = L(Len(invs)) /\ y.up = r
    BY <2>1, <2>2 DEF IsLinkOf, SameTree, SameQueue, SameClient, SameServer
  <2>5. EmptyData(z, y)
    BY <1>5, <2>4 DEF EmptyData
  <2>6. SoundLink(y)
    BY <2>2, <2>3, <2>5, EmptyDataLink
  <2> QED
    BY <2>6 DEF y
<1> QED
  BY <1>11, <1>12 DEF K, OK

----------------------------------------------------------------------------
(* The actions keep the invariant. *)

Now == Link(Client, toServer \o unsent, toClient, known, continue, tip, drops)

LInv == BInv /\ SoundLink(Now)

(* The fields of the connection are the variables. *)
LEMMA NowFields ==
    /\ /\ Now.have = have /\ Now.best = best /\ Now.orphans = orphans
       /\ Now.ready = ready /\ Now.later = later /\ Now.asked = DOMAIN asked /\ Now.last = last
       /\ Now.up = toServer \o unsent /\ Now.down = toClient
       /\ Now.known = known /\ Now.continue = continue /\ Now.tip = tip /\ Now.drops = drops
    /\ /\ Now'.have = have' /\ Now'.best = best' /\ Now'.orphans = orphans'
       /\ Now'.ready = ready' /\ Now'.later = later' /\ Now'.asked = DOMAIN asked'
       /\ Now'.last = last'
       /\ Now'.up = toServer' \o unsent' /\ Now'.down = toClient'
       /\ Now'.known = known' /\ Now'.continue = continue' /\ Now'.tip = tip'
       /\ Now'.drops = drops'
  BY DEF Now, Link, Client

(* Their types. *)
LEMMA NowFacts ==
    ASSUME BInv, SoundLink(Now)
    PROVE  /\ IsLink(Now) /\ Sound(Now) /\ IsCaller(Client) /\ Client.unsent = unsent
           /\ toServer \in Seq(Requests) /\ toClient \in Seq(Answers) /\ unsent \in Seq(Requests)
           /\ known \subseteq Nat /\ continue \in Nat /\ tip \in Nat /\ drops \in Nat
           /\ DOMAIN asked \subseteq Nat /\ last[1] \in Int /\ last[2] \in Nat /\ best \in Int
<1>1. IsLink(Now) /\ Sound(Now)
  BY DEF SoundLink, Sound
<1>2. /\ known \subseteq Nat /\ continue \in Nat /\ tip \in Nat /\ drops \in Nat
      /\ DOMAIN asked \subseteq Nat /\ last[1] \in Int /\ last[2] \in Nat
  BY <1>1, NowFields DEF IsLink
<1>3. Client.unsent = unsent /\ Client.asked = asked /\ Client.last = last
  BY DEF Client
<1>4. IsCaller(Client)
  BY <1>2, <1>3 DEF IsCaller, BInv
<1>5. unsent \in Seq(Requests) /\ best \in Int
  BY ClientFacts DEF BInv, IsTree
<1> QED
  BY <1>1, <1>2, <1>3, <1>4, <1>5 DEF BInv

(* The next state of a connection. *)
LEMMA NextIsLink ==
    ASSUME BInv', DOMAIN asked' \subseteq Nat, last'[1] \in Int, last'[2] \in Nat,
           known' \subseteq Nat, continue' \in Nat, drops' \in Nat
    PROVE  IsLink(Now')
<1>1. /\ IsTree(have', best', orphans')
      /\ ready' \in Seq(Nat) /\ later' \in Seq(Nat) /\ unsent' \in Seq(Requests)
      /\ toServer' \in Seq(Requests) /\ toClient' \in Seq(Answers) /\ tip' \in Nat
  BY ClientFacts DEF BInv
<1>2. toServer' \o unsent' \in Seq(Requests)
  BY <1>1
<1> QED
  BY <1>1, <1>2, NowFields DEF IsLink

(* The client starts on its fork, with nothing but its first request sent. *)
LEMMA InitLInv == Init => LInv
<1> SUFFICES ASSUME Init PROVE LInv
  OBVIOUS
<1>1. BInv
  BY InitBInv
<1>2. /\ orphans = {} /\ ready = << >> /\ later = << >> /\ asked = << >> /\ last = <<best, None>>
      /\ unsent = << >> /\ known = {} /\ continue = None /\ toServer = <<GetBlocks(best, None)>>
      /\ toClient = << >> /\ drops = 0 /\ tip \in Nat
  BY <1>1 DEF Init, BInv
<1>3. best \in Int /\ GetBlocks(best, None) \in Requests
  BY <1>1, ClientFacts, MessageFacts DEF BInv, IsTree, None
<1>4. toServer \o unsent = <<GetBlocks(best, None)>> /\ toServer \o unsent \in Seq(Requests)
  <2> DEFINE m == GetBlocks(best, None)
  <2> HIDE DEF m
  <2>1. <<m>> \o << >> = <<m>> /\ <<m>> \in Seq(Requests)
    BY <1>3 DEF m
  <2> QED
    BY <1>2, <2>1 DEF m
<1>5. DOMAIN asked = {}
  BY <1>2
<1>6. IsLink(Now)
  <2>1. IsTree(have, best, orphans) /\ ready \in Seq(Nat) /\ later \in Seq(Nat)
    BY <1>1, ClientFacts DEF BInv
  <2>2. last[1] \in Int /\ last[2] \in Nat
    BY <1>2, <1>3 DEF None
  <2> QED
    BY <1>1, <1>2, <1>4, <1>5, <2>1, <2>2, NowFields DEF IsLink, BInv, None
<1>7. Fresh(Now)
  BY <1>2, <1>4, <1>5, NowFields DEF Fresh
<1>8. \A x \in have : x <= 0
  <2>1. PICK fork \in ForkLens : have = {-n : n \in 0..fork}
    BY DEF Init
  <2>2. fork \in Nat
    BY SyncAssumption
  <2> QED
    BY <2>1, <2>2
<1>9. SoundLink(Now)
  BY <1>2, <1>5, <1>6, <1>7, <1>8, FreshLink, NowFields
<1> QED
  BY <1>1, <1>9 DEF LInv

(* The connection after a step of the client. *)
LEMMA SetLink ==
    ASSUME NEW c, IsClient(c), NEW up, SetClient(c), toServer' \o c.unsent = up,
           UNCHANGED <<server, drops>>
    PROVE  Now' = Link(c, up, toClient', known, continue, tip, drops)
<1>1. Client' = c /\ unsent' = c.unsent
  BY DEF SetClient, Client, IsClient, IsRecord
<1>2. known' = known /\ continue' = continue /\ tip' = tip /\ drops' = drops
  BY DEF server
<1>3. Now' = Link(Client', toServer' \o unsent', toClient', known', continue', tip', drops')
  BY DEF Now, Link, Client
<1> QED
  BY <1>1, <1>2, <1>3, Zenon

(* reply() and flush() *)
LEMMA FinishLink ==
    ASSUME NEW c, IsCaller(c), NEW t \in Seq(Answers), toClient' = t,
           toServer \in Seq(Requests), known \subseteq Nat, continue \in Nat, tip \in Nat, drops \in Nat,
           SoundLink(Link(c, toServer \o c.unsent, t, known, continue, tip, drops)),
           Finish(c), UNCHANGED <<server, drops>>
    PROVE  SoundLink(Now')
<1> DEFINE z == Link(c, toServer \o c.unsent, t, known, continue, tip, drops)
           r == Reply(c)
           y == Link(r, toServer \o r.unsent, t, known, continue, tip, drops)
           e == << >>
           d == [r EXCEPT !.unsent = e]
<1>1. At(z, c, toServer) /\ IsLinkOf(z, c, toServer \o c.unsent, t, known, continue, tip, drops)
  <2>1. IsLinkOf(z, c, toServer \o c.unsent, t, known, continue, tip, drops)
    BY LinkFields
  <2> HIDE DEF z
  <2> QED
    BY <2>1 DEF At, IsLinkOf
<1>2. At(y, r, toServer) /\ IsLinkOf(y, r, toServer \o r.unsent, t, known, continue, tip, drops)
  <2>1. IsLinkOf(y, r, toServer \o r.unsent, t, known, continue, tip, drops)
    BY LinkFields
  <2> HIDE DEF y
  <2> QED
    BY <2>1 DEF At, IsLinkOf
<1>3. SoundLink(z)
  OBVIOUS
<1>4. SetClient(d) /\ toServer' = toServer \o r.unsent
  BY DEF Finish
<1>5. d = [r EXCEPT !.unsent = e] /\ e \in Seq(Requests)
  OBVIOUS
<1>y. y = Link(r, toServer \o r.unsent, t, known, continue, tip, drops)
  OBVIOUS
<1> HIDE DEF z, y
<1>6. SameServer(z, y) /\ y.down = z.down
  BY <1>1, <1>2 DEF IsLinkOf, SameServer
<1>7. IsCaller(r) /\ ClientStep(z, y)
  BY <1>1, <1>2, <1>6, ReplyStep
<1>i. IsLink(y)
  <2> DEFINE up == toServer \o r.unsent
  <2> HIDE DEF r
  <2>1. up \in Seq(Requests)
    BY <1>7 DEF IsCaller, IsClient
  <2>2. IsLinkOf(y, r, up, t, known, continue, tip, drops)
    BY <1>2
  <2> HIDE DEF up
  <2> QED
    BY <1>7, <2>1, <2>2, IsLinkFacts
<1>8. SoundLink(y)
  BY <1>3, <1>7, <1>i, ClientStepLink
<1> HIDE DEF r, e, d
<1>9. IsClient(r) /\ r.unsent \in Seq(Requests)
  BY <1>7 DEF IsCaller, IsClient
<1>10. d = [have |-> r.have, best |-> r.best, orphans |-> r.orphans, ready |-> r.ready,
            later |-> r.later, asked |-> r.asked, last |-> r.last, unsent |-> e]
  BY <1>5, <1>9 DEF IsClient, IsRecord
<1>11. /\ d.have = r.have /\ d.best = r.best /\ d.orphans = r.orphans /\ d.ready = r.ready
       /\ d.later = r.later /\ d.asked = r.asked /\ d.last = r.last /\ d.unsent = e
  BY <1>10
<1>12. IsClient(d)
  BY <1>5, <1>9, <1>11, <1>10 DEF IsClient, IsRecord
<1>13. toServer' \o d.unsent = toServer \o r.unsent
  <2>1. toServer \o r.unsent \in Seq(Requests)
    BY <1>9
  <2> QED
    BY <1>4, <1>11, <2>1 DEF e
<1>14. Now' = Link(d, toServer \o r.unsent, t, known, continue, tip, drops)
  BY <1>4, <1>12, <1>13, SetLink
<1>15. Link(d, toServer \o r.unsent, t, known, continue, tip, drops) = y
  BY <1>11, <1>y DEF Link
<1> QED
  BY <1>8, <1>14, <1>15

(* handle_read() *)
LEMMA ReadLink == LInv /\ Read => SoundLink(Now')
<1> SUFFICES ASSUME BInv, SoundLink(Now), Read PROVE SoundLink(Now')
  BY DEF LInv
<1> DEFINE m == Head(toClient)
           t == Tail(toClient)
           c == Handle(Client, m)
<1>1. toClient # << >> /\ toClient' = t /\ UNCHANGED <<server, drops>>
  BY DEF Read
<1>2. m \in Answers /\ t \in Seq(Answers) /\ toClient = <<m>> \o t
  <2>1. toClient \in Seq(Answers)
    BY DEF BInv
  <2> QED
    BY <1>1, <2>1
<1>3. (SetClient(c) /\ toServer' = toServer) \/ Finish(c)
  BY DEF Read
<1> HIDE DEF m, t
<1>4. SoundLink(Link(Client, toServer \o Client.unsent, <<m>> \o t, known, continue, tip, drops))
  BY <1>2, NowFacts DEF Now
<1>5. /\ IsCaller(c)
      /\ SoundLink(Link(c, toServer \o c.unsent, t, known, continue, tip, drops))
  BY <1>2, <1>4, NowFacts, HandleLink
<1> HIDE DEF c
<1>6. CASE SetClient(c) /\ toServer' = toServer
  <2>1. Now' = Link(c, toServer \o c.unsent, t, known, continue, tip, drops)
    BY <1>1, <1>5, <1>6, SetLink DEF IsCaller
  <2> QED
    BY <1>5, <2>1
<1>7. CASE Finish(c)
  BY <1>1, <1>2, <1>5, <1>7, NowFacts, FinishLink
<1> QED
  BY <1>3, <1>6, <1>7

(* A message of another filter. *)
LEMMA ReadOtherLink == LInv /\ ReadOther => SoundLink(Now')
<1> SUFFICES ASSUME BInv, SoundLink(Now), ReadOther PROVE SoundLink(Now')
  BY DEF LInv
<1> DEFINE c == Client
<1>1. Finish(c) /\ toClient' = toClient /\ UNCHANGED <<server, drops>>
  BY DEF ReadOther
<1>2. SoundLink(Link(c, toServer \o c.unsent, toClient, known, continue, tip, drops))
  BY NowFacts DEF Now
<1>3. IsCaller(c)
  BY NowFacts
<1> HIDE DEF c
<1> QED
  BY <1>1, <1>2, <1>3, NowFacts, FinishLink

(* The retry delay passes. *)
LEMMA ElapseLink == LInv /\ Elapse => SoundLink(Now')
<1> SUFFICES ASSUME BInv, SoundLink(Now), Elapse PROVE SoundLink(Now')
  BY DEF LInv
<1>1. /\ ready' = ready \o later /\ later' = << >> /\ asked' = [b \in DOMAIN asked |-> TRUE]
      /\ UNCHANGED <<have, best, orphans, last, unsent, server, toServer, toClient, drops>>
  BY DEF Elapse
<1>2. DOMAIN asked' = DOMAIN asked
  BY <1>1
<1>3. known' = known /\ continue' = continue /\ tip' = tip
  BY <1>1 DEF server
<1>4. BInv'
  BY ElapseInv
<1>5. IsLink(Now')
  BY <1>1, <1>2, <1>3, <1>4, NowFacts, NextIsLink
<1>6. Elapsed(Now, Now')
  BY <1>1, <1>2, <1>3, NowFields DEF Elapsed, SameTree, SameServer
<1>7. ClientStep(Now, Now')
  BY <1>6 DEF ClientStep
<1> QED
  BY <1>5, <1>7, ClientStepLink

(* broadcast() *)
LEMMA BroadcastTold ==
    ASSUME toClient \in Seq(Answers), known \subseteq Nat, NEW invs \in Seq(Nat), Broadcast(invs),
           NEW w, w = Among(invs, Elements(invs) \ known)
    PROVE  Told(Now, Now', w, Elements(invs)) /\ known' \subseteq Nat
<1>1. w \in Seq(Nat) /\ Elements(w) = Elements(invs) \cap (Elements(invs) \ known)
  BY AmongElements
<1>2. Elements(invs) \subseteq Nat
  BY DEF Elements
<1>3. known' = known \cup Elements(w)
  BY DEF Broadcast
<1>4. toClient' = IF w = << >> THEN toClient ELSE Append(toClient, Inv(w))
  BY DEF Broadcast
<1>5. IF w = << >> THEN toClient' = toClient ELSE Added(toClient, toClient', Inv(w))
  <2> DEFINE m == Inv(w)
  <2>1. m \in Answers
    BY <1>1, MessageFacts
  <2> HIDE DEF m
  <2>2. Added(toClient, Append(toClient, m), m)
    BY <2>1, AppendAdded
  <2> QED
    BY <1>4, <2>2 DEF m
<1>6. Elements(w) = Elements(invs) \ known /\ known' = known \cup Elements(invs)
  BY <1>1, <1>3
<1>7. Told(Now, Now', w, Elements(invs))
  BY <1>1, <1>5, <1>6, NowFields DEF Told
<1> QED
  BY <1>2, <1>6, <1>7

(* The blocks of an answer, one after the other. *)
Runs(invs, a, k) == invs = [i \in 1..k |-> a + i]

(* They follow each other from the block that the locator leads to. *)
LEMMA AnswerInOrder ==
    ASSUME NEW f \in Int, NEW k \in Int, NEW invs \in Seq(Nat),
           Runs(invs, Found(f), k),
           NEW w, w = Among(invs, Elements(invs) \ known)
    PROVE  Elements(invs) = (Found(f) + 1)..(Found(f) + k) /\ TellsInOrder(Now, w, f)
<1> DEFINE S == Elements(invs) \ known
           a == Found(f)
<1>0. a \in Nat /\ DOMAIN invs = 1..k /\ Len(invs) \in Nat /\ DOMAIN invs = 1..Len(invs)
  <2>1. Found(f) \in Nat
    BY HeightFacts
  <2>2. DOMAIN invs = 1..k
    BY DEF Runs
  <2>3. Len(invs) \in Nat /\ DOMAIN invs = 1..Len(invs)
    OBVIOUS
  <2> QED
    BY <2>1, <2>2, <2>3
<1>1. ASSUME NEW i \in 1..Len(invs) PROVE invs[i] = a + i /\ i \in 1..k
  BY <1>0 DEF Runs
<1> HIDE DEF a
<1>2. Elements(invs) = (a + 1)..(a + k)
  <2>1. ASSUME NEW x \in Elements(invs) PROVE x \in (a + 1)..(a + k)
    <3>1. PICK i \in DOMAIN invs : x = invs[i]
      BY DEF Elements
    <3>2. i \in 1..Len(invs)
      BY <1>0, <3>1
    <3>3. x = a + i /\ i \in 1..k
      BY <1>1, <3>1, <3>2
    <3> QED
      BY <1>0, <3>3
  <2>2. ASSUME NEW x \in (a + 1)..(a + k) PROVE x \in Elements(invs)
    <3>1. x - a \in 1..k /\ a + (x - a) = x
      BY <1>0
    <3>2. x - a \in 1..Len(invs) /\ x - a \in DOMAIN invs
      BY <1>0, <3>1
    <3> QED
      BY <1>1, <3>1, <3>2 DEF Elements
  <2> QED
    BY <2>1, <2>2
<1>3. IsAmong(w, invs, S, Len(invs))
  BY AmongFacts
<1>e. \A x \in Elements(invs) : x \in S \/ x \in known
  OBVIOUS
<1> HIDE DEF S
<1>4. ASSUME NEW l \in 1..Len(w)
      PROVE  \/ w[l] - 1 = a
             \/ w[l] - 1 \in known
             \/ \E i \in 1..(l - 1) : w[i] = w[l] - 1
  <2>1. PICK i \in 1..Len(invs) :
           /\ w[l] = invs[i]
           /\ \A j \in 1..(i - 1) : invs[j] \in S => \E n \in 1..(l - 1) : w[n] = invs[j]
    BY <1>3 DEF IsAmong
  <2>2. w[l] = a + i
    BY <1>1, <2>1
  <2>3. CASE i = 1
    BY <1>0, <2>2, <2>3
  <2>4. CASE i # 1
    <3>1. i - 1 \in 1..Len(invs) /\ i - 1 \in 1..(i - 1)
      BY <1>0, <2>1, <2>4
    <3>d. i - 1 \in DOMAIN invs
      BY <1>0, <3>1
    <3>2. invs[i - 1] = a + (i - 1)
      BY <1>1, <3>1
    <3>3. invs[i - 1] = w[l] - 1
      BY <1>0, <2>2, <3>2
    <3>4. invs[i - 1] \in Elements(invs)
      BY <3>d DEF Elements
    <3> QED
      BY <1>e, <2>1, <3>1, <3>3, <3>4
  <2> QED
    BY <2>3, <2>4
<1>5. TellsInOrder(Now, w, f)
  BY <1>4, NowFields DEF TellsInOrder, a
<1> QED
  BY <1>2, <1>5 DEF a

(* The getblocks message. *)
LEMMA ServeGetBlocksLink == LInv /\ ServeGetBlocks => SoundLink(Now')
<1> SUFFICES ASSUME BInv, SoundLink(Now), ServeGetBlocks PROVE SoundLink(Now')
  BY DEF LInv
<1> DEFINE m == Head(toServer)
           f == m.from
           s == m.stop
           start == Found(f)
           full == start + Limit + DistanceBack(f)
           end == IF s # None /\ s > start /\ s <= full THEN s - 1
                  ELSE IF full > tip THEN tip ELSE full
           invs == [i \in 1..(end - start) |-> start + i]
           w == Among(invs, Elements(invs) \ known)
<1>1. /\ toServer # << >> /\ m.cmd = "getblocks" /\ Broadcast(invs)
      /\ continue' = IF end = full THEN full ELSE continue
      /\ toServer' = Tail(toServer) /\ UNCHANGED <<tip, client, drops>>
  BY DEF ServeGetBlocks
<1>2. BInv'
  BY ServeGetBlocksInv
<1>3. /\ have' = have /\ best' = best /\ orphans' = orphans /\ ready' = ready /\ later' = later
      /\ asked' = asked /\ last' = last /\ unsent' = unsent
  BY <1>1 DEF client
<1>4. m \in Requests /\ Tail(toServer) \o unsent \in Seq(Requests)
      /\ toServer \o unsent = <<m>> \o (Tail(toServer) \o unsent)
  BY SMTT(20), <1>1, NowFacts, BehindFacts
<1> HIDE DEF m
<1>5. f \in Int /\ s \in Nat /\ m = GetBlocks(f, s)
  BY <1>1, <1>4, MessageFacts
<1>6. start \in Nat /\ full = Full(f) /\ Full(f) \in Nat
  BY <1>5, HeightFacts
<1>7. end = LastTold(Now, f, s)
  BY <1>6, NowFields DEF LastTold
<1>8. end \in Int
  BY <1>5, <1>6, NowFacts
<1> HIDE DEF f, s, full, end
<1>9. invs \in Seq(Nat)
  <2> DEFINE k == end - start
  <2>1. k \in Int
    BY <1>6, <1>8
  <2>2. PICK n \in Nat : 1..k = 1..n
    <3>1. CASE k >= 0
      BY <2>1, <3>1
    <3>2. CASE k < 0
      <4>1. 1..k = 1..0
        BY <2>1, <3>2
      <4> QED
        BY <4>1
    <3> QED
      BY <2>1, <3>1, <3>2
  <2> HIDE DEF k
  <2>3. \A i \in 1..n : start + i \in Nat
    BY <1>6
  <2>4. [i \in 1..k |-> start + i] \in [1..n -> Nat]
    BY <2>2, <2>3
  <2>5. [i \in 1..k |-> start + i] \in Seq(Nat)
    BY <2>4, FunctionIsSequence
  <2> QED
    BY <2>5 DEF k
<1>10. Elements(invs) = (start + 1)..end /\ TellsInOrder(Now, w, f)
  <2> DEFINE k == end - start
  <2>1. k \in Int /\ start + k = end
    BY <1>6, <1>8
  <2>2. Runs(invs, Found(f), k)
    BY DEF Runs
  <2> HIDE DEF k, invs
  <2>3. Elements(invs) = (Found(f) + 1)..(Found(f) + k) /\ TellsInOrder(Now, w, f)
    BY <1>5, <1>9, <2>1, <2>2, AnswerInOrder
  <2> QED
    BY <2>1, <2>3
<1> HIDE DEF invs
<1>11. Told(Now, Now', w, Elements(invs)) /\ known' \subseteq Nat
  BY <1>1, <1>9, NowFacts, BroadcastTold
<1> HIDE DEF w
<1>12. Dropped(Now.up, Now'.up) /\ Now.up[1] = GetBlocks(f, s)
  <2> DEFINE r == Tail(toServer) \o unsent
  <2>1. /\ Len(<<m>> \o r) = Len(r) + 1 /\ (<<m>> \o r)[1] = m
        /\ \A i \in 1..Len(r) : (<<m>> \o r)[i + 1] = r[i]
    <3> HIDE DEF r
    <3> QED
      BY <1>4, ConsFacts DEF r
  <2>2. Now.up = <<m>> \o r /\ Now'.up = r
    BY <1>1, <1>3, <1>4, NowFields
  <2>3. Len(r) \in Nat
    BY <1>4
  <2> HIDE DEF r
  <2>4. Dropped(<<m>> \o r, r)
    BY <2>1, <2>3 DEF Dropped
  <2> QED
    BY <1>5, <2>1, <2>2, <2>4
<1>13. Told(Now, Now', w, (Found(f) + 1)..LastTold(Now, f, s))
  BY <1>7, <1>10, <1>11
<1>14. Now'.continue = IF LastTold(Now, f, s) = Full(f) THEN Full(f) ELSE Now.continue
  BY <1>1, <1>6, <1>7, NowFields
<1>15. SameClient(Now, Now') /\ Now'.tip = Now.tip /\ Now'.drops = Now.drops
  BY <1>1, <1>3, NowFields DEF SameClient, SameTree, SameQueue
<1>16. ServedAsk(Now, Now', f, s, w)
  BY <1>10, <1>12, <1>13, <1>14, <1>15 DEF ServedAsk
<1>17. IsLink(Now')
  <2>1. continue' \in Nat
    BY <1>1, <1>6, NowFacts
  <2> QED
    BY <1>1, <1>2, <1>3, <1>11, <2>1, NowFacts, NextIsLink
<1> QED
  BY <1>5, <1>16, <1>17, ServedAskLink

(* The getdata message. *)
LEMMA ServeGetDataLink == LInv /\ ServeGetData => SoundLink(Now')
<1> SUFFICES ASSUME BInv, SoundLink(Now), ServeGetData PROVE SoundLink(Now')
  BY DEF LInv
<1> DEFINE m == Head(toServer)
           invs == m.invs
           r == Tail(toServer) \o unsent
           x == [msgs |-> toClient, continue |-> continue]
           w == ServeAll(x, invs)
           c == Client
<1>1. /\ toServer # << >> /\ m.cmd = "getdata" /\ toClient' = w.msgs /\ continue' = w.continue
      /\ toServer' = Tail(toServer) /\ UNCHANGED <<tip, known, client, drops>>
  BY DEF ServeGetData
<1>2. m \in Requests /\ r \in Seq(Requests) /\ toServer \o unsent = <<m>> \o r
  BY SMTT(20), <1>1, NowFacts, BehindFacts
<1>3. IsSent(x) /\ x.msgs = toClient /\ x.continue = continue /\ x.continue \in Nat
  BY NowFacts DEF IsSent
<1>4. Client' = c
  BY <1>1 DEF Client, client
<1>5. Now' = Link(Client', toServer' \o unsent', toClient', known', continue', tip', drops')
  BY DEF Now, Link, Client
<1>6. unsent' = unsent
  BY <1>1 DEF client
<1> HIDE DEF m
<1>7. invs \in Seq(Nat) /\ m = GetData(invs)
  BY <1>1, <1>2 DEF Requests, GetData
<1> HIDE DEF invs, x, w, r, c
<1>8. SoundLink(Serving(c, <<GetData(invs)>> \o r, x, known, drops))
  BY <1>2, <1>3, <1>7 DEF Now, Serving, c
<1>9. SoundLink(Serving(c, r, w, known, drops))
  <2>1. IsCaller(c)
    BY NowFacts DEF c
  <2> QED
    BY <1>2, <1>3, <1>7, <1>8, <2>1, NowFacts, ServeAllLink DEF w
<1>10. Now' = Serving(c, r, w, known, drops)
  BY <1>1, <1>4, <1>5, <1>6 DEF Serving, r
<1> QED
  BY <1>9, <1>10

(* The server's chain grows. *)
LEMMA NewBlockLink == LInv /\ NewBlock => SoundLink(Now')
<1> SUFFICES ASSUME BInv, SoundLink(Now), NewBlock PROVE SoundLink(Now')
  BY DEF LInv
<1> DEFINE invs == <<tip + 1>>
           w == Among(invs, Elements(invs) \ known)
<1>1. tip' = tip + 1 /\ Broadcast(invs) /\ UNCHANGED <<continue, client, toServer, drops>>
  BY DEF NewBlock
<1>2. /\ have' = have /\ best' = best /\ orphans' = orphans /\ ready' = ready /\ later' = later
      /\ asked' = asked /\ last' = last /\ unsent' = unsent
  BY <1>1 DEF client
<1>3. invs \in Seq(Nat) /\ Elements(invs) = {tip + 1}
  BY NowFacts DEF Elements
<1> HIDE DEF invs
<1>4. Told(Now, Now', w, Elements(invs)) /\ known' \subseteq Nat
  BY <1>1, <1>3, NowFacts, BroadcastTold
<1> HIDE DEF w
<1>5. Mined(Now, Now', w)
  <2>1. Told(Now, Now', w, {Now.tip + 1})
    BY <1>3, <1>4, NowFields
  <2> QED
    BY <1>1, <1>2, <2>1, NowFields DEF Mined, SameClient, SameTree, SameQueue
<1>6. IsLink(Now')
  <2>1. BInv'
    BY NewBlockInv
  <2> QED
    BY <1>1, <1>2, <1>4, <2>1, NowFacts, NextIsLink
<1> QED
  BY <1>5, <1>6, MinedLink

(* The connection breaks. *)
LEMMA ReconnectLink == LInv /\ Reconnect => SoundLink(Now')
<1> SUFFICES ASSUME BInv, SoundLink(Now), Reconnect PROVE SoundLink(Now')
  BY DEF LInv
<1>1. /\ drops' = drops + 1 /\ ready' = << >> /\ later' = << >> /\ last' = <<best, None>>
      /\ unsent' = << >> /\ known' = {} /\ continue' = None
      /\ toServer' = <<GetBlocks(best, None)>> /\ toClient' = << >>
      /\ UNCHANGED <<have, best, orphans, asked, tip>>
  BY DEF Reconnect
<1>2. GetBlocks(best, None) \in Requests
  BY NowFacts, MessageFacts DEF None
<1>3. toServer' \o unsent' = <<GetBlocks(best, None)>>
  <2> DEFINE m == GetBlocks(best, None)
  <2> HIDE DEF m
  <2>1. <<m>> \o << >> = <<m>>
    BY <1>2 DEF m
  <2> QED
    BY <1>1, <2>1 DEF m
<1>4. IsLink(Now')
  <2>1. BInv'
    BY ReconnectInv
  <2>2. last'[1] \in Int /\ last'[2] \in Nat /\ drops' \in Nat
    BY <1>1, NowFacts DEF None
  <2> QED
    BY <1>1, <2>1, <2>2, NowFacts, NextIsLink DEF None
<1>5. DOMAIN asked \cap (have \cup orphans) = {}
  BY NowFacts, NowFields DEF Sound, AskedNotHeld, Held
<1>6. Fresh(Now')
  BY <1>1, <1>3, <1>5, NowFields DEF Fresh, Held
<1>7. Now'.drops # 0
  BY <1>1, NowFacts, NowFields
<1> QED
  BY <1>4, <1>6, <1>7, FreshLink

(* Blocks that are held from the first one on are in the tree. *)
LEMMA HeldHave ==
    ASSUME NEW z, IsLink(z), NEW t \in Nat, \A x \in 1..t : x \in Held(z)
    PROVE  t \in z.have
<1> DEFINE T == {x \in 0..t : x \notin z.have}
<1>1. 0 \in z.have /\ \A x \in z.orphans : Prev(x) \notin z.have
  BY DEF IsLink, IsTree, Connected
<1> SUFFICES ASSUME t \notin z.have PROVE FALSE
  OBVIOUS
<1>2. T \subseteq Nat /\ T # {}
  <2>1. t \in T
    OBVIOUS
  <2> QED
    BY <2>1
<1>3. PICK x \in T : \A k \in T : x <= k
  <2> HIDE DEF T
  <2> QED
    BY <1>2, LeastElement
<1>4. x \in 1..t /\ x \notin z.have
  BY <1>1, <1>3
<1>5. x \in z.orphans
  BY <1>4 DEF Held
<1>6. x - 1 \in 0..t /\ x - 1 \notin T /\ Prev(x) = x - 1
  BY <1>3, <1>4 DEF Prev
<1> QED
  BY <1>1, <1>5, <1>6

(* Nothing is under way. *)
LEMMA QuietLink ==
    ASSUME NEW z, SoundLink(z),
           z.up = << >>, z.down = << >>, z.ready = << >>, z.later = << >>
    PROVE  z.tip \in z.have \/ (z.drops > 0 /\ z.continue # None /\ z.continue \in z.have)
<1>0. Sound(z) /\ IsLink(z) /\ z.tip \in Nat /\ z.continue \in Nat /\ z.drops \in Nat
  BY DEF SoundLink, Sound, IsLink
<1>1. /\ Len(z.up) = 0 /\ Len(z.down) = 0 /\ 1..0 = {}
      /\ Elements(z.ready) = {} /\ Elements(z.later) = {}
  BY DEF Elements
<1>2. Announced(z) = {} /\ Wanted(z) = {} /\ Requested(z) = {} /\ Coming(z) = {}
  BY <1>1 DEF Announced, Wanted, Requested, Coming, Listed, Sent
<1>3. ~GoodAsked(z) /\ ~TopComes(z) /\ \A c : ~Follows(z, c)
  BY <1>1, <1>2 DEF GoodAsked, TopComes, Follows
<1>4. z.known \subseteq Held(z) /\ Seen(z) = Held(z)
  BY <1>0, <1>2 DEF Sound, KnownUnderWay, Seen
<1>5. CASE ~Gap(z)
  <2>1. \A x \in 1..z.tip : x \in Held(z)
    BY <1>4, <1>5 DEF Gap
  <2> QED
    BY <1>0, <2>1, HeldHave
<1>6. CASE Gap(z) /\ z.drops # 0
  <2>1. z.continue # None
    BY <1>0, <1>3, <1>6 DEF Sound, GapIsClosing
  <2>2. \A x \in 1..z.continue : x \in Held(z)
    BY <1>0, <1>4 DEF Sound, ContinueSeen
  <2> QED
    BY <1>0, <1>6, <2>1, <2>2, HeldHave
<1>7. CASE Gap(z) /\ z.drops = 0
  <2>1. PICK p \in Nat : Regular(z, p)
    BY <1>7 DEF SoundLink, FirstIsRegular
  <2>2. \A x \in 1..p : x \in Held(z)
    BY <1>4, <2>1 DEF Regular, OnlyTops
  <2>3. p \in z.have
    BY <1>0, <2>2, HeldHave
  <2>4. ~AskAbove(z, p)
    BY <1>1 DEF AskAbove
  <2> QED
    BY <1>3, <2>1, <2>3, <2>4 DEF Regular, BatchGoesOn
<1> QED
  BY <1>5, <1>6, <1>7

(* Sequences that are empty together are empty. *)
LEMMA ConcatEmpty ==
    ASSUME NEW S, NEW s \in Seq(S), NEW r \in Seq(S)
    PROVE  s \o r \in Seq(S) /\ (s \o r = << >> => s = << >> /\ r = << >>)
<1>1. s \o r \in Seq(S) /\ Len(s \o r) = Len(s) + Len(r) /\ Len(s) \in Nat /\ Len(r) \in Nat
  OBVIOUS
<1>2. ASSUME s \o r = << >> PROVE s = << >> /\ r = << >>
  <2>1. Len(s) = 0 /\ Len(r) = 0
    BY <1>1, <1>2
  <2> QED
    BY <2>1
<1> QED
  BY <1>1, <1>2

(* The invariant says what a quiet connection is. *)
LEMMA LInvQuiet == LInv => QuietMeansDone
<1> SUFFICES ASSUME BInv, SoundLink(Now), toServer \o toClient \o unsent \o ready \o later = << >>
             PROVE  tip \in have \/ (drops > 0 /\ continue # None /\ continue \in have)
  BY DEF LInv, QuietMeansDone
<1> DEFINE S == Requests \cup Answers \cup Nat
<1>1. /\ toServer \in Seq(Requests) /\ toClient \in Seq(Answers) /\ unsent \in Seq(Requests)
      /\ ready \in Seq(Nat) /\ later \in Seq(Nat)
  BY ClientFacts DEF BInv
<1>2. Requests \subseteq S /\ Answers \subseteq S /\ Nat \subseteq S
  OBVIOUS
<1> HIDE DEF S
<1>3. toServer \in Seq(S) /\ toClient \in Seq(S) /\ unsent \in Seq(S) /\ ready \in Seq(S)
      /\ later \in Seq(S)
  <2>1. ASSUME NEW R, R \subseteq S, NEW s \in Seq(R) PROVE s \in Seq(S)
    BY <2>1
  <2> QED
    BY <1>1, <1>2, <2>1
<1> DEFINE a == toServer \o toClient
           b == a \o unsent
           d == b \o ready
<1>4. a \in Seq(S) /\ (a = << >> => toServer = << >> /\ toClient = << >>)
  BY <1>3, ConcatEmpty
<1>5. d \o later = << >>
  OBVIOUS
<1> HIDE DEF a
<1>6. b \in Seq(S) /\ (b = << >> => a = << >> /\ unsent = << >>)
  BY <1>3, <1>4, ConcatEmpty
<1> HIDE DEF b
<1>7. d \in Seq(S) /\ (d = << >> => b = << >> /\ ready = << >>)
  BY <1>3, <1>6, ConcatEmpty
<1> HIDE DEF d
<1>8. d = << >> /\ later = << >>
  BY <1>3, <1>5, <1>7, ConcatEmpty
<1>9. toServer = << >> /\ toClient = << >> /\ unsent = << >> /\ ready = << >> /\ later = << >>
  BY <1>4, <1>6, <1>7, <1>8
<1>10. toServer \o unsent = << >>
  BY <1>9
<1> QED
  BY <1>9, <1>10, NowFields, QuietLink

(* Whatever the lengths of the chains, of a batch and of the delays, in     *)
(* whatever order blocks, inventories and requests meet, and however often  *)
(* the connection breaks: when nothing is queued, sent or under way any     *)
(* more, the client has the server's best block.  PushGetBlocks() may leave *)
(* out a request, and dequeue() one that was promised, but never the last   *)
(* that would have made the server go on.  The exception is a connection    *)
(* after the first whose batch ends in a block that the client holds        *)
(* already: it is not requested, and the server waits for the request.      *)
THEOREM QuietIsDone == Spec => []QuietMeansDone
<1>1. LInv /\ [Next]_vars => LInv'
  <2> SUFFICES ASSUME LInv, [Next]_vars PROVE LInv'
    OBVIOUS
  <2>1. CASE Next
    <3>1. BInv'
      BY <2>1, ReadInv, ReadOtherInv, ElapseInv, ServeGetBlocksInv, ServeGetDataInv,
         NewBlockInv, ReconnectInv DEF Next, LInv
    <3>2. SoundLink(Now')
      BY <2>1, ReadLink, ReadOtherLink, ElapseLink, ServeGetBlocksLink, ServeGetDataLink,
         NewBlockLink, ReconnectLink DEF Next
    <3> QED
      BY <3>1, <3>2 DEF LInv
  <2>2. CASE UNCHANGED vars
    <3>1. BInv'
      BY <2>2, ClientFacts DEF vars, client, server, BInv, LInv
    <3>2. Now' = Now
      BY <2>2 DEF vars, client, server, Now, Client, Link
    <3> QED
      BY <3>1, <3>2 DEF LInv
  <2> QED
    BY <2>1, <2>2
<1>2. Init => LInv
  BY InitLInv
<1>3. LInv => QuietMeansDone
  BY LInvQuiet
<1> QED
  BY <1>1, <1>2, <1>3, PTL DEF Spec
==============================================================================
