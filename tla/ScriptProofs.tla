---------------------------- MODULE ScriptProofs ----------------------------
(***************************************************************************)
(* What the evaluation of scripts promises, for every stack, every number   *)
(* of instructions and every limit that has room for the standard scripts.  *)
(***************************************************************************)
EXTENDS Script, NaturalsInduction, WellFoundedInduction, TLAPS

----------------------------------------------------------------------------
(* The loop of CHECKMULTISIG *)

(* Every nonempty set of natural numbers has a least element. *)
LEMMA LeastElement ==
    ASSUME NEW T, T \subseteq Nat, T # {}
    PROVE  \E x \in T : \A y \in T : x <= y
<1>1. IsWellFoundedOn(OpToRel(<, Nat), Nat)
  BY NatLessThanWellFounded
<1>2. PICK x \in T : \A y \in T : ~(<<y, x>> \in OpToRel(<, Nat))
  BY <1>1, WFMin
<1>3. ASSUME NEW y \in T PROVE x <= y
  <2>1. ~(y < x)
    BY <1>2 DEF OpToRel
  <2> QED
    BY <2>1
<1> QED
  BY <1>3

(* The count m of matches over K keys, for S signatures of which fit(i, j)  *)
(* says that the i-th is by the j-th key.                                   *)
IsCount(m, K, S, fit) ==
    /\ m[0] = 0
    /\ \A j \in 1 .. K :
           m[j] = IF m[j - 1] < S /\ <<m[j - 1] + 1, j>> \in fit THEN m[j - 1] + 1 ELSE m[j - 1]

(* What the recursive function of Matched satisfies. *)
LEMMA MatchedDef ==
    ASSUME NEW keys, NEW sigs, NEW code, Len(keys) \in Nat, Len(sigs) \in Nat
    PROVE  LET m == Matched(keys, sigs, code) IN
           /\ m[0] = 0
           /\ \A j \in 1 .. Len(keys) :
                  m[j] = IF m[j - 1] < Len(sigs) /\ checkSig(sigs[m[j - 1] + 1], keys[j], code)
                         THEN m[j - 1] + 1 ELSE m[j - 1]
<1> DEFINE D == 0 .. Len(keys)
           Step(f, i) == IF i = 0 THEN 0
                         ELSE IF f[i - 1] < Len(sigs) /\ checkSig(sigs[f[i - 1] + 1], keys[i], code)
                         THEN f[i - 1] + 1 ELSE f[i - 1]
           Defined(n) == \E f : f = [i \in 0 .. n |-> Step(f, i)]
<1>1. ASSUME NEW n \in Nat, n > 0 => Defined(n - 1)
      PROVE  Defined(n)
  <2>1. CASE n = 0
    <3> DEFINE f == [i \in 0 .. n |-> 0]
    <3>1. f = [i \in 0 .. n |-> Step(f, i)]
      BY <2>1
    <3> QED
      BY <3>1
  <2>2. CASE n > 0
    <3>1. PICK f : f = [i \in 0 .. n - 1 |-> Step(f, i)]
      BY <1>1, <2>2
    <3> DEFINE g == [i \in 0 .. n |-> Step(f, i)]
    <3>2. ASSUME NEW i \in 0 .. n, i # 0
          PROVE  g[i - 1] = f[i - 1]
      <4>1. i - 1 \in 0 .. n - 1 /\ i - 1 \in 0 .. n
        BY <3>2
      <4> QED
        BY <3>1, <4>1
    <3>3. g = [i \in 0 .. n |-> Step(g, i)]
      BY <3>2
    <3> QED
      BY <3>3
  <2> HIDE DEF Defined
  <2> QED
    BY <2>1, <2>2
<1>2. \A n \in Nat : Defined(n)
  <2> DEFINE T == {n \in Nat : ~Defined(n)}
  <2> HIDE DEF Defined
  <2>1. SUFFICES ASSUME T # {} PROVE FALSE
    OBVIOUS
  <2>2. PICK n \in T : \A k \in T : n <= k
    BY <2>1, LeastElement
  <2>3. n > 0 => Defined(n - 1)
    BY <2>2
  <2> QED
    BY <1>1, <2>2, <2>3
<1>3. \E f : f = [i \in D |-> Step(f, i)]
  BY <1>2, ZenonT(60)
<1>4. Matched(keys, sigs, code) = [i \in D |-> Step(Matched(keys, sigs, code), i)]
  BY <1>3 DEF Matched
<1> DEFINE m == Matched(keys, sigs, code)
<1>5. ASSUME NEW i \in D PROVE m[i] = Step(m, i)
  BY <1>4
<1> HIDE DEF m
<1>6. m[0] = 0
  BY <1>5
<1>7. ASSUME NEW j \in 1 .. Len(keys)
      PROVE  m[j] = IF m[j - 1] < Len(sigs) /\ checkSig(sigs[m[j - 1] + 1], keys[j], code)
                    THEN m[j - 1] + 1 ELSE m[j - 1]
  BY <1>5
<1> QED
  BY <1>6, <1>7 DEF m

(* The count never falls, grows by at most one and stays within S. *)
LEMMA CountFacts ==
    ASSUME NEW m, NEW K \in Nat, NEW S \in Nat, NEW fit, IsCount(m, K, S, fit)
    PROVE  /\ \A j \in 0 .. K : m[j] \in 0 .. S
           /\ \A i, j \in 0 .. K : i <= j => m[i] <= m[j]
<1>1. ASSUME NEW j \in 0 .. K PROVE m[j] \in 0 .. S
  <2> DEFINE T == {i \in 0 .. K : m[i] \notin 0 .. S}
  <2>1. SUFFICES ASSUME T # {} PROVE FALSE
    OBVIOUS
  <2>2. PICK i \in T : \A k \in T : i <= k
    <3>1. T \subseteq Nat
      OBVIOUS
    <3> HIDE DEF T
    <3> QED
      BY <2>1, <3>1, LeastElement
  <2>3. i # 0
    BY <2>2 DEF IsCount
  <2>4. i - 1 \in 0 .. K /\ i \in 1 .. K /\ i - 1 \notin T
    BY <2>2, <2>3
  <2>5. m[i - 1] \in 0 .. S
    BY <2>4
  <2>6. m[i] = m[i - 1] \/ (m[i - 1] < S /\ m[i] = m[i - 1] + 1)
    BY <2>4 DEF IsCount
  <2> QED
    BY <2>2, <2>5, <2>6
<1>2. ASSUME NEW j \in 0 .. K, NEW i \in 0 .. K, i <= j PROVE m[i] <= m[j]
  <2> DEFINE T == {k \in 0 .. K : i <= k /\ ~(m[i] <= m[k])}
  <2>1. SUFFICES ASSUME T # {} PROVE FALSE
    BY <1>2
  <2>2. PICK k \in T : \A l \in T : k <= l
    <3>1. T \subseteq Nat
      OBVIOUS
    <3> HIDE DEF T
    <3> QED
      BY <2>1, <3>1, LeastElement
  <2>3. k # i
    BY <1>1, <2>2
  <2>4. k - 1 \in 0 .. K /\ k \in 1 .. K /\ i <= k - 1 /\ k - 1 \notin T
    BY <2>2, <2>3
  <2>5. m[k] >= m[k - 1] /\ m[k - 1] >= m[i]
    <3>1. m[k - 1] \in Nat /\ m[i] \in Nat
      BY <1>1, <2>4
    <3>2. m[k] = m[k - 1] \/ m[k] = m[k - 1] + 1
      BY <2>4 DEF IsCount
    <3> QED
      BY <2>4, <3>1, <3>2
  <2> QED
    BY <1>1, <2>2, <2>4, <2>5
<1> QED
  BY <1>1, <1>2

(* There is an order-preserving choice of a fitting key for each signature. *)
HasMatching(K, S, fit) ==
    \E f \in [1 .. S -> 1 .. K] :
        /\ \A i, j \in 1 .. S : i < j => f[i] < f[j]
        /\ \A i \in 1 .. S : <<i, f[i]>> \in fit

(* One pass finds a matching if it counts all signatures: each is matched   *)
(* by the key at which the count reached it.                                *)
LEMMA CountGivesMatching ==
    ASSUME NEW m, NEW K \in Nat, NEW S \in Nat, NEW fit, IsCount(m, K, S, fit), m[K] = S
    PROVE  HasMatching(K, S, fit)
<1>1. /\ \A j \in 0 .. K : m[j] \in 0 .. S
      /\ \A i, j \in 0 .. K : i <= j => m[i] <= m[j]
  BY CountFacts
<1> DEFINE Reached(i) == {j \in 0 .. K : m[j] >= i}
           f == [i \in 1 .. S |-> CHOOSE j \in Reached(i) : \A k \in Reached(i) : j <= k]
<1>2. ASSUME NEW i \in 1 .. S
      PROVE  /\ f[i] \in Reached(i) /\ \A k \in Reached(i) : f[i] <= k
             /\ f[i] \in 1 .. K /\ m[f[i] - 1] = i - 1 /\ m[f[i]] = i
             /\ <<i, f[i]>> \in fit
  <2>1. K \in Reached(i) /\ Reached(i) \subseteq Nat
    OBVIOUS
  <2>2. \E j \in Reached(i) : \A k \in Reached(i) : j <= k
    <3> HIDE DEF Reached
    <3> QED
      BY <2>1, LeastElement
  <2>3. f[i] \in Reached(i) /\ \A k \in Reached(i) : f[i] <= k
    BY <2>2
  <2> HIDE DEF f
  <2>4. f[i] # 0
    BY <2>3 DEF IsCount
  <2>5. f[i] \in 1 .. K /\ f[i] - 1 \in 0 .. K /\ f[i] - 1 \notin Reached(i)
    BY <2>3, <2>4
  <2>6. m[f[i] - 1] \in Nat /\ m[f[i]] \in Nat /\ m[f[i] - 1] < i /\ m[f[i]] >= i
    BY <1>1, <2>3, <2>5
  <2>7. m[f[i]] = m[f[i] - 1] + 1 /\ <<m[f[i] - 1] + 1, f[i]>> \in fit
    BY <2>5, <2>6 DEF IsCount
  <2>8. m[f[i] - 1] = i - 1 /\ m[f[i]] = i /\ m[f[i] - 1] + 1 = i
    BY <2>6, <2>7
  <2> QED
    BY <2>3, <2>5, <2>7, <2>8
<1>3. f = [i \in 1 .. S |-> f[i]]
  OBVIOUS
<1> HIDE DEF f
<1>4. f \in [1 .. S -> 1 .. K]
  BY <1>2, <1>3
<1>5. ASSUME NEW i \in 1 .. S, NEW j \in 1 .. S, i < j PROVE f[i] < f[j]
  <2>1. m[f[i]] = i /\ m[f[j]] = j /\ f[i] \in 0 .. K /\ f[j] \in 0 .. K
    BY <1>2
  <2>2. ~(f[j] <= f[i])
    BY <1>1, <1>5, <2>1
  <2> QED
    BY <2>1, <2>2
<1> QED
  BY <1>2, <1>4, <1>5 DEF HasMatching

(* And if there is a matching the pass counts all signatures: after the key *)
(* that a signature is matched by, it has been counted.                     *)
LEMMA MatchingIsCounted ==
    ASSUME NEW m, NEW K \in Nat, NEW S \in Nat, NEW fit, IsCount(m, K, S, fit),
           HasMatching(K, S, fit)
    PROVE  m[K] = S
<1>1. /\ \A j \in 0 .. K : m[j] \in 0 .. S
      /\ \A i, j \in 0 .. K : i <= j => m[i] <= m[j]
  BY CountFacts
<1>2. PICK f \in [1 .. S -> 1 .. K] :
        /\ \A i, j \in 1 .. S : i < j => f[i] < f[j]
        /\ \A i \in 1 .. S : <<i, f[i]>> \in fit
  BY DEF HasMatching
<1> DEFINE T == {i \in 1 .. S : m[f[i]] < i}
<1>3. T = {}
  <2>1. SUFFICES ASSUME T # {} PROVE FALSE
    OBVIOUS
  <2>2. PICK i \in T : \A k \in T : i <= k
    <3>1. T \subseteq Nat
      OBVIOUS
    <3> HIDE DEF T
    <3> QED
      BY <2>1, <3>1, LeastElement
  <2>3. i \in 1 .. S /\ f[i] \in 1 .. K /\ m[f[i]] < i /\ m[f[i]] \in 0 .. S /\ m[f[i] - 1] \in 0 .. S
    BY <1>1, <2>2
  <2>4. m[f[i] - 1] >= i - 1
    <3>1. CASE i = 1
      BY <2>3, <3>1
    <3>2. CASE i # 1
      <4>1. i - 1 \in 1 .. S /\ i - 1 \notin T
        BY <2>2, <3>2
      <4>2. f[i - 1] \in 1 .. K /\ f[i - 1] < f[i] /\ m[f[i - 1]] >= i - 1
        BY <1>1, <1>2, <2>3, <4>1
      <4>3. f[i - 1] \in 0 .. K /\ f[i] - 1 \in 0 .. K /\ f[i - 1] <= f[i] - 1
        BY <2>3, <4>2
      <4>4. m[f[i - 1]] <= m[f[i] - 1]
        BY <1>1, <4>3
      <4> QED
        BY <1>1, <2>3, <4>2, <4>3, <4>4
    <3> QED
      BY <3>1, <3>2
  <2>5. m[f[i] - 1] <= m[f[i]]
    BY <1>1, <2>3
  <2>6. m[f[i] - 1] = i - 1 /\ m[f[i]] = i - 1
    BY <2>3, <2>4, <2>5
  <2>7. m[f[i] - 1] < S /\ <<m[f[i] - 1] + 1, f[i]>> \in fit
    <3>1. m[f[i] - 1] + 1 = i
      BY <2>3, <2>6
    <3> QED
      BY <1>2, <2>3, <2>6, <3>1
  <2> QED
    BY <2>3, <2>6, <2>7 DEF IsCount
<1>4. m[K] \in 0 .. S
  BY <1>1
<1>5. S > 0 => m[K] >= S
  <2>1. SUFFICES ASSUME S > 0 PROVE m[K] >= S
    OBVIOUS
  <2>2. S \in 1 .. S /\ f[S] \in 1 .. K /\ ~(m[f[S]] < S)
    BY <1>2, <1>3, <2>1
  <2>3. f[S] \in 0 .. K /\ K \in 0 .. K /\ f[S] <= K
    BY <2>2
  <2>4. m[f[S]] \in 0 .. S /\ m[f[S]] <= m[K]
    BY <1>1, <2>3
  <2> QED
    BY <1>4, <2>2, <2>4
<1> QED
  BY <1>4, <1>5

(* The one pass over the keys succeeds exactly if there is a matching. *)
LEMMA SignedIffMatching ==
    ASSUME NEW keys, NEW sigs, NEW code, Len(keys) \in Nat, Len(sigs) \in Nat
    PROVE  Signed(keys, sigs, code) <=>
             \E f \in [1 .. Len(sigs) -> 1 .. Len(keys)] :
                /\ \A i, j \in 1 .. Len(sigs) : i < j => f[i] < f[j]
                /\ \A i \in 1 .. Len(sigs) : checkSig(sigs[i], keys[f[i]], code)
<1> DEFINE K == Len(keys)
           S == Len(sigs)
           fit == {p \in (1 .. S) \X (1 .. K) : checkSig(sigs[p[1]], keys[p[2]], code)}
           m == Matched(keys, sigs, code)
<1>1. \A i \in 1 .. S, j \in 1 .. K : <<i, j>> \in fit <=> checkSig(sigs[i], keys[j], code)
  OBVIOUS
<1>2. /\ m[0] = 0
      /\ \A j \in 1 .. K :
             m[j] = IF m[j - 1] < S /\ checkSig(sigs[m[j - 1] + 1], keys[j], code)
                    THEN m[j - 1] + 1 ELSE m[j - 1]
  BY MatchedDef
<1> HIDE DEF fit, m
<1>3. \A j \in 0 .. K : m[j] \in Nat
  <2> DEFINE T == {j \in 0 .. K : m[j] \notin Nat}
  <2>1. SUFFICES ASSUME T # {} PROVE FALSE
    OBVIOUS
  <2>2. PICK i \in T : \A k \in T : i <= k
    <3>1. T \subseteq Nat
      OBVIOUS
    <3> HIDE DEF T
    <3> QED
      BY <2>1, <3>1, LeastElement
  <2>3. i # 0
    BY <1>2, <2>2
  <2>4. i - 1 \in 0 .. K /\ i \in 1 .. K /\ i - 1 \notin T
    BY <2>2, <2>3
  <2> QED
    BY <1>2, <2>2, <2>4
<1>4. IsCount(m, K, S, fit)
  <2>1. ASSUME NEW j \in 1 .. K
        PROVE  m[j] = IF m[j - 1] < S /\ <<m[j - 1] + 1, j>> \in fit
                      THEN m[j - 1] + 1 ELSE m[j - 1]
    <3>1. j - 1 \in 0 .. K /\ m[j - 1] \in Nat
      BY <1>3
    <3>2. CASE m[j - 1] < S
      <4>1. m[j - 1] + 1 \in 1 .. S
        BY <3>1, <3>2
      <4> QED
        BY <1>1, <1>2, <4>1
    <3>3. CASE ~(m[j - 1] < S)
      BY <1>2, <3>3
    <3> QED
      BY <3>2, <3>3
  <2> QED
    BY <1>2, <2>1 DEF IsCount
<1>5. Signed(keys, sigs, code) <=> m[K] = S
  BY DEF Signed, m
<1>6. m[K] = S <=> HasMatching(K, S, fit)
  BY <1>4, CountGivesMatching, MatchingIsCounted
<1>7. HasMatching(K, S, fit) <=>
             \E f \in [1 .. S -> 1 .. K] :
                /\ \A i, j \in 1 .. S : i < j => f[i] < f[j]
                /\ \A i \in 1 .. S : checkSig(sigs[i], keys[f[i]], code)
  BY <1>1 DEF HasMatching
<1> QED
  BY <1>5, <1>6, <1>7

----------------------------------------------------------------------------
(* Stacks *)

(* A stack is a sequence of values. *)
LEMMA StackIntro ==
    ASSUME NEW V, NEW s \in Seq(V), \A v \in V : IsValue(v)
    PROVE  IsStack(s)
<1>1. \A i \in DOMAIN s : s[i] \in V
  OBVIOUS
<1>2. s = [i \in 1 .. Len(s) |-> s[i]] /\ Len(s) \in Nat /\ DOMAIN s = 1 .. Len(s)
  OBVIOUS
<1>3. \A v \in Range(s) : v \in V
  BY <1>1 DEF Range
<1>4. \A i \in 1 .. Len(s) : s[i] \in Range(s)
  BY <1>2 DEF Range
<1> QED
  BY <1>2, <1>3, <1>4 DEF IsStack

LEMMA StackElim ==
    ASSUME NEW s, IsStack(s)
    PROVE  /\ s \in Seq(Range(s))
           /\ \A v \in Range(s) : IsValue(v)
           /\ Len(s) \in Nat /\ DOMAIN s = 1 .. Len(s)
           /\ \A i \in 1 .. Len(s) : IsValue(s[i])
<1>1. s \in Seq(Range(s)) /\ \A v \in Range(s) : IsValue(v)
  BY DEF IsStack
<1>2. Len(s) \in Nat /\ DOMAIN s = 1 .. Len(s)
  BY <1>1
<1>3. \A i \in 1 .. Len(s) : s[i] \in Range(s)
  BY <1>1, <1>2
<1> QED
  BY <1>1, <1>2, <1>3

LEMMA EmptyStack == IsStack(<< >>)
<1> DEFINE V == {K1}
<1>1. << >> \in Seq(V) /\ \A v \in V : IsValue(v)
  BY DEF IsValue, K1
<1> HIDE DEF V
<1> QED
  BY <1>1, StackIntro

(* r is p followed by q. *)
IsConcat(r, p, q) ==
    /\ Len(r) = Len(p) + Len(q)
    /\ \A i \in 1 .. Len(p) : r[i] = p[i]
    /\ \A i \in 1 .. Len(q) : r[Len(p) + i] = q[i]

LEMMA ConcatFacts ==
    ASSUME NEW V, NEW p \in Seq(V), NEW q \in Seq(V)
    PROVE  p \o q \in Seq(V) /\ IsConcat(p \o q, p, q)
BY DEF IsConcat

(* r is s without its n last values. *)
IsBelow(r, s, n) ==
    /\ Len(r) = Len(s) - n
    /\ \A i \in 1 .. Len(s) - n : r[i] = s[i]

LEMMA BelowFacts ==
    ASSUME NEW V, NEW s \in Seq(V), NEW n \in 0 .. Len(s)
    PROVE  Below(s, n) \in Seq(V) /\ IsBelow(Below(s, n), s, n)
BY DEF Below, IsBelow

LEMMA AppendStack ==
    ASSUME NEW s, IsStack(s), NEW v, IsValue(v)
    PROVE  IsStack(Append(s, v)) /\ Len(Append(s, v)) = Len(s) + 1
<1> DEFINE V == Range(s) \cup {v}
<1>1. s \in Seq(Range(s)) /\ \A w \in V : IsValue(w)
  BY StackElim
<1>2. s \in Seq(V) /\ v \in V
  BY <1>1
<1> HIDE DEF V
<1>3. Append(s, v) \in Seq(V) /\ Len(Append(s, v)) = Len(s) + 1
  BY <1>2
<1> QED
  BY <1>1, <1>3, StackIntro

LEMMA BelowStack ==
    ASSUME NEW s, IsStack(s), NEW n \in 0 .. Len(s)
    PROVE  IsStack(Below(s, n)) /\ Len(Below(s, n)) = Len(s) - n
<1>1. s \in Seq(Range(s)) /\ \A w \in Range(s) : IsValue(w)
  BY StackElim
<1>2. Below(s, n) \in Seq(Range(s)) /\ IsBelow(Below(s, n), s, n)
  BY <1>1, BelowFacts
<1> QED
  BY <1>1, <1>2, StackIntro DEF IsBelow

LEMMA FrontStack ==
    ASSUME NEW s, IsStack(s), s # << >>
    PROVE  /\ Len(s) > 0 /\ IsStack(Front(s)) /\ Len(Front(s)) = Len(s) - 1
           /\ IsValue(Last(s)) /\ Front(s) = Below(s, 1) /\ Last(s) = s[Len(s)]
<1>1. s \in Seq(Range(s)) /\ Len(s) \in Nat /\ \A i \in 1 .. Len(s) : IsValue(s[i])
  BY StackElim
<1>2. Len(s) > 0
  BY <1>1
<1>3. Front(s) = Below(s, 1) /\ Last(s) = s[Len(s)]
  BY DEF Front, Below, Last
<1>4. 1 \in 0 .. Len(s)
  BY <1>1, <1>2
<1> QED
  BY <1>1, <1>2, <1>3, <1>4, BelowStack

(* Values put one after another *)
LEMMA ConcatStack ==
    ASSUME NEW s, IsStack(s), NEW t, IsStack(t)
    PROVE  IsStack(s \o t) /\ Len(s \o t) = Len(s) + Len(t)
<1> DEFINE V == Range(s) \cup Range(t)
<1>1. s \in Seq(Range(s)) /\ t \in Seq(Range(t)) /\ \A w \in V : IsValue(w)
  BY StackElim
<1>2. s \in Seq(V) /\ t \in Seq(V)
  BY <1>1
<1> HIDE DEF V
<1>3. s \o t \in Seq(V) /\ Len(s \o t) = Len(s) + Len(t)
  BY <1>2
<1> QED
  BY <1>1, <1>3, StackIntro

LEMMA SubStack ==
    ASSUME NEW s, IsStack(s), NEW a \in 1 .. Len(s) + 1, NEW b \in 0 .. Len(s)
    PROVE  IsStack(SubSeq(s, a, b))
<1>1. s \in Seq(Range(s)) /\ \A w \in Range(s) : IsValue(w)
  BY StackElim
<1>2. SubSeq(s, a, b) \in Seq(Range(s))
  BY <1>1
<1> QED
  BY <1>1, <1>2, StackIntro

LEMMA SwapStack ==
    ASSUME NEW s, IsStack(s), NEW i \in 1 .. Len(s), NEW j \in 1 .. Len(s)
    PROVE  IsStack(Swap(s, i, j)) /\ Len(Swap(s, i, j)) = Len(s)
<1>1. s \in Seq(Range(s)) /\ Len(s) \in Nat /\ \A w \in Range(s) : IsValue(w)
  BY StackElim
<1>2. Len(s) + 1 - i \in 1 .. Len(s) /\ Len(s) + 1 - j \in 1 .. Len(s)
  BY <1>1
<1>3. Swap(s, i, j) \in Seq(Range(s)) /\ Len(Swap(s, i, j)) = Len(s)
  BY <1>1, <1>2 DEF Swap, Top
<1> QED
  BY <1>1, <1>3, StackIntro

LEMMA TopValue ==
    ASSUME NEW s, IsStack(s), NEW i \in 1 .. Len(s)
    PROVE  IsValue(Top(s, i))
<1>1. Len(s) \in Nat /\ \A k \in 1 .. Len(s) : IsValue(s[k])
  BY StackElim
<1> QED
  BY <1>1 DEF Top

LEMMA RemoveAtStack ==
    ASSUME NEW s, IsStack(s), NEW i \in 1 .. Len(s)
    PROVE  IsStack(RemoveAt(s, i)) /\ Len(RemoveAt(s, i)) = Len(s) - 1
<1>1. s \in Seq(Range(s)) /\ Len(s) \in Nat
  BY StackElim
<1> DEFINE a == i - 1
           b == i + 1
           n == Len(s)
<1>a. 1 \in 1 .. Len(s) + 1 /\ a \in 0 .. Len(s) /\ b \in 1 .. Len(s) + 1 /\ n \in 0 .. Len(s)
  BY <1>1
<1>2. IsStack(SubSeq(s, 1, i - 1)) /\ IsStack(SubSeq(s, i + 1, Len(s)))
  <2> HIDE DEF a, b, n
  <2>1. IsStack(SubSeq(s, 1, a)) /\ IsStack(SubSeq(s, b, n))
    BY <1>a, SubStack
  <2> QED
    BY <2>1 DEF a, b, n
<1>3. Len(SubSeq(s, 1, i - 1)) = i - 1 /\ Len(SubSeq(s, i + 1, Len(s))) = Len(s) - i
  BY <1>1
<1> DEFINE p == SubSeq(s, 1, i - 1)
           q == SubSeq(s, i + 1, Len(s))
<1>4. RemoveAt(s, i) = p \o q
  BY DEF RemoveAt
<1>5. IsStack(p \o q) /\ Len(p \o q) = Len(p) + Len(q)
  <2>1. IsStack(p) /\ IsStack(q)
    BY <1>2
  <2> HIDE DEF p, q
  <2> QED
    BY <2>1, ConcatStack
<1>6. Len(p) = i - 1 /\ Len(q) = Len(s) - i
  BY <1>3
<1> HIDE DEF p, q
<1>7. Len(p) + Len(q) = Len(s) - 1
  BY <1>1, <1>6
<1> QED
  BY <1>4, <1>5, <1>7

(* Numbers and hashes are values. *)
LEMMA MadeValues ==
    /\ \A n : IsValue(Num(n))
    /\ \A v : IsValue(<<"hash", v>>)
    /\ \A b : IsValue(FromBool(b))
    /\ IsValue(K1) /\ IsValue(K2) /\ IsValue(Redeem)
BY DEF IsValue, Num, FromBool, True, False, K1, K2, Redeem

----------------------------------------------------------------------------
(* The operations that move values about *)

(* r is s with its n last values replaced by those that c numbers. *)
IsRearranged(r, s, n, c) ==
    /\ Len(r) = Len(s) - n + Len(c)
    /\ \A i \in 1 .. Len(s) - n : r[i] = s[i]
    /\ \A i \in 1 .. Len(c) : r[Len(s) - n + i] = s[Len(s) - n + c[i]]

(* That is, what the comment says. *)
LEMMA RearrangedIs ==
    ASSUME NEW V, NEW s \in Seq(V), NEW n \in 0 .. Len(s), NEW c \in Seq(1 .. n),
           NEW r \in Seq(V), IsRearranged(r, s, n, c)
    PROVE  r = Below(s, n) \o [i \in DOMAIN c |-> s[Len(s) - n + c[i]]]
<1> DEFINE L == Len(s) - n
           t == [i \in DOMAIN c |-> s[Len(s) - n + c[i]]]
           q == Below(s, n)
<1>1. Len(s) \in Nat /\ Len(c) \in Nat /\ DOMAIN c = 1 .. Len(c) /\ L \in Nat /\ L = Len(s) - n
  OBVIOUS
<1>2. \A i \in 1 .. Len(c) : c[i] \in 1 .. n
  OBVIOUS
<1>3. \A i \in 1 .. Len(c) : L + c[i] \in 1 .. Len(s)
  BY <1>1, <1>2
<1>4. t \in Seq(V) /\ Len(t) = Len(c) /\ \A i \in 1 .. Len(c) : t[i] = s[L + c[i]]
  BY <1>1, <1>3
<1>5. q \in Seq(V) /\ Len(q) = L /\ \A i \in 1 .. L : q[i] = s[i]
  BY BelowFacts DEF IsBelow
<1>6. Len(r) = L + Len(c) /\ \A i \in 1 .. L : r[i] = s[i]
  BY DEF IsRearranged
<1>7. \A i \in 1 .. Len(c) : r[L + i] = s[L + c[i]]
  BY DEF IsRearranged
<1> HIDE DEF t, q, L
<1> DEFINE u == q \o t
<1>8. u \in Seq(V) /\ IsConcat(u, q, t)
  BY <1>4, <1>5, ConcatFacts
<1> HIDE DEF u
<1>9. ASSUME NEW i \in 1 .. L + Len(c) PROVE r[i] = u[i]
  <2>1. CASE i \in 1 .. L
    BY <1>5, <1>6, <1>8, <2>1 DEF IsConcat
  <2>2. CASE i \notin 1 .. L
    <3>1. i - L \in 1 .. Len(c) /\ L + (i - L) = i
      BY <1>1, <2>2
    <3>2. r[L + (i - L)] = s[L + c[i - L]] /\ t[i - L] = s[L + c[i - L]]
      BY <1>4, <1>7, <3>1
    <3>3. u[L + (i - L)] = t[i - L]
      BY <1>4, <1>5, <1>8, <3>1 DEF IsConcat
    <3> QED
      BY <3>1, <3>2, <3>3
  <2> QED
    BY <2>1, <2>2
<1>10. r = q \o t
  <2>1. Len(u) = Len(r) /\ \A i \in 1 .. Len(r) : r[i] = u[i]
    BY <1>4, <1>5, <1>6, <1>8, <1>9 DEF IsConcat
  <2>2. r = u
    <3>1. r = [i \in 1 .. Len(r) |-> r[i]]
      OBVIOUS
    <3>2. u = [i \in 1 .. Len(u) |-> u[i]]
      BY <1>8
    <3> QED
      BY <2>1, <3>1, <3>2, Zenon
  <2> QED
    BY <2>2 DEF u
<1> QED
  BY <1>10 DEF t, q

(* What each operation needs and what its comment says *)
LEMMA NeedsFacts ==
    /\ DOMAIN Needs = {"OP_2DROP", "OP_2DUP", "OP_3DUP", "OP_2OVER", "OP_2ROT", "OP_2SWAP", "OP_DROP", "OP_DUP", "OP_NIP", "OP_OVER", "OP_ROT", "OP_SWAP", "OP_TUCK"}
    /\ Needs["OP_2DROP"] = 2 /\ Comment["OP_2DROP"] = << >>
    /\ Needs["OP_2DUP"] = 2 /\ Comment["OP_2DUP"] = <<1, 2, 1, 2>>
    /\ Needs["OP_3DUP"] = 3 /\ Comment["OP_3DUP"] = <<1, 2, 3, 1, 2, 3>>
    /\ Needs["OP_2OVER"] = 4 /\ Comment["OP_2OVER"] = <<1, 2, 3, 4, 1, 2>>
    /\ Needs["OP_2ROT"] = 6 /\ Comment["OP_2ROT"] = <<3, 4, 5, 6, 1, 2>>
    /\ Needs["OP_2SWAP"] = 4 /\ Comment["OP_2SWAP"] = <<3, 4, 1, 2>>
    /\ Needs["OP_DROP"] = 1 /\ Comment["OP_DROP"] = << >>
    /\ Needs["OP_DUP"] = 1 /\ Comment["OP_DUP"] = <<1, 1>>
    /\ Needs["OP_NIP"] = 2 /\ Comment["OP_NIP"] = <<2>>
    /\ Needs["OP_OVER"] = 2 /\ Comment["OP_OVER"] = <<1, 2, 1>>
    /\ Needs["OP_ROT"] = 3 /\ Comment["OP_ROT"] = <<2, 3, 1>>
    /\ Needs["OP_SWAP"] = 2 /\ Comment["OP_SWAP"] = <<2, 1>>
    /\ Needs["OP_TUCK"] = 2 /\ Comment["OP_TUCK"] = <<2, 1, 2>>
BY DEF Needs, Comment

(* Each operation that moves values about does what its comment says.       *)
LEMMA MovedRearranges ==
    ASSUME NEW V, NEW s \in Seq(V), NEW op \in DOMAIN Needs, Len(s) >= Needs[op]
    PROVE  Moved(op, s) \in Seq(V) /\ IsRearranged(Moved(op, s), s, Needs[op], Comment[op])
<1>1. Len(s) \in Nat
  OBVIOUS
<1>2. CASE op = "OP_2DROP"
  <2> DEFINE r == Moved(op, s)
             c == << >>
  <2>1. Needs[op] = 2 /\ Comment[op] = c /\ Len(c) = 0 /\ Len(s) >= 2 /\ 2 \in 0 .. Len(s)
    BY <1>1, <1>2, NeedsFacts
  <2>2. r = Below(s, 2)
    BY <1>2 DEF Moved
  <2>3. r \in Seq(V) /\ IsBelow(r, s, 2)
    BY <2>1, <2>2, BelowFacts
  <2> HIDE DEF r
  <2> QED
    BY <1>1, <2>1, <2>3 DEF IsRearranged, IsBelow, r
<1>3. CASE op = "OP_2DUP"
  <2> DEFINE r == Moved(op, s)
             c == <<1, 2, 1, 2>>
  <2>1. Needs[op] = 2 /\ Comment[op] = c /\ Len(c) = 4 /\ Len(s) >= 2
    BY <1>3, NeedsFacts
  <2>2. r \in Seq(V) /\ Len(r) = Len(s) - 2 + 4
    BY <1>1, <1>3, <2>1 DEF Moved, Top
  <2>3. \A i \in 1 .. Len(s) - 2 : r[i] = s[i]
    BY <1>1, <1>3, <2>1 DEF Moved, Top
  <2>4. /\ r[Len(s) - 2 + 1] = s[Len(s) - 2 + 1]
      /\ r[Len(s) - 2 + 2] = s[Len(s) - 2 + 2]
      /\ r[Len(s) - 2 + 3] = s[Len(s) - 2 + 1]
      /\ r[Len(s) - 2 + 4] = s[Len(s) - 2 + 2]
    BY <1>1, <1>3, <2>1 DEF Moved, Top
  <2>5. \A i \in 1 .. 4 : r[Len(s) - 2 + i] = s[Len(s) - 2 + c[i]]
    BY <2>4
  <2> HIDE DEF r
  <2> QED
    BY <2>1, <2>2, <2>3, <2>5 DEF IsRearranged, r
<1>4. CASE op = "OP_3DUP"
  <2> DEFINE r == Moved(op, s)
             t == <<Top(s, 3), Top(s, 2), Top(s, 1)>>
             c == <<1, 2, 3, 1, 2, 3>>
  <2>1. Needs[op] = 3 /\ Comment[op] = c /\ Len(c) = 6 /\ Len(s) >= 3
    BY <1>4, NeedsFacts
  <2>2. r = s \o t
    BY <1>4 DEF Moved
  <2>3. t \in Seq(V) /\ Len(t) = 3 /\ t[1] = s[Len(s) - 3 + 1] /\ t[2] = s[Len(s) - 3 + 2] /\ t[3] = s[Len(s) - 3 + 3]
    <3>1. Len(s) + 1 - 3 = Len(s) - 3 + 1 /\ Len(s) + 1 - 2 = Len(s) - 3 + 2 /\ Len(s) + 1 - 1 = Len(s) - 3 + 3
      BY <1>1
    <3>2. s[Len(s) - 3 + 1] \in V /\ s[Len(s) - 3 + 2] \in V /\ s[Len(s) - 3 + 3] \in V
      BY <1>1, <2>1
    <3>3. t = <<s[Len(s) - 3 + 1], s[Len(s) - 3 + 2], s[Len(s) - 3 + 3]>>
      BY <3>1 DEF Top
    <3> QED
      BY <3>2, <3>3
  <2> HIDE DEF t, r
  <2>4. r \in Seq(V) /\ IsConcat(r, s, t)
    BY <2>2, <2>3, ConcatFacts
  <2>5. Len(r) = Len(s) - 3 + 6 /\ \A i \in 1 .. Len(s) : r[i] = s[i]
    BY <1>1, <2>3, <2>4 DEF IsConcat
  <2>6. \A i \in 1 .. 3 : r[Len(s) + i] = t[i]
    BY <2>3, <2>4 DEF IsConcat
  <2>7. \A i \in 1 .. 6 : r[Len(s) - 3 + i] = s[Len(s) - 3 + c[i]]
    <3>1. \A i \in 1 .. 3 : Len(s) - 3 + i \in 1 .. Len(s) /\ c[i] = i
      BY <1>1, <2>1
    <3>2. \A i \in 1 .. 3 : r[Len(s) - 3 + i] = s[Len(s) - 3 + c[i]]
      BY <2>5, <3>1
    <3>3. r[Len(s) - 3 + 4] = s[Len(s) - 3 + c[4]]
      <4>1. Len(s) - 3 + 4 = Len(s) + 1 /\ c[4] = 1
        BY <1>1
      <4> QED
        BY <2>3, <2>6, <4>1
    <3>4. r[Len(s) - 3 + 5] = s[Len(s) - 3 + c[5]]
      <4>1. Len(s) - 3 + 5 = Len(s) + 2 /\ c[5] = 2
        BY <1>1
      <4> QED
        BY <2>3, <2>6, <4>1
    <3>5. r[Len(s) - 3 + 6] = s[Len(s) - 3 + c[6]]
      <4>1. Len(s) - 3 + 6 = Len(s) + 3 /\ c[6] = 3
        BY <1>1
      <4> QED
        BY <2>3, <2>6, <4>1
    <3>10. ASSUME NEW i \in 1 .. 6 PROVE i \in 1 .. 3 \/ i \in {4, 5, 6}
      OBVIOUS
    <3> HIDE DEF c
    <3> QED
      BY <3>2, <3>3, <3>4, <3>5, <3>10, Zenon
  <2>8. \A i \in 1 .. Len(s) - 3 : r[i] = s[i]
    BY <1>1, <2>5
  <2> QED
    BY <2>1, <2>4, <2>5, <2>7, <2>8 DEF IsRearranged, r
<1>5. CASE op = "OP_2OVER"
  <2> DEFINE r == Moved(op, s)
             t == <<Top(s, 4), Top(s, 3)>>
             c == <<1, 2, 3, 4, 1, 2>>
  <2>1. Needs[op] = 4 /\ Comment[op] = c /\ Len(c) = 6 /\ Len(s) >= 4
    BY <1>5, NeedsFacts
  <2>2. r = s \o t
    BY <1>5 DEF Moved
  <2>3. t \in Seq(V) /\ Len(t) = 2 /\ t[1] = s[Len(s) - 4 + 1] /\ t[2] = s[Len(s) - 4 + 2]
    <3>1. Len(s) + 1 - 4 = Len(s) - 4 + 1 /\ Len(s) + 1 - 3 = Len(s) - 4 + 2
      BY <1>1
    <3>2. s[Len(s) - 4 + 1] \in V /\ s[Len(s) - 4 + 2] \in V
      BY <1>1, <2>1
    <3>3. t = <<s[Len(s) - 4 + 1], s[Len(s) - 4 + 2]>>
      BY <3>1 DEF Top
    <3> QED
      BY <3>2, <3>3
  <2> HIDE DEF t, r
  <2>4. r \in Seq(V) /\ IsConcat(r, s, t)
    BY <2>2, <2>3, ConcatFacts
  <2>5. Len(r) = Len(s) - 4 + 6 /\ \A i \in 1 .. Len(s) : r[i] = s[i]
    BY <1>1, <2>3, <2>4 DEF IsConcat
  <2>6. \A i \in 1 .. 2 : r[Len(s) + i] = t[i]
    BY <2>3, <2>4 DEF IsConcat
  <2>7. \A i \in 1 .. 6 : r[Len(s) - 4 + i] = s[Len(s) - 4 + c[i]]
    <3>1. \A i \in 1 .. 4 : Len(s) - 4 + i \in 1 .. Len(s) /\ c[i] = i
      BY <1>1, <2>1
    <3>2. \A i \in 1 .. 4 : r[Len(s) - 4 + i] = s[Len(s) - 4 + c[i]]
      BY <2>5, <3>1
    <3>3. r[Len(s) - 4 + 5] = s[Len(s) - 4 + c[5]]
      <4>1. Len(s) - 4 + 5 = Len(s) + 1 /\ c[5] = 1
        BY <1>1
      <4> QED
        BY <2>3, <2>6, <4>1
    <3>4. r[Len(s) - 4 + 6] = s[Len(s) - 4 + c[6]]
      <4>1. Len(s) - 4 + 6 = Len(s) + 2 /\ c[6] = 2
        BY <1>1
      <4> QED
        BY <2>3, <2>6, <4>1
    <3>10. ASSUME NEW i \in 1 .. 6 PROVE i \in 1 .. 4 \/ i \in {5, 6}
      OBVIOUS
    <3> HIDE DEF c
    <3> QED
      BY <3>2, <3>3, <3>4, <3>10, Zenon
  <2>8. \A i \in 1 .. Len(s) - 4 : r[i] = s[i]
    BY <1>1, <2>5
  <2> QED
    BY <2>1, <2>4, <2>5, <2>7, <2>8 DEF IsRearranged, r
<1>6. CASE op = "OP_2ROT"
  <2> DEFINE r == Moved(op, s)
             c == <<3, 4, 5, 6, 1, 2>>
             p == Below(s, 6)
             q == SubSeq(s, Len(s) - 3, Len(s))
             t == <<Top(s, 6), Top(s, 5)>>
  <2>1. Needs[op] = 6 /\ Comment[op] = c /\ Len(c) = 6 /\ Len(s) >= 6
    BY <1>6, NeedsFacts
  <2>2. r = p \o q \o t
    BY <1>6 DEF Moved
  <2>3. p \in Seq(V) /\ Len(p) = Len(s) - 6 /\ \A i \in 1 .. Len(s) - 6 : p[i] = s[i]
    <3>1. 6 \in 0 .. Len(s)
      BY <1>1, <2>1
    <3>2. p \in Seq(V) /\ IsBelow(p, s, 6)
      BY <3>1, BelowFacts
    <3> QED
      BY <3>2 DEF IsBelow
  <2>4. q \in Seq(V) /\ Len(q) = 4 /\ \A i \in 1 .. 4 : q[i] = s[Len(s) - 4 + i]
    BY <1>1, <2>1 DEF Last2, Top
  <2>5. t \in Seq(V) /\ Len(t) = 2 /\ t[1] = s[Len(s) - 5] /\ t[2] = s[Len(s) - 4]
    BY <1>1, <2>1 DEF Top, Last2
  <2> HIDE DEF p, q, t
  <2> DEFINE u == p \o q
  <2>a. u \in Seq(V) /\ IsConcat(u, p, q)
    BY <2>3, <2>4, ConcatFacts
  <2> HIDE DEF r, u
  <2>b. r \in Seq(V) /\ IsConcat(r, u, t)
    BY <2>2, <2>5, <2>a, ConcatFacts DEF u
  <2>6. /\ r \in Seq(V) /\ Len(r) = Len(p) + Len(q) + Len(t)
        /\ \A i \in 1 .. Len(p) : r[i] = p[i]
        /\ \A i \in 1 .. Len(q) : r[Len(p) + i] = q[i]
        /\ \A i \in 1 .. Len(t) : r[Len(p) + Len(q) + i] = t[i]
    <3>1. Len(u) = Len(p) + Len(q) /\ Len(p) \in Nat /\ Len(q) \in Nat
      BY <2>3, <2>4, <2>a DEF IsConcat
    <3>2. ASSUME NEW i \in 1 .. Len(p) PROVE r[i] = p[i]
      <4>1. i \in 1 .. Len(u)
        BY <3>1
      <4> QED
        BY <2>a, <2>b, <4>1 DEF IsConcat
    <3>3. ASSUME NEW i \in 1 .. Len(q) PROVE r[Len(p) + i] = q[i]
      <4>1. Len(p) + i \in 1 .. Len(u)
        BY <3>1
      <4> QED
        BY <2>a, <2>b, <4>1 DEF IsConcat
    <3> QED
      BY <2>b, <3>1, <3>2, <3>3 DEF IsConcat
  <2>7. Len(r) = Len(s) - 6 + 6 /\ \A i \in 1 .. Len(s) - 6 : r[i] = s[i]
    BY <1>1, <2>1, <2>3, <2>4, <2>5, <2>6
  <2>8. /\ r[Len(s) - 6 + 1] = s[Len(s) - 6 + 3]
        /\ r[Len(s) - 6 + 2] = s[Len(s) - 6 + 4]
        /\ r[Len(s) - 6 + 3] = s[Len(s) - 6 + 5]
        /\ r[Len(s) - 6 + 4] = s[Len(s) - 6 + 6]
        /\ r[Len(s) - 6 + 5] = s[Len(s) - 6 + 1]
        /\ r[Len(s) - 6 + 6] = s[Len(s) - 6 + 2]
    <3>1. /\ Len(s) - 6 + 1 = Len(p) + 1 /\ Len(s) - 6 + 2 = Len(p) + 2
          /\ Len(s) - 6 + 3 = Len(p) + 3 /\ Len(s) - 6 + 4 = Len(p) + 4
          /\ Len(s) - 6 + 5 = Len(p) + Len(q) + 1 /\ Len(s) - 6 + 6 = Len(p) + Len(q) + 2
      BY <1>1, <2>1, <2>3, <2>4
    <3>2. /\ r[Len(p) + 1] = s[Len(s) - 3] /\ r[Len(p) + 2] = s[Len(s) - 2]
          /\ r[Len(p) + 3] = s[Len(s) - 1] /\ r[Len(p) + 4] = s[Len(s)]
      <4>1. /\ Len(s) - 4 + 1 = Len(s) - 3 /\ Len(s) - 4 + 2 = Len(s) - 2
            /\ Len(s) - 4 + 3 = Len(s) - 1 /\ Len(s) - 4 + 4 = Len(s)
        BY <1>1
      <4>2. q[1] = s[Len(s) - 3] /\ q[2] = s[Len(s) - 2] /\ q[3] = s[Len(s) - 1] /\ q[4] = s[Len(s)]
        BY <2>4, <4>1
      <4>3. r[Len(p) + 1] = q[1] /\ r[Len(p) + 2] = q[2] /\ r[Len(p) + 3] = q[3] /\ r[Len(p) + 4] = q[4]
        BY <2>4, <2>6
      <4> QED
        BY <4>2, <4>3, Zenon
    <3>3. /\ r[Len(p) + Len(q) + 1] = s[Len(s) - 5]
          /\ r[Len(p) + Len(q) + 2] = s[Len(s) - 4]
      BY <2>5, <2>6
    <3>4. /\ Len(s) - 6 + 3 = Len(s) - 3 /\ Len(s) - 6 + 4 = Len(s) - 2
          /\ Len(s) - 6 + 5 = Len(s) - 1 /\ Len(s) - 6 + 6 = Len(s)
          /\ Len(s) - 6 + 1 = Len(s) - 5 /\ Len(s) - 6 + 2 = Len(s) - 4
      BY <1>1
    <3> QED
      BY <3>1, <3>2, <3>3, <3>4
  <2>9. ASSUME NEW i \in 1 .. 6 PROVE r[Len(s) - 6 + i] = s[Len(s) - 6 + c[i]]
    <3>1. c[1] = 3 /\ c[2] = 4 /\ c[3] = 5 /\ c[4] = 6 /\ c[5] = 1 /\ c[6] = 2
      OBVIOUS
    <3>2. i \in {1, 2, 3, 4, 5, 6}
      OBVIOUS
    <3> HIDE DEF c
    <3> QED
      BY <2>8, <3>1, <3>2, Zenon
  <2> QED
    BY <2>1, <2>6, <2>7, <2>9 DEF IsRearranged, r
<1>7. CASE op = "OP_2SWAP"
  <2> DEFINE r == Moved(op, s)
             c == <<3, 4, 1, 2>>
  <2>1. Needs[op] = 4 /\ Comment[op] = c /\ Len(c) = 4 /\ Len(s) >= 4
    BY <1>7, NeedsFacts
  <2>2. r \in Seq(V) /\ Len(r) = Len(s) - 4 + 4
    BY <1>1, <1>7, <2>1 DEF Moved, Swap, Top
  <2>3. \A i \in 1 .. Len(s) - 4 : r[i] = s[i]
    BY <1>1, <1>7, <2>1 DEF Moved, Swap, Top
  <2>4. /\ r[Len(s) - 4 + 1] = s[Len(s) - 4 + 3]
      /\ r[Len(s) - 4 + 2] = s[Len(s) - 4 + 4]
      /\ r[Len(s) - 4 + 3] = s[Len(s) - 4 + 1]
      /\ r[Len(s) - 4 + 4] = s[Len(s) - 4 + 2]
    BY <1>1, <1>7, <2>1 DEF Moved, Swap, Top
  <2>5. \A i \in 1 .. 4 : r[Len(s) - 4 + i] = s[Len(s) - 4 + c[i]]
    BY <2>4
  <2> HIDE DEF r
  <2> QED
    BY <2>1, <2>2, <2>3, <2>5 DEF IsRearranged, r
<1>8. CASE op = "OP_DROP"
  <2> DEFINE r == Moved(op, s)
             c == << >>
  <2>1. Needs[op] = 1 /\ Comment[op] = c /\ Len(c) = 0 /\ Len(s) >= 1 /\ 1 \in 0 .. Len(s)
    BY <1>1, <1>8, NeedsFacts
  <2>2. r = Below(s, 1)
    BY <1>8 DEF Moved
  <2>3. r \in Seq(V) /\ IsBelow(r, s, 1)
    BY <2>1, <2>2, BelowFacts
  <2> HIDE DEF r
  <2> QED
    BY <1>1, <2>1, <2>3 DEF IsRearranged, IsBelow, r
<1>9. CASE op = "OP_DUP"
  <2> DEFINE r == Moved(op, s)
             c == <<1, 1>>
  <2>1. Needs[op] = 1 /\ Comment[op] = c /\ Len(c) = 2 /\ Len(s) >= 1
    BY <1>9, NeedsFacts
  <2>2. r \in Seq(V) /\ Len(r) = Len(s) - 1 + 2
    BY <1>1, <1>9, <2>1 DEF Moved, Top
  <2>3. \A i \in 1 .. Len(s) - 1 : r[i] = s[i]
    BY <1>1, <1>9, <2>1 DEF Moved, Top
  <2>4. /\ r[Len(s) - 1 + 1] = s[Len(s) - 1 + 1]
      /\ r[Len(s) - 1 + 2] = s[Len(s) - 1 + 1]
    BY <1>1, <1>9, <2>1 DEF Moved, Top
  <2>5. \A i \in 1 .. 2 : r[Len(s) - 1 + i] = s[Len(s) - 1 + c[i]]
    BY <2>4
  <2> HIDE DEF r
  <2> QED
    BY <2>1, <2>2, <2>3, <2>5 DEF IsRearranged, r
<1>10. CASE op = "OP_NIP"
  <2> DEFINE r == Moved(op, s)
             c == <<2>>
             p == SubSeq(s, 1, Len(s) - 2)
             q == SubSeq(s, Len(s), Len(s))
  <2>1. Needs[op] = 2 /\ Comment[op] = c /\ Len(c) = 1 /\ c[1] = 2 /\ Len(s) >= 2
    BY <1>10, NeedsFacts
  <2>2. r = p \o q
    <3>1. Len(s) - 1 - 1 = Len(s) - 2 /\ Len(s) - 1 + 1 = Len(s)
      BY <1>1
    <3>2. r = SubSeq(s, 1, Len(s) - 1 - 1) \o SubSeq(s, Len(s) - 1 + 1, Len(s))
      BY <1>10 DEF Moved, RemoveAt
    <3> QED
      BY <3>1, <3>2
  <2>3. p \in Seq(V) /\ Len(p) = Len(s) - 2 /\ \A i \in 1 .. Len(s) - 2 : p[i] = s[i]
    <3>1. p = Below(s, 2) /\ 2 \in 0 .. Len(s)
      BY <1>1, <2>1 DEF Below
    <3> HIDE DEF p
    <3> QED
      BY <3>1, BelowFacts DEF IsBelow
  <2>4. q \in Seq(V) /\ Len(q) = 1 /\ q[1] = s[Len(s)]
    BY <1>1, <2>1
  <2> HIDE DEF p, q
  <2> HIDE DEF r
  <2>5. /\ r \in Seq(V) /\ Len(r) = Len(p) + 1
        /\ \A i \in 1 .. Len(p) : r[i] = p[i]
        /\ r[Len(p) + 1] = q[1]
    <3>1. r \in Seq(V) /\ IsConcat(r, p, q)
      BY <2>2, <2>3, <2>4, ConcatFacts
    <3> QED
      BY <2>4, <3>1 DEF IsConcat
  <2>6. Len(r) = Len(s) - 2 + 1 /\ \A i \in 1 .. Len(s) - 2 : r[i] = s[i]
    BY <1>1, <2>1, <2>3, <2>5
  <2>7. r[Len(s) - 2 + 1] = s[Len(s) - 2 + 2]
    BY <1>1, <2>1, <2>3, <2>4, <2>5
  <2> HIDE DEF c
  <2>8. \A i \in 1 .. 1 : r[Len(s) - 2 + i] = s[Len(s) - 2 + c[i]]
    BY <2>1, <2>7
  <2> QED
    BY <2>1, <2>5, <2>6, <2>8 DEF IsRearranged, r
<1>11. CASE op = "OP_OVER"
  <2> DEFINE r == Moved(op, s)
             c == <<1, 2, 1>>
  <2>1. Needs[op] = 2 /\ Comment[op] = c /\ Len(c) = 3 /\ Len(s) >= 2
    BY <1>11, NeedsFacts
  <2>2. r \in Seq(V) /\ Len(r) = Len(s) - 2 + 3
    BY <1>1, <1>11, <2>1 DEF Moved, Top
  <2>3. \A i \in 1 .. Len(s) - 2 : r[i] = s[i]
    BY <1>1, <1>11, <2>1 DEF Moved, Top
  <2>4. /\ r[Len(s) - 2 + 1] = s[Len(s) - 2 + 1]
      /\ r[Len(s) - 2 + 2] = s[Len(s) - 2 + 2]
      /\ r[Len(s) - 2 + 3] = s[Len(s) - 2 + 1]
    BY <1>1, <1>11, <2>1 DEF Moved, Top
  <2>5. \A i \in 1 .. 3 : r[Len(s) - 2 + i] = s[Len(s) - 2 + c[i]]
    BY <2>4
  <2> HIDE DEF r
  <2> QED
    BY <2>1, <2>2, <2>3, <2>5 DEF IsRearranged, r
<1>12. CASE op = "OP_ROT"
  <2> DEFINE r == Moved(op, s)
             c == <<2, 3, 1>>
  <2>1. Needs[op] = 3 /\ Comment[op] = c /\ Len(c) = 3 /\ Len(s) >= 3
    BY <1>12, NeedsFacts
  <2>2. r \in Seq(V) /\ Len(r) = Len(s) - 3 + 3
    BY <1>1, <1>12, <2>1 DEF Moved, Rotated, Swap, Top
  <2>3. \A i \in 1 .. Len(s) - 3 : r[i] = s[i]
    BY <1>1, <1>12, <2>1 DEF Moved, Rotated, Swap, Top
  <2>4. /\ r[Len(s) - 3 + 1] = s[Len(s) - 3 + 2]
      /\ r[Len(s) - 3 + 2] = s[Len(s) - 3 + 3]
      /\ r[Len(s) - 3 + 3] = s[Len(s) - 3 + 1]
    BY <1>1, <1>12, <2>1 DEF Moved, Rotated, Swap, Top
  <2>5. \A i \in 1 .. 3 : r[Len(s) - 3 + i] = s[Len(s) - 3 + c[i]]
    BY <2>4
  <2> HIDE DEF r
  <2> QED
    BY <2>1, <2>2, <2>3, <2>5 DEF IsRearranged, r
<1>13. CASE op = "OP_SWAP"
  <2> DEFINE r == Moved(op, s)
             c == <<2, 1>>
  <2>1. Needs[op] = 2 /\ Comment[op] = c /\ Len(c) = 2 /\ Len(s) >= 2
    BY <1>13, NeedsFacts
  <2>2. r \in Seq(V) /\ Len(r) = Len(s) - 2 + 2
    BY <1>1, <1>13, <2>1 DEF Moved, Swap, Top
  <2>3. \A i \in 1 .. Len(s) - 2 : r[i] = s[i]
    BY <1>1, <1>13, <2>1 DEF Moved, Swap, Top
  <2>4. /\ r[Len(s) - 2 + 1] = s[Len(s) - 2 + 2]
      /\ r[Len(s) - 2 + 2] = s[Len(s) - 2 + 1]
    BY <1>1, <1>13, <2>1 DEF Moved, Swap, Top
  <2>5. \A i \in 1 .. 2 : r[Len(s) - 2 + i] = s[Len(s) - 2 + c[i]]
    BY <2>4
  <2> HIDE DEF r
  <2> QED
    BY <2>1, <2>2, <2>3, <2>5 DEF IsRearranged, r
<1>14. CASE op = "OP_TUCK"
  <2> DEFINE r == Moved(op, s)
             c == <<2, 1, 2>>
             p == Below(s, 2)
             q == <<Top(s, 1)>>
             t == Last2(s)
  <2>1. Needs[op] = 2 /\ Comment[op] = c /\ Len(c) = 3 /\ Len(s) >= 2
    BY <1>14, NeedsFacts
  <2>2. r = p \o q \o t
    BY <1>14 DEF Moved
  <2>3. p \in Seq(V) /\ Len(p) = Len(s) - 2 /\ \A i \in 1 .. Len(s) - 2 : p[i] = s[i]
    BY <1>1, <2>1, BelowFacts DEF IsBelow
  <2>4. q \in Seq(V) /\ Len(q) = 1 /\ q[1] = s[Len(s)]
    BY <1>1, <2>1 DEF Last2, Top
  <2>5. t \in Seq(V) /\ Len(t) = 2 /\ t[1] = s[Len(s) - 1] /\ t[2] = s[Len(s)]
    BY <1>1, <2>1 DEF Top, Last2
  <2> HIDE DEF p, q, t
  <2> DEFINE u == p \o q
  <2>a. u \in Seq(V) /\ IsConcat(u, p, q)
    BY <2>3, <2>4, ConcatFacts
  <2> HIDE DEF r, u
  <2>b. r \in Seq(V) /\ IsConcat(r, u, t)
    BY <2>2, <2>5, <2>a, ConcatFacts DEF u
  <2>6. /\ r \in Seq(V) /\ Len(r) = Len(p) + Len(q) + Len(t)
        /\ \A i \in 1 .. Len(p) : r[i] = p[i]
        /\ \A i \in 1 .. Len(q) : r[Len(p) + i] = q[i]
        /\ \A i \in 1 .. Len(t) : r[Len(p) + Len(q) + i] = t[i]
    <3>1. Len(u) = Len(p) + Len(q) /\ Len(p) \in Nat /\ Len(q) \in Nat
      BY <2>3, <2>4, <2>a DEF IsConcat
    <3>2. ASSUME NEW i \in 1 .. Len(p) PROVE r[i] = p[i]
      <4>1. i \in 1 .. Len(u)
        BY <3>1
      <4> QED
        BY <2>a, <2>b, <4>1 DEF IsConcat
    <3>3. ASSUME NEW i \in 1 .. Len(q) PROVE r[Len(p) + i] = q[i]
      <4>1. Len(p) + i \in 1 .. Len(u)
        BY <3>1
      <4> QED
        BY <2>a, <2>b, <4>1 DEF IsConcat
    <3> QED
      BY <2>b, <3>1, <3>2, <3>3 DEF IsConcat
  <2>7. Len(r) = Len(s) - 2 + 3 /\ \A i \in 1 .. Len(s) - 2 : r[i] = s[i]
    <3>1. Len(r) = Len(s) - 2 + 3
      BY <1>1, <2>1, <2>3, <2>4, <2>5, <2>6
    <3>2. \A i \in 1 .. Len(s) - 2 : r[i] = s[i]
      BY <2>3, <2>6
    <3> QED
      BY <3>1, <3>2
  <2>8. /\ r[Len(s) - 2 + 1] = s[Len(s) - 2 + 2]
        /\ r[Len(s) - 2 + 2] = s[Len(s) - 2 + 1]
        /\ r[Len(s) - 2 + 3] = s[Len(s) - 2 + 2]
    BY <1>1, <2>1, <2>3, <2>4, <2>5, <2>6
  <2>9. \A i \in 1 .. 3 : r[Len(s) - 2 + i] = s[Len(s) - 2 + c[i]]
    BY <2>8
  <2> QED
    BY <2>1, <2>6, <2>7, <2>9 DEF IsRearranged, r
<1> QED
  BY NeedsFacts, <1>2, <1>3, <1>4, <1>5, <1>6, <1>7, <1>8, <1>9, <1>10, <1>11, <1>12, <1>13, <1>14

(* So it does, on every stack that has what it needs. *)
LEMMA MovedAsCommented ==
    ASSUME NEW s, IsStack(s), NEW op \in DOMAIN Needs, Len(s) >= Needs[op]
    PROVE  Moved(op, s) = Below(s, Needs[op]) \o
                          [i \in DOMAIN Comment[op] |-> s[Len(s) - Needs[op] + Comment[op][i]]]
<1>1. s \in Seq(Range(s)) /\ Len(s) \in Nat
  BY StackElim
<1>2. Moved(op, s) \in Seq(Range(s)) /\ IsRearranged(Moved(op, s), s, Needs[op], Comment[op])
  BY <1>1, MovedRearranges
<1>3. Needs[op] \in Nat /\ Comment[op] \in Seq(1 .. Needs[op])
  <2>1. /\ << >> \in Seq(1 .. 2)
        /\ <<1, 2, 1, 2>> \in Seq(1 .. 2)
        /\ <<1, 2, 3, 1, 2, 3>> \in Seq(1 .. 3)
        /\ <<1, 2, 3, 4, 1, 2>> \in Seq(1 .. 4)
        /\ <<3, 4, 5, 6, 1, 2>> \in Seq(1 .. 6)
        /\ <<3, 4, 1, 2>> \in Seq(1 .. 4)
        /\ << >> \in Seq(1 .. 1)
        /\ <<1, 1>> \in Seq(1 .. 1)
        /\ <<2>> \in Seq(1 .. 2)
        /\ <<1, 2, 1>> \in Seq(1 .. 2)
        /\ <<2, 3, 1>> \in Seq(1 .. 3)
        /\ <<2, 1>> \in Seq(1 .. 2)
        /\ <<2, 1, 2>> \in Seq(1 .. 2)
    OBVIOUS
  <2>2. ASSUME NEW o \in DOMAIN Needs PROVE Needs[o] \in Nat /\ Comment[o] \in Seq(1 .. Needs[o])
    <3>1. CASE o = "OP_2DROP"
      BY <2>1, <3>1, NeedsFacts
    <3>2. CASE o = "OP_2DUP"
      BY <2>1, <3>2, NeedsFacts
    <3>3. CASE o = "OP_3DUP"
      BY <2>1, <3>3, NeedsFacts
    <3>4. CASE o = "OP_2OVER"
      BY <2>1, <3>4, NeedsFacts
    <3>5. CASE o = "OP_2ROT"
      BY <2>1, <3>5, NeedsFacts
    <3>6. CASE o = "OP_2SWAP"
      BY <2>1, <3>6, NeedsFacts
    <3>7. CASE o = "OP_DROP"
      BY <2>1, <3>7, NeedsFacts
    <3>8. CASE o = "OP_DUP"
      BY <2>1, <3>8, NeedsFacts
    <3>9. CASE o = "OP_NIP"
      BY <2>1, <3>9, NeedsFacts
    <3>10. CASE o = "OP_OVER"
      BY <2>1, <3>10, NeedsFacts
    <3>11. CASE o = "OP_ROT"
      BY <2>1, <3>11, NeedsFacts
    <3>12. CASE o = "OP_SWAP"
      BY <2>1, <3>12, NeedsFacts
    <3>13. CASE o = "OP_TUCK"
      BY <2>1, <3>13, NeedsFacts
    <3> QED
      BY NeedsFacts, <3>1, <3>2, <3>3, <3>4, <3>5, <3>6, <3>7, <3>8, <3>9, <3>10, <3>11, <3>12, <3>13
  <2> QED
    BY <2>2
<1>4. Needs[op] \in 0 .. Len(s)
  BY <1>1, <1>3
<1> QED
  BY <1>1, <1>2, <1>3, <1>4, RearrangedIs

LEMMA MovedStack ==
    ASSUME NEW s, IsStack(s), NEW op \in DOMAIN Needs, Len(s) >= Needs[op]
    PROVE  IsStack(Moved(op, s))
<1>1. s \in Seq(Range(s)) /\ \A v \in Range(s) : IsValue(v)
  BY StackElim
<1>2. Moved(op, s) \in Seq(Range(s))
  BY <1>1, MovedRearranges
<1> QED
  BY <1>1, <1>2, StackIntro

(* What an operation takes is on the stack when it works. *)
LEMMA WorksFacts ==
    ASSUME NEW op, NEW s, IsStack(s), Works(op, s)
    PROVE  /\ op \in DOMAIN Needs => Len(s) >= Needs[op]
           /\ op \in Unary \cup {"OP_IFDUP", "OP_SIZE", "OP_VERIFY", "OP_HASH160"} => Len(s) >= 1
           /\ op \in Binary \cup {"OP_PICK", "OP_ROLL", "OP_EQUAL", "OP_EQUALVERIFY"} => Len(s) >= 2
           /\ op = "OP_WITHIN" => Len(s) >= 3
<1>1. Len(s) >= Needed(op)
  BY DEF Works
<1>2. CASE op \in DOMAIN Needs
  BY <1>1, <1>2, NeedsFacts DEF Needed, Unary, Binary, Compares
<1>3. CASE op \in Unary \cup {"OP_IFDUP", "OP_SIZE", "OP_VERIFY", "OP_HASH160"}
  BY <1>1, <1>3, NeedsFacts DEF Needed, Unary, Binary, Compares
<1>4. CASE op \in Binary \cup {"OP_PICK", "OP_ROLL", "OP_EQUAL", "OP_EQUALVERIFY"}
  BY <1>1, <1>4, NeedsFacts DEF Needed, Unary, Binary, Compares
<1>5. CASE op = "OP_WITHIN"
  BY <1>1, <1>5, NeedsFacts DEF Needed, Unary, Binary, Compares
<1> QED
  BY <1>2, <1>3, <1>4, <1>5

LEMMA PickedStack ==
    ASSUME NEW s, IsStack(s), NEW op, Len(s) >= 2, CastToBigNum(Top(s, 1)) \in 0 .. Len(s) - 2
    PROVE  IsStack(Picked(op, s))
<1> DEFINE n == CastToBigNum(Top(s, 1)) + 1
           rest == Below(s, 1)
           k == Len(rest) + 1 - n
<1>1. Len(s) \in Nat /\ 1 \in 0 .. Len(s)
  BY StackElim
<1>2. IsStack(rest) /\ Len(rest) = Len(s) - 1
  BY <1>1, BelowStack
<1>3. n \in 1 .. Len(s) - 1
  BY <1>1
<1> HIDE DEF n, rest
<1>4. n \in 1 .. Len(rest) /\ k \in 1 .. Len(rest)
  BY <1>1, <1>2, <1>3
<1>5. IsValue(Top(rest, n))
  BY <1>2, <1>4, TopValue
<1> HIDE DEF k
<1>6. IsStack(RemoveAt(rest, k))
  BY <1>2, <1>4, RemoveAtStack
<1> DEFINE left == IF op = "OP_ROLL" THEN RemoveAt(rest, k) ELSE rest
           v == Top(rest, n)
<1>7. Picked(op, s) = Append(left, v)
  BY DEF Picked, n, rest, k
<1>8. IsStack(left)
  BY <1>2, <1>6
<1> HIDE DEF left, v
<1>9. IsStack(Append(left, v))
  BY <1>5, <1>8, AppendStack DEF v
<1> QED
  BY <1>7, <1>9

(* The operations leave a stack of values, and one with a value to test if  *)
(* they are to test it.                                                     *)
LEMMA ResultStack ==
    ASSUME NEW s, IsStack(s), NEW op \in StackOps, Works(op, s)
    PROVE  IsStack(Result(op, s)) /\ (op \in Verifies => Result(op, s) # << >>)
<1> DEFINE n(i) == CastToBigNum(Top(s, i))
<1>1. Len(s) \in Nat
  BY StackElim
<1>2. \A v, t : IsStack(t) /\ IsValue(v) => IsStack(Append(t, v)) /\ Append(t, v) # << >>
  <2>1. ASSUME NEW v, NEW t, IsStack(t), IsValue(v)
        PROVE  IsStack(Append(t, v)) /\ Append(t, v) # << >>
    <3>1. IsStack(Append(t, v)) /\ Len(Append(t, v)) = Len(t) + 1 /\ Len(t) \in Nat
      BY <2>1, AppendStack, StackElim
    <3> QED
      BY <3>1
  <2> QED
    BY <2>1
<1>3. \A k \in 0 .. Len(s) : IsStack(Below(s, k))
  BY BelowStack
<1>4. \A k \in 1 .. Len(s) : IsValue(Top(s, k))
  BY TopValue
<1>5. CASE op \in DOMAIN Needs
  <2>1. Result(op, s) = Moved(op, s)
    BY <1>5, NeedsFacts DEF Result, Unary, Binary, Compares
  <2>2. op \notin Verifies
    BY <1>5, NeedsFacts DEF Verifies
  <2> QED
    BY <1>5, <2>1, <2>2, MovedStack, WorksFacts
<1>6. CASE op = "OP_IFDUP"
  <2>1. Result(op, s) = IF CastToBool(Top(s, 1)) THEN Append(s, Top(s, 1)) ELSE s
    BY <1>6, NeedsFacts DEF Result, Unary, Binary, Compares
  <2>2. 1 \in 1 .. Len(s)
    BY <1>1, <1>6, WorksFacts
  <2>3. op \notin Verifies
    BY <1>6 DEF Verifies
  <2> QED
    BY <1>2, <1>4, <2>1, <2>2, <2>3
<1>7. CASE op = "OP_DEPTH"
  <2>1. Result(op, s) = Append(s, Num(Len(s)))
    BY <1>7, NeedsFacts DEF Result, Unary, Binary, Compares
  <2> QED
    BY <1>2, <2>1, MadeValues
<1>8. CASE op \in {"OP_PICK", "OP_ROLL"}
  <2>1. Result(op, s) = Picked(op, s)
    BY <1>8, NeedsFacts DEF Result, Unary, Binary, Compares
  <2>2. Len(s) >= 2 /\ CastToBigNum(Top(s, 1)) \in 0 .. Len(s) - 2
    BY <1>8, WorksFacts DEF Works
  <2>3. op \notin Verifies
    BY <1>8 DEF Verifies
  <2> QED
    BY <2>1, <2>2, <2>3, PickedStack
<1>9. CASE op = "OP_SIZE"
  <2>1. Result(op, s) = Append(s, Num(Size(Top(s, 1))))
    BY <1>9, NeedsFacts DEF Result, Unary, Binary, Compares
  <2> QED
    BY <1>2, <2>1, MadeValues
<1>10. CASE op \in {"OP_EQUAL", "OP_EQUALVERIFY"}
  <2>1. Result(op, s) = Append(Below(s, 2), FromBool(Top(s, 2) = Top(s, 1)))
    BY <1>10, NeedsFacts DEF Result, Unary, Binary, Compares
  <2>2. IsStack(Below(s, 2))
    BY <1>1, <1>3, <1>10, WorksFacts
  <2> QED
    BY <1>2, <2>1, <2>2, MadeValues
<1>11. CASE op \in Unary
  <2>1. Result(op, s) = Append(Below(s, 1), Num(UnaryValue(op, n(1))))
    BY <1>11, NeedsFacts DEF Result, Unary, Binary, Compares
  <2>2. IsStack(Below(s, 1))
    BY <1>1, <1>3, <1>11, WorksFacts
  <2> QED
    BY <1>2, <2>1, <2>2, MadeValues
<1>12. CASE op \in Binary
  <2>1. Result(op, s) = Append(Below(s, 2), BinaryValue(op, n(2), n(1)))
    BY <1>12, NeedsFacts DEF Result, Unary, Binary, Compares
  <2>2. IsStack(Below(s, 2))
    BY <1>1, <1>3, <1>12, WorksFacts
  <2>3. IsValue(BinaryValue(op, n(2), n(1)))
    <3>1. ASSUME NEW a, NEW b PROVE IsValue(BinaryValue(op, a, b))
      BY <1>12, MadeValues DEF BinaryValue, Binary, Compares
    <3> QED
      BY <3>1
  <2> QED
    BY <1>2, <2>1, <2>2, <2>3
<1>13. CASE op = "OP_WITHIN"
  <2>1. Result(op, s) = Append(Below(s, 3), FromBool(n(2) <= n(3) /\ n(3) < n(1)))
    BY <1>13, NeedsFacts DEF Result, Unary, Binary, Compares
  <2>2. IsStack(Below(s, 3))
    BY <1>1, <1>3, <1>13, WorksFacts
  <2> QED
    BY <1>2, <2>1, <2>2, MadeValues
<1>14. CASE op = "OP_HASH160"
  <2>1. Result(op, s) = Append(Below(s, 1), <<"hash", Top(s, 1)>>)
    BY <1>14, NeedsFacts DEF Result, Unary, Binary, Compares
  <2>2. IsStack(Below(s, 1))
    BY <1>1, <1>3, <1>14, WorksFacts
  <2> QED
    BY <1>2, <2>1, <2>2, MadeValues
<1>15. CASE op \in {"OP_VERIFY", "OP_RETURN"} \cup Ignored
  <2>1. Result(op, s) = s
    BY <1>15, NeedsFacts DEF Result, Unary, Binary, Compares, Ignored
  <2>2. op \in Verifies => Len(s) >= 1
    BY <1>15, WorksFacts DEF Verifies, Ignored
  <2> QED
    BY <2>1, <2>2
<1> QED
  BY <1>5, <1>6, <1>7, <1>8, <1>9, <1>10, <1>11, <1>12, <1>13, <1>14, <1>15
  DEF StackOps, Verifies, Binary, Compares

----------------------------------------------------------------------------
(* The types, and that the limits hold *)

(* What the evaluator has, and the rest of the state *)
EvaluatorOK ==
    /\ phase \in Scripts \cup Ended
    /\ IsStack(stack) /\ IsStack(altStack)
    /\ Len(stack) + Len(altStack) <= MaxStack
    /\ execStack \in Seq(BOOLEAN)
    /\ opCount \in 0 .. MaxOpCount
    /\ separator = None \/ separator[1] \in Scripts

RestOK ==
    /\ kind \in DOMAIN Standard
    /\ strict \in BOOLEAN /\ fixed \in BOOLEAN /\ pushOnly \in BOOLEAN
    /\ read \in Nat /\ free \in 0 .. MaxFree
    /\ IsStack(stackCopy)

Typed == EvaluatorOK /\ RestOK

LEMMA TypedInit == Init => Typed
<1>1. SUFFICES ASSUME Init PROVE Typed
  OBVIOUS
<1>2. IsStack(stack) /\ Len(stack) <= MaxStack /\ Len(stack) \in Nat
  <2>1. IsStack(stack) /\ Len(stack) <= MaxStack
    BY <1>1, ScriptAssumption DEF Init
  <2> QED
    BY <2>1, StackElim
<1>3. IsStack(altStack) /\ IsStack(stackCopy) /\ Len(altStack) = 0 /\ execStack \in Seq(BOOLEAN)
  BY <1>1, EmptyStack DEF Init
<1>4. Len(stack) + Len(altStack) <= MaxStack
  BY <1>2, <1>3, ScriptAssumption
<1>5. free \in 0 .. MaxFree
  BY <1>1, ScriptAssumption DEF Init
<1>6. phase \in Scripts \cup Ended /\ opCount \in 0 .. MaxOpCount /\ separator = None
  BY <1>1, ScriptAssumption DEF Init, Scripts
<1>7. EvaluatorOK
  BY <1>2, <1>3, <1>4, <1>6 DEF EvaluatorOK
<1>8. kind \in DOMAIN Standard /\ strict \in BOOLEAN /\ fixed = FALSE /\ pushOnly = TRUE /\ read \in Nat
  BY <1>1 DEF Init
<1>9. RestOK
  BY <1>3, <1>5, <1>8 DEF RestOK
<1> QED
  BY <1>7, <1>9 DEF Typed

LEMMA ReadsRest ==
    ASSUME Typed, NEW name, NEW v, Reads(name, v)
    PROVE  RestOK'
<1>1. free' \in 0 .. MaxFree
  BY ScriptAssumption DEF Reads, Typed, RestOK
<1> QED
  BY <1>1 DEF Reads, Typed, RestOK

LEMMA EndsEvaluator ==
    ASSUME NEW p \in Ended, EndsAs(p)
    PROVE  EvaluatorOK'
<1>1. IsStack(stack') /\ IsStack(altStack') /\ Len(stack') = 0 /\ Len(altStack') = 0
  BY EmptyStack DEF EndsAs
<1> QED
  BY <1>1, ScriptAssumption DEF EndsAs, EvaluatorOK

LEMMA ContinuesEvaluator ==
    ASSUME Typed, NEW s, IsStack(s), NEW a, IsStack(a), NEW e \in Seq(BOOLEAN), NEW n \in Nat,
           Continues(s, a, e, n)
    PROVE  EvaluatorOK'
<1>1. CASE n > MaxOpCount \/ Len(s) + Len(a) > MaxStack
  <2>1. EndsAs("failed")
    BY <1>1 DEF Continues, Fails
  <2> QED
    BY <2>1, EndsEvaluator DEF Ended
<1>2. CASE ~(n > MaxOpCount \/ Len(s) + Len(a) > MaxStack)
  <2>1. /\ stack' = s /\ altStack' = a /\ execStack' = e /\ opCount' = n
        /\ UNCHANGED <<phase, separator>>
    BY <1>2 DEF Continues
  <2>2. Len(s) \in Nat /\ Len(a) \in Nat
    BY StackElim
  <2>3. n <= MaxOpCount /\ Len(s) + Len(a) <= MaxStack
    BY <1>2, <2>2, ScriptAssumption
  <2> QED
    BY <2>1, <2>3, ScriptAssumption DEF EvaluatorOK, Typed
<1> QED
  BY <1>1, <1>2

LEMMA FailsEvaluator ==
    ASSUME Fails
    PROVE  EvaluatorOK'
BY EndsEvaluator DEF Fails, Ended

(* What the check of a signature leaves *)
LEMMA CheckedEvaluator ==
    ASSUME Typed, NEW n \in 0 .. Len(stack), NEW good, NEW verify, NEW count \in Nat,
           Checked(n, good, verify, count)
    PROVE  EvaluatorOK'
<1>1. CASE verify /\ ~good
  BY <1>1, FailsEvaluator DEF Checked
<1>2. CASE ~(verify /\ ~good)
  <2> DEFINE t == IF verify THEN << >> ELSE <<FromBool(good)>>
             b == Below(stack, n)
  <2>1. Continues(b \o t, altStack, execStack, count)
    BY <1>2 DEF Checked
  <2>2. IsStack(b)
    BY BelowStack DEF Typed, EvaluatorOK
  <2>3. IsStack(<<FromBool(good)>>)
    <3> DEFINE V == {FromBool(good)}
    <3>1. <<FromBool(good)>> \in Seq(V) /\ \A v \in V : IsValue(v)
      BY MadeValues
    <3> HIDE DEF V
    <3> QED
      BY <3>1, StackIntro
  <2>4. IsStack(t)
    BY <2>3, EmptyStack
  <2> HIDE DEF b, t
  <2>5. IsStack(b \o t)
    BY <2>2, <2>4, ConcatStack
  <2> QED
    BY <2>1, <2>5, ContinuesEvaluator DEF Typed, EvaluatorOK
<1> QED
  BY <1>1, <1>2

LEMMA StaleEvaluator ==
    ASSUME StaleRange
    PROVE  EvaluatorOK'
BY EndsEvaluator DEF StaleRange, Ended

LEMMA MultisigFacts ==
    ASSUME NEW s, IsStack(s), MultisigReadable(s)
    PROVE  /\ KeysCount(s) \in 0 .. MaxKeys /\ SigsCount(s) \in 0 .. KeysCount(s)
           /\ Removed(s) \in 0 .. Len(s)
           /\ Len(Keys(s)) = KeysCount(s) /\ DOMAIN Keys(s) = 1 .. KeysCount(s)
           /\ Len(Sigs(s)) = SigsCount(s) /\ DOMAIN Sigs(s) = 1 .. SigsCount(s)
<1>1. Len(s) \in Nat
  BY StackElim
<1>2. /\ KeysCount(s) \in 0 .. MaxKeys /\ SigsCount(s) \in 0 .. KeysCount(s)
      /\ Len(s) >= Removed(s)
  BY DEF MultisigReadable
<1>3. Removed(s) \in 0 .. Len(s)
  BY <1>1, <1>2, ScriptAssumption DEF Removed
<1>4. KeysCount(s) \in Nat /\ SigsCount(s) \in Nat
  BY <1>2, ScriptAssumption
<1> QED
  BY <1>2, <1>3, <1>4 DEF Keys, Sigs

(* Every instruction keeps the types and the limits. *)
LEMMA InstructionTyped ==
    ASSUME Typed, Instruction
    PROVE  Typed'
<1>0. /\ IsStack(stack) /\ IsStack(altStack) /\ execStack \in Seq(BOOLEAN) /\ opCount \in Nat
      /\ opCount + 1 \in Nat /\ Len(stack) \in Nat
  BY ScriptAssumption, StackElim DEF Typed, EvaluatorOK
<1>1. ASSUME NEW v \in Pushes \cup {K1, K2, Num(1), Num(2), <<"hash", K1>>, <<"hash", Redeem>>},
             PushValue(v)
      PROVE  Typed'
  <2>1. IsValue(v)
    BY ScriptAssumption, MadeValues
  <2> DEFINE s == IF Exec THEN Append(stack, v) ELSE stack
  <2>2. IsStack(s)
    BY <1>0, <2>1, AppendStack
  <2>3. Reads("push", v) /\ Continues(s, altStack, execStack, opCount)
    BY <1>1 DEF PushValue
  <2> HIDE DEF s
  <2> QED
    BY <1>0, <2>2, <2>3, ReadsRest, ContinuesEvaluator DEF Typed
<1>2. ASSUME NEW op, Refuse(op) PROVE Typed'
  BY <1>2, ReadsRest, FailsEvaluator DEF Refuse, Typed
<1>3. ASSUME NEW op, Skip(op) PROVE Typed'
  <2>1. Reads(op, None) /\ Continues(stack, altStack, execStack, opCount + 1)
    BY <1>3 DEF Skip
  <2> QED
    BY <1>0, <2>1, ReadsRest, ContinuesEvaluator DEF Typed
<1>4. ASSUME NEW op \in StackOps, StackOp(op) PROVE Typed'
  <2>1. Reads(op, None)
    BY <1>4 DEF StackOp
  <2>2. CASE ~Works(op, stack)
    BY <1>4, <2>1, <2>2, ReadsRest, FailsEvaluator DEF StackOp, Typed
  <2>3. CASE Works(op, stack)
    <3> DEFINE r == Result(op, stack)
               s == IF op \in Verifies THEN Front(r) ELSE r
    <3>1. IsStack(r) /\ (op \in Verifies => r # << >>)
      BY <1>0, <2>3, ResultStack
    <3>2. Continues(s, altStack, execStack, opCount + 1)
      BY <1>4, <2>3 DEF StackOp
    <3> HIDE DEF r
    <3>3. IsStack(s)
      BY <3>1, FrontStack
    <3> HIDE DEF s
    <3> QED
      BY <1>0, <2>1, <3>2, <3>3, ReadsRest, ContinuesEvaluator DEF Typed
  <2> QED
    BY <2>2, <2>3
<1>5. ASSUME NEW op, If(op) PROVE Typed'
  <2>1. Reads(op, None)
    BY <1>5 DEF If
  <2>2. CASE Exec /\ stack = << >>
    BY <1>5, <2>1, <2>2, ReadsRest, FailsEvaluator DEF If, Typed
  <2>3. CASE ~(Exec /\ stack = << >>)
    <3> DEFINE value == Exec /\ (CastToBool(Last(stack)) = (op = "OP_IF"))
               s == IF Exec THEN Front(stack) ELSE stack
               e == Append(execStack, value)
    <3>1. Continues(s, altStack, e, opCount + 1)
      BY <1>5, <2>3 DEF If
    <3>2. IsStack(s)
      BY <1>0, <2>3, FrontStack
    <3>3. value \in BOOLEAN
      OBVIOUS
    <3> HIDE DEF value
    <3>4. e \in Seq(BOOLEAN)
      BY <1>0, <3>3
    <3> HIDE DEF s, e
    <3> QED
      BY <1>0, <2>1, <3>1, <3>2, <3>4, ReadsRest, ContinuesEvaluator DEF Typed
  <2> QED
    BY <2>2, <2>3
<1>6. ASSUME Else PROVE Typed'
  <2>1. Reads("OP_ELSE", None)
    BY <1>6 DEF Else
  <2>2. CASE execStack = << >>
    BY <1>6, <2>1, <2>2, ReadsRest, FailsEvaluator DEF Else, Typed
  <2>3. CASE execStack # << >>
    <3> DEFINE e == [execStack EXCEPT ![Len(execStack)] = ~@]
    <3>1. Continues(stack, altStack, e, opCount + 1)
      BY <1>6, <2>3 DEF Else
    <3>2. e \in Seq(BOOLEAN)
      <4>1. Len(execStack) \in 1 .. Len(execStack) /\ Len(execStack) \in Nat
        BY <1>0, <2>3
      <4>2. execStack \in [1 .. Len(execStack) -> BOOLEAN]
        BY <1>0
      <4>3. e \in [1 .. Len(execStack) -> BOOLEAN]
        BY <4>1, <4>2
      <4> HIDE DEF e
      <4> QED
        BY <4>1, <4>3
    <3> HIDE DEF e
    <3> QED
      BY <1>0, <2>1, <3>1, <3>2, ReadsRest, ContinuesEvaluator DEF Typed
  <2> QED
    BY <2>2, <2>3
<1>7. ASSUME EndIf PROVE Typed'
  <2>1. Reads("OP_ENDIF", None)
    BY <1>7 DEF EndIf
  <2>2. CASE execStack = << >>
    BY <1>7, <2>1, <2>2, ReadsRest, FailsEvaluator DEF EndIf, Typed
  <2>3. CASE execStack # << >>
    <3>1. Continues(stack, altStack, Front(execStack), opCount + 1)
      BY <1>7, <2>3 DEF EndIf
    <3>2. Front(execStack) \in Seq(BOOLEAN)
      BY <1>0, <2>3 DEF Front
    <3> QED
      BY <1>0, <2>1, <3>1, <3>2, ReadsRest, ContinuesEvaluator DEF Typed
  <2> QED
    BY <2>2, <2>3
<1>8. ASSUME ToAltStack PROVE Typed'
  <2>1. Reads("OP_TOALTSTACK", None)
    BY <1>8 DEF ToAltStack
  <2>2. CASE stack = << >>
    BY <1>8, <2>1, <2>2, ReadsRest, FailsEvaluator DEF ToAltStack, Typed
  <2>3. CASE stack # << >>
    <3> DEFINE a == Append(altStack, Last(stack))
    <3>1. Continues(Front(stack), a, execStack, opCount + 1)
      BY <1>8, <2>3 DEF ToAltStack
    <3>2. IsStack(Front(stack)) /\ IsValue(Last(stack))
      BY <1>0, <2>3, FrontStack
    <3>3. IsStack(a)
      BY <1>0, <3>2, AppendStack
    <3> HIDE DEF a
    <3> QED
      BY <1>0, <2>1, <3>1, <3>2, <3>3, ReadsRest, ContinuesEvaluator DEF Typed
  <2> QED
    BY <2>2, <2>3
<1>9. ASSUME FromAltStack PROVE Typed'
  <2>1. Reads("OP_FROMALTSTACK", None)
    BY <1>9 DEF FromAltStack
  <2>2. CASE altStack = << >>
    BY <1>9, <2>1, <2>2, ReadsRest, FailsEvaluator DEF FromAltStack, Typed
  <2>3. CASE altStack # << >>
    <3> DEFINE a == Append(stack, Last(altStack))
    <3>1. Continues(a, Front(altStack), execStack, opCount + 1)
      BY <1>9, <2>3 DEF FromAltStack
    <3>2. IsStack(Front(altStack)) /\ IsValue(Last(altStack))
      BY <1>0, <2>3, FrontStack
    <3>3. IsStack(a)
      BY <1>0, <3>2, AppendStack
    <3> HIDE DEF a
    <3> QED
      BY <1>0, <2>1, <3>1, <3>2, <3>3, ReadsRest, ContinuesEvaluator DEF Typed
  <2> QED
    BY <2>2, <2>3
<1>10. ASSUME CodeSeparator PROVE Typed'
  <2>1. Reads("OP_CODESEPARATOR", None) /\ phase \in Scripts
    BY <1>10 DEF CodeSeparator, Reads
  <2>2. CASE opCount = MaxOpCount
    BY <1>10, <2>1, <2>2, ReadsRest, FailsEvaluator DEF CodeSeparator, Typed
  <2>3. CASE opCount # MaxOpCount
    <3>1. /\ opCount' = opCount + 1 /\ separator' = <<phase, read + 1>>
          /\ UNCHANGED <<phase, stack, altStack, execStack>>
      BY <1>10, <2>3 DEF CodeSeparator
    <3>2. opCount' \in 0 .. MaxOpCount
      BY <2>3, <3>1, ScriptAssumption DEF Typed, EvaluatorOK
    <3>3. EvaluatorOK'
      BY <2>1, <3>1, <3>2 DEF Typed, EvaluatorOK
    <3> QED
      BY <2>1, <3>3, ReadsRest DEF Typed
  <2> QED
    BY <2>2, <2>3
<1>11. ASSUME NEW op, CheckSig(op) PROVE Typed'
  <2>1. Reads(op, None)
    BY <1>11 DEF CheckSig
  <2>2. CASE Len(stack) < 2
    BY <1>11, <2>1, <2>2, ReadsRest, FailsEvaluator DEF CheckSig, Typed
  <2>3. CASE ~(Len(stack) < 2)
    <3> DEFINE good == ~Stale /\ checkSig(Top(stack, 2), Top(stack, 1), Code)
               verify == op = "OP_CHECKSIGVERIFY"
    <3>1. StaleRange \/ Checked(2, good, verify, opCount + 1)
      BY <1>11, <2>3 DEF CheckSig
    <3> HIDE DEF good, verify
    <3>2. 2 \in 0 .. Len(stack)
      BY <1>0, <2>3
    <3>3. EvaluatorOK'
      BY <1>0, <3>1, <3>2, StaleEvaluator, CheckedEvaluator
    <3> QED
      BY <2>1, <3>3, ReadsRest DEF Typed
  <2> QED
    BY <2>2, <2>3
<1>12. ASSUME NEW op, CheckMultisig(op) PROVE Typed'
  <2>1. Reads(op, None)
    BY <1>12 DEF CheckMultisig
  <2>2. CASE ~MultisigReadable(stack)
    BY <1>12, <2>1, <2>2, ReadsRest, FailsEvaluator DEF CheckMultisig, Typed
  <2>3. CASE MultisigReadable(stack)
    <3> DEFINE good == SigsCount(stack) = 0 \/ (~Stale /\ Signed(Keys(stack), Sigs(stack), Code))
               verify == op = "OP_CHECKMULTISIGVERIFY"
               count == opCount + 1 + KeysCount(stack)
               n == Removed(stack)
    <3>1. StaleRange \/ Checked(n, good, verify, count)
      BY <1>12, <2>3 DEF CheckMultisig
    <3>2. n \in 0 .. Len(stack) /\ KeysCount(stack) \in 0 .. MaxKeys
      BY <1>0, <2>3, MultisigFacts
    <3>3. count \in Nat
      BY <1>0, <3>2, ScriptAssumption
    <3> HIDE DEF good, verify, count, n
    <3>4. EvaluatorOK'
      BY <3>1, <3>2, <3>3, StaleEvaluator, CheckedEvaluator
    <3> QED
      BY <2>1, <3>4, ReadsRest DEF Typed
  <2> QED
    BY <2>2, <2>3
<1> QED
  BY <1>1, <1>2, <1>3, <1>4, <1>5, <1>6, <1>7, <1>8, <1>9, <1>10, <1>11, <1>12 DEF Instruction

(* What goes on between the scripts keeps the types. *)
LEMMA VerdictTyped ==
    ASSUME Typed, NEW good, Verdict(good)
    PROVE  Typed'
<1>1. EvaluatorOK'
  BY EndsEvaluator DEF Verdict, Ended
<1>2. RestOK'
  BY DEF Verdict, Typed, RestOK
<1> QED
  BY <1>1, <1>2 DEF Typed

LEMMA BeginsTyped ==
    ASSUME Typed, NEW p \in Scripts, NEW s, IsStack(s), Len(s) + Len(altStack) <= MaxStack,
           NEW standard \in BOOLEAN, NEW i, Begins(p, s, standard, i), IsStack(stackCopy')
    PROVE  Typed'
<1>1. EvaluatorOK'
  BY ScriptAssumption DEF Begins, Typed, EvaluatorOK
<1>2. RestOK'
  BY DEF Begins, Typed, RestOK
<1> QED
  BY <1>1, <1>2 DEF Typed

----------------------------------------------------------------------------
(* The standard scripts, instruction by instruction *)

(* The verdict of a check of the signature v, by one of the keys ks over    *)
(* the script p: it is right, unless a separator was left by the signature  *)
(* script, and then it may only be wrong by refusing.                       *)
IsVerdict(st, v, ks, p, sep) ==
    /\ st # << >>
    /\ Last(st) \in {True, False}
    /\ Last(st) = True => \E k \in ks : IsSigOf(v, k, <<p, 0>>)
    /\ (sep = None /\ \E k \in ks : IsSigOf(v, k, <<p, 0>>)) => Last(st) = True

(* Where the script of each kind is when i is left of it: the stack st has  *)
(* come from s, n operations were counted and sep is the separator.         *)
AtPubkey(i, st, n, s, p, sep) ==
    \/ i = PayToKey /\ st = s /\ n = 0
    \/ i = <<Op("OP_CHECKSIG")>> /\ st = Append(s, K1) /\ n = 0
    \/ i = << >> /\ s # << >> /\ n = 1 /\ IsVerdict(st, Last(s), {"k1"}, p, sep)

AtPubkeyHash(i, st, n, s, sep) ==
    \/ i = Standard.pubkeyhash /\ st = s /\ n = 0
    \/ /\ i = <<Op("OP_HASH160"), Push(<<"hash", K1>>), Op("OP_EQUALVERIFY"), Op("OP_CHECKSIG")>>
       /\ st = Append(s, Last(s)) /\ n = 1
    \/ /\ i = <<Push(<<"hash", K1>>), Op("OP_EQUALVERIFY"), Op("OP_CHECKSIG")>>
       /\ st = Append(s, <<"hash", Last(s)>>) /\ n = 2
    \/ /\ i = <<Op("OP_EQUALVERIFY"), Op("OP_CHECKSIG")>>
       /\ st = Append(Append(s, <<"hash", Last(s)>>), <<"hash", K1>>) /\ n = 2
    \/ i = <<Op("OP_CHECKSIG")>> /\ st = s /\ Last(s) = K1 /\ n = 3
    \/ /\ i = << >> /\ Len(s) >= 2 /\ Last(s) = K1 /\ n = 4
       /\ IsVerdict(st, s[Len(s) - 1], {"k1"}, "output", sep)

AtMultisig(i, st, n, s, sep) ==
    \/ i = Standard.multisig /\ st = s /\ n = 0
    \/ /\ i = <<Push(K1), Push(K2), Push(Num(2)), Op("OP_CHECKMULTISIG")>>
       /\ st = Append(s, Num(1)) /\ n = 0
    \/ /\ i = <<Push(K2), Push(Num(2)), Op("OP_CHECKMULTISIG")>>
       /\ st = Append(Append(s, Num(1)), K1) /\ n = 0
    \/ /\ i = <<Push(Num(2)), Op("OP_CHECKMULTISIG")>>
       /\ st = Append(Append(Append(s, Num(1)), K1), K2) /\ n = 0
    \/ /\ i = <<Op("OP_CHECKMULTISIG")>>
       /\ st = Append(Append(Append(Append(s, Num(1)), K1), K2), Num(2)) /\ n = 0
    \/ i = << >> /\ Len(s) >= 2 /\ n = 3 /\ IsVerdict(st, Last(s), {"k1", "k2"}, "output", sep)

AtScripthash(i, st, n, s) ==
    \/ i = Standard.scripthash /\ st = s /\ n = 0
    \/ /\ i = <<Push(<<"hash", Redeem>>), Op("OP_EQUAL")>>
       /\ st = Append(Front(s), <<"hash", Last(s)>>) /\ n = 1
    \/ /\ i = <<Op("OP_EQUAL")>>
       /\ st = Append(Append(Front(s), <<"hash", Last(s)>>), <<"hash", Redeem>>) /\ n = 1
    \/ /\ i = << >> /\ st # << >> /\ n = 2
       /\ Last(st) = FromBool(Last(s) = Redeem)

(* What the signature script may leave in the evaluator: its stack, of      *)
(* which a copy is kept, the other stack and a separator, but no open       *)
(* conditional; if it has only pushes, the stack is all.                    *)
Entered ==
    /\ stackCopy # << >>
    /\ Len(stackCopy) + Len(altStack) <= MaxStack
    /\ execStack = << >>
    /\ separator = None \/ separator[1] = "signature"
    /\ pushOnly => separator = None /\ altStack = << >>

InSignature ==
    phase = "signature" =>
        /\ ~fixed
        /\ separator = None \/ separator[1] = "signature"
        /\ pushOnly => separator = None /\ altStack = << >>

InOutput ==
    phase = "output" =>
        /\ fixed <=> kind # "free"
        /\ fixed => Entered
        /\ kind = "pubkey" => AtPubkey(script, stack, opCount, stackCopy, "output", separator)
        /\ kind = "pubkeyhash" => AtPubkeyHash(script, stack, opCount, stackCopy, separator)
        /\ kind = "multisig" => AtMultisig(script, stack, opCount, stackCopy, separator)
        /\ kind = "scripthash" => AtScripthash(script, stack, opCount, stackCopy)

InRedeem ==
    phase = "redeem" =>
        /\ strict /\ kind = "scripthash"
        /\ stackCopy # << >> /\ Last(stackCopy) = Redeem
        /\ fixed => /\ Entered
                    /\ AtPubkey(script, stack, opCount, Front(stackCopy), "redeem", separator)

(* The inductive invariant *)
SInv == Typed /\ InSignature /\ InOutput /\ InRedeem /\ OutputsAreSigned /\ OwnersCanSpend

----------------------------------------------------------------------------
(* The first and the rest of what is left of a script *)
LEMMA Lists ==
    /\ \A a : <<a>> # << >> /\ Head(<<a>>) = a /\ Tail(<<a>>) = << >>
    /\ \A a, b : <<a, b>> # << >> /\ Head(<<a, b>>) = a /\ Tail(<<a, b>>) = <<b>>
    /\ \A a, b, c : <<a, b, c>> # << >> /\ Head(<<a, b, c>>) = a /\ Tail(<<a, b, c>>) = <<b, c>>
    /\ \A a, b, c, d : /\ <<a, b, c, d>> # << >> /\ Head(<<a, b, c, d>>) = a
                         /\ Tail(<<a, b, c, d>>) = <<b, c, d>>
    /\ \A a, b, c, d, e : /\ <<a, b, c, d, e>> # << >> /\ Head(<<a, b, c, d, e>>) = a
                            /\ Tail(<<a, b, c, d, e>>) = <<b, c, d, e>>
OBVIOUS

(* The values at the top of a stack *)
LEMMA AppendTop ==
    ASSUME NEW s, IsStack(s), NEW v
    PROVE  /\ Len(Append(s, v)) = Len(s) + 1 /\ Append(s, v) # << >>
           /\ Top(Append(s, v), 1) = v /\ Last(Append(s, v)) = v
           /\ \A i \in 1 .. Len(s) : Top(Append(s, v), i + 1) = Top(s, i)
<1> DEFINE V == Range(s) \cup {v}
           t == Append(s, v)
<1>1. s \in Seq(V) /\ v \in V /\ Len(s) \in Nat
  BY StackElim
<1>2. Len(t) = Len(s) + 1 /\ t[Len(s) + 1] = v /\ \A i \in 1 .. Len(s) : t[i] = s[i]
  BY <1>1
<1>3. t # << >>
  BY <1>1, <1>2
<1> HIDE DEF t
<1>4. Top(t, 1) = v /\ Last(t) = v
  BY <1>1, <1>2 DEF Top, Last
<1>5. ASSUME NEW i \in 1 .. Len(s) PROVE Top(t, i + 1) = Top(s, i)
  <2>1. Len(t) + 1 - (i + 1) = Len(s) + 1 - i /\ Len(s) + 1 - i \in 1 .. Len(s)
    BY <1>1, <1>2
  <2> QED
    BY <1>2, <2>1 DEF Top
<1> QED
  BY <1>2, <1>3, <1>4, <1>5 DEF t

LEMMA TopIsLast ==
    ASSUME NEW s, IsStack(s)
    PROVE  Top(s, 1) = Last(s) /\ Top(s, 1) = s[Len(s)] /\ Top(s, 2) = s[Len(s) - 1]
<1>1. Len(s) \in Nat
  BY StackElim
<1>2. Len(s) + 1 - 1 = Len(s) /\ Len(s) + 1 - 2 = Len(s) - 1
  BY <1>1
<1> QED
  BY <1>2 DEF Top, Last

(* What no instruction changes after the signature script *)
Kept == UNCHANGED <<kind, strict, fixed, stackCopy, pushOnly>>

(* The script goes on with the stack s and n operations counted, or is      *)
(* stopped by the limits.                                                   *)
Goes(s, n) ==
    /\ Kept /\ UNCHANGED <<phase, separator, altStack, execStack>>
    /\ script' = Tail(script) /\ stack' = s /\ opCount' = n

Stops(s, n) ==
    /\ Kept /\ phase' = "failed"
    /\ pushOnly => Len(s) > MaxStack \/ n > MaxOpCount

LEMMA ContinuesStep ==
    ASSUME Entered, fixed, phase \in {"output", "redeem"}, NEW name, NEW v, Reads(name, v),
           NEW s, IsStack(s), NEW n \in Nat, Continues(s, altStack, execStack, n), Typed
    PROVE  Goes(s, n) \/ Stops(s, n)
<1>1. Kept /\ script' = Tail(script)
  <2>1. pushOnly' = (pushOnly /\ (phase = "signature" => name = "push")) /\ pushOnly \in BOOLEAN
    BY DEF Reads, Typed, RestOK
  <2>2. phase # "signature"
    OBVIOUS
  <2>3. pushOnly' = pushOnly
    BY <2>1, <2>2
  <2> QED
    BY <2>3 DEF Reads, Kept
<1>2. CASE n > MaxOpCount \/ Len(s) + Len(altStack) > MaxStack
  <2>1. phase' = "failed"
    BY <1>2 DEF Continues, Fails, EndsAs
  <2>2. pushOnly => Len(altStack) = 0 /\ Len(s) \in Nat
    BY StackElim DEF Entered
  <2>3. pushOnly => Len(s) > MaxStack \/ n > MaxOpCount
    BY <1>2, <2>2
  <2> QED
    BY <1>1, <2>1, <2>3 DEF Stops
<1>3. CASE ~(n > MaxOpCount \/ Len(s) + Len(altStack) > MaxStack)
  BY <1>1, <1>3 DEF Continues, Goes
<1> QED
  BY <1>2, <1>3

(* While a standard script runs, the instruction is the first of what is    *)
(* left of it.                                                              *)
LEMMA FixedReads ==
    ASSUME fixed, NEW name, NEW v, Reads(name, v)
    PROVE  Head(script) = <<name, v>>
BY DEF Reads

LEMMA NoConditional ==
    ASSUME execStack = << >>
    PROVE  Exec
BY DEF Exec

LEMMA InstructionNames ==
    ASSUME fixed, execStack = << >>, Instruction, NEW name, NEW v, Head(script) = <<name, v>>
    PROVE  \/ name = "push" /\ PushValue(v)
           \/ name \in Refused \cup {"OP_IF", "OP_NOTIF", "OP_ELSE", "OP_ENDIF", "OP_TOALTSTACK",
                                     "OP_FROMALTSTACK", "OP_CODESEPARATOR", "OP_CHECKSIGVERIFY",
                                     "OP_CHECKMULTISIGVERIFY"}
           \/ name \in StackOps /\ StackOp(name)
           \/ name = "OP_CHECKSIG" /\ CheckSig(name)
           \/ name = "OP_CHECKMULTISIG" /\ CheckMultisig(name)
<1>0. \A m, w : Reads(m, w) => m = name /\ w = v
  BY FixedReads
<1>1. Exec
  BY NoConditional
<1>2. ASSUME NEW w, PushValue(w) PROVE name = "push" /\ PushValue(v)
  BY <1>0, <1>2 DEF PushValue
<1>3. ASSUME NEW op \in Refused, Refuse(op) PROVE name \in Refused
  BY <1>0, <1>3 DEF Refuse
<1>4. ASSUME NEW op, Skip(op) PROVE FALSE
  BY <1>1, <1>4 DEF Skip
<1>5. ASSUME NEW op \in StackOps, StackOp(op) PROVE name \in StackOps /\ StackOp(name)
  <2>1. op = name
    BY <1>0, <1>5 DEF StackOp
  <2> QED
    BY <1>5, <2>1
<1>6. ASSUME NEW op \in {"OP_IF", "OP_NOTIF"}, If(op) PROVE name \in {"OP_IF", "OP_NOTIF"}
  BY <1>0, <1>6 DEF If
<1>7. ASSUME Else PROVE name = "OP_ELSE"
  BY <1>0, <1>7 DEF Else
<1>8. ASSUME EndIf PROVE name = "OP_ENDIF"
  BY <1>0, <1>8 DEF EndIf
<1>9. ASSUME ToAltStack PROVE name = "OP_TOALTSTACK"
  BY <1>0, <1>9 DEF ToAltStack
<1>10. ASSUME FromAltStack PROVE name = "OP_FROMALTSTACK"
  BY <1>0, <1>10 DEF FromAltStack
<1>11. ASSUME CodeSeparator PROVE name = "OP_CODESEPARATOR"
  BY <1>0, <1>11 DEF CodeSeparator
<1>12. ASSUME NEW op \in {"OP_CHECKSIG", "OP_CHECKSIGVERIFY"}, CheckSig(op)
       PROVE  name = "OP_CHECKSIGVERIFY" \/ (name = "OP_CHECKSIG" /\ CheckSig(name))
  <2>1. op = name
    BY <1>0, <1>12 DEF CheckSig
  <2> QED
    BY <1>12, <2>1
<1>13. ASSUME NEW op \in {"OP_CHECKMULTISIG", "OP_CHECKMULTISIGVERIFY"}, CheckMultisig(op)
       PROVE  name = "OP_CHECKMULTISIGVERIFY" \/ (name = "OP_CHECKMULTISIG" /\ CheckMultisig(name))
  <2>1. op = name
    BY <1>0, <1>13 DEF CheckMultisig
  <2> QED
    BY <1>13, <2>1
<1> QED
  BY <1>2, <1>3, <1>4, <1>5, <1>6, <1>7, <1>8, <1>9, <1>10, <1>11, <1>12, <1>13 DEF Instruction

(* The instructions that standard scripts have *)
LEMMA StandardNames ==
    ASSUME fixed, execStack = << >>, Instruction
    PROVE  /\ \A v : Head(script) = Push(v) => PushValue(v)
           /\ \A op \in {"OP_DUP", "OP_HASH160", "OP_EQUALVERIFY", "OP_EQUAL"} :
                  Head(script) = Op(op) => StackOp(op)
           /\ Head(script) = Op("OP_CHECKSIG") => CheckSig("OP_CHECKSIG")
           /\ Head(script) = Op("OP_CHECKMULTISIG") => CheckMultisig("OP_CHECKMULTISIG")
<1>1. ASSUME NEW v, Head(script) = Push(v) PROVE PushValue(v)
  <2>1. Head(script) = <<"push", v>>
    BY <1>1 DEF Push
  <2>2. "push" \notin StackOps
    BY NeedsFacts DEF StackOps, Unary, Binary, Compares, Verifies, Ignored
  <2> QED
    BY <2>1, <2>2, InstructionNames DEF Refused
<1>2. ASSUME NEW op \in {"OP_DUP", "OP_HASH160", "OP_EQUALVERIFY", "OP_EQUAL"}, Head(script) = Op(op)
      PROVE  StackOp(op)
  <2>1. Head(script) = <<op, None>>
    BY <1>2 DEF Op
  <2> QED
    BY <2>1, InstructionNames DEF Refused
<1>3. ASSUME NEW op \in {"OP_CHECKSIG", "OP_CHECKMULTISIG"}, Head(script) = Op(op)
      PROVE  /\ op = "OP_CHECKSIG" => CheckSig("OP_CHECKSIG")
             /\ op = "OP_CHECKMULTISIG" => CheckMultisig("OP_CHECKMULTISIG")
  <2>1. Head(script) = <<op, None>>
    BY <1>3 DEF Op
  <2>2. op \notin StackOps
    BY NeedsFacts DEF StackOps, Unary, Binary, Compares, Verifies, Ignored
  <2> QED
    BY <2>1, <2>2, InstructionNames DEF Refused
<1> QED
  BY <1>1, <1>2, <1>3

----------------------------------------------------------------------------
(* What each instruction of a standard script does *)

(* The signature script has only pushes, and the limits leave room. *)
Fits == pushOnly /\ Len(stackCopy) + 4 <= MaxStack

(* The verification fails, and if Fits then for a reason that makes D false. *)
FailsFor(D) == Kept /\ phase' = "failed" /\ (Fits => ~D)

Crashes == Kept /\ phase' = "crashed"

LEMMA StopsFits ==
    ASSUME Typed, NEW s, IsStack(s), Len(s) <= Len(stackCopy) + 4, NEW n \in 0 .. 4, Stops(s, n)
    PROVE  Kept /\ phase' = "failed" /\ ~Fits
<1>1. Len(s) \in Nat /\ Len(stackCopy) \in Nat
  BY StackElim DEF Typed, RestOK
<1>2. ~(n > MaxOpCount)
  BY ScriptAssumption
<1> QED
  BY <1>1, <1>2, ScriptAssumption DEF Stops, Fits

LEMMA BelowAppend ==
    ASSUME NEW s, IsStack(s), NEW v, IsValue(v)
    PROVE  Below(Append(s, v), 1) = s /\ Front(Append(s, v)) = s
<1> DEFINE V == Range(s) \cup {v}
           t == Append(s, v)
<1>1. s \in Seq(V) /\ v \in V /\ Len(s) \in Nat
  BY StackElim
<1>2. t \in Seq(V) /\ Len(t) = Len(s) + 1 /\ \A i \in 1 .. Len(s) : t[i] = s[i]
  BY <1>1
<1>3. Len(t) - 1 = Len(s) /\ 1 \in 0 .. Len(t)
  BY <1>1, <1>2
<1> DEFINE b == Below(t, 1)
<1> HIDE DEF t
<1>4. b \in Seq(V) /\ IsBelow(b, t, 1)
  BY <1>2, <1>3, BelowFacts
<1>5. Front(t) = b
  BY DEF Front, Below
<1> HIDE DEF b
<1>6. b = s
  BY <1>1, <1>2, <1>3, <1>4 DEF IsBelow
<1> QED
  BY <1>5, <1>6 DEF b, t

LEMMA BelowTwice ==
    ASSUME NEW s, IsStack(s), NEW v, IsValue(v), NEW w, IsValue(w)
    PROVE  Below(Append(Append(s, v), w), 2) = s
<1> DEFINE V == Range(s) \cup {v, w}
           t == Append(Append(s, v), w)
<1>1. s \in Seq(V) /\ v \in V /\ w \in V /\ Len(s) \in Nat
  BY StackElim
<1>2. t \in Seq(V) /\ Len(t) = Len(s) + 2 /\ \A i \in 1 .. Len(s) : t[i] = s[i]
  BY <1>1
<1>3. Len(t) - 2 = Len(s) /\ 2 \in 0 .. Len(t)
  BY <1>1, <1>2
<1> DEFINE b == Below(t, 2)
<1> HIDE DEF t
<1>4. b \in Seq(V) /\ IsBelow(b, t, 2)
  BY <1>2, <1>3, BelowFacts
<1> HIDE DEF b
<1>5. b = s
  BY <1>1, <1>2, <1>3, <1>4 DEF IsBelow
<1> QED
  BY <1>5 DEF b, t

(* The standard script runs, with nothing open. *)
Running ==
    /\ Typed /\ Entered /\ fixed /\ phase \in {"output", "redeem"}
    /\ Instruction

LEMMA RunningFacts ==
    ASSUME Running
    PROVE  /\ execStack = << >> /\ Exec /\ IsStack(stack) /\ IsStack(stackCopy)
           /\ Len(stack) \in Nat /\ Len(stackCopy) \in Nat /\ opCount \in Nat
           /\ Typed /\ Entered /\ fixed /\ phase \in {"output", "redeem"}
BY NoConditional, StackElim, ScriptAssumption DEF Running, Entered, Typed, EvaluatorOK, RestOK

LEMMA PushStep ==
    ASSUME Running, NEW v, IsValue(v), Head(script) = Push(v)
    PROVE  Goes(Append(stack, v), opCount) \/ Stops(Append(stack, v), opCount)
<1>1. PushValue(v)
  BY StandardNames DEF Running, Entered
<1>2. Reads("push", v) /\ Continues(Append(stack, v), altStack, execStack, opCount)
  BY <1>1, RunningFacts DEF PushValue
<1>3. IsStack(Append(stack, v))
  BY RunningFacts, AppendStack
<1> QED
  BY <1>2, <1>3, RunningFacts, ContinuesStep

LEMMA DupStep ==
    ASSUME Running, stack # << >>, Head(script) = Op("OP_DUP")
    PROVE  LET s == Append(stack, Last(stack)) IN
           Goes(s, opCount + 1) \/ Stops(s, opCount + 1)
<1> DEFINE s == Append(stack, Last(stack))
<1>1. StackOp("OP_DUP")
  BY StandardNames DEF Running, Entered
<1>2. Needed("OP_DUP") = 1 /\ Numbers("OP_DUP") = 0 /\ Result("OP_DUP", stack) = Append(stack, Top(stack, 1))
  BY NeedsFacts DEF Needed, Numbers, Result, Moved, Unary, Binary, Compares
<1>3. Works("OP_DUP", stack)
  BY <1>2, RunningFacts DEF Works, Verifies
<1>4. Top(stack, 1) = Last(stack) /\ IsValue(Last(stack))
  BY RunningFacts, TopIsLast, FrontStack
<1>5. Reads("OP_DUP", None) /\ Continues(s, altStack, execStack, opCount + 1)
  BY <1>1, <1>2, <1>3, <1>4 DEF StackOp, Verifies
<1>6. IsStack(s) /\ opCount + 1 \in Nat
  BY <1>4, RunningFacts, AppendStack
<1> HIDE DEF s
<1>7. Goes(s, opCount + 1) \/ Stops(s, opCount + 1)
  BY <1>5, <1>6, RunningFacts, ContinuesStep
<1> QED
  BY <1>7 DEF s

LEMMA HashStep ==
    ASSUME Running, stack # << >>, Head(script) = Op("OP_HASH160")
    PROVE  LET s == Append(Front(stack), <<"hash", Last(stack)>>) IN
           Goes(s, opCount + 1) \/ Stops(s, opCount + 1)
<1> DEFINE s == Append(Front(stack), <<"hash", Last(stack)>>)
<1>1. StackOp("OP_HASH160")
  BY StandardNames DEF Running, Entered
<1>2. /\ Needed("OP_HASH160") = 1 /\ Numbers("OP_HASH160") = 0
      /\ Result("OP_HASH160", stack) = Append(Below(stack, 1), <<"hash", Top(stack, 1)>>)
  BY NeedsFacts DEF Needed, Numbers, Result, Unary, Binary, Compares
<1>3. Works("OP_HASH160", stack)
  BY <1>2, RunningFacts DEF Works, Verifies
<1>4. Top(stack, 1) = Last(stack) /\ Front(stack) = Below(stack, 1) /\ IsStack(Front(stack))
  BY RunningFacts, TopIsLast, FrontStack
<1>5. Reads("OP_HASH160", None) /\ Continues(s, altStack, execStack, opCount + 1)
  BY <1>1, <1>2, <1>3, <1>4 DEF StackOp, Verifies
<1>6. IsStack(s) /\ opCount + 1 \in Nat
  BY <1>4, MadeValues, RunningFacts, AppendStack
<1> HIDE DEF s
<1>7. Goes(s, opCount + 1) \/ Stops(s, opCount + 1)
  BY <1>5, <1>6, RunningFacts, ContinuesStep
<1> QED
  BY <1>7 DEF s

LEMMA EqualStep ==
    ASSUME Running, Len(stack) >= 2, Head(script) = Op("OP_EQUAL")
    PROVE  LET s == Append(Below(stack, 2), FromBool(Top(stack, 2) = Top(stack, 1))) IN
           Goes(s, opCount + 1) \/ Stops(s, opCount + 1)
<1> DEFINE s == Append(Below(stack, 2), FromBool(Top(stack, 2) = Top(stack, 1)))
<1>1. StackOp("OP_EQUAL")
  BY StandardNames DEF Running, Entered
<1>2. Needed("OP_EQUAL") = 2 /\ Numbers("OP_EQUAL") = 0 /\ Result("OP_EQUAL", stack) = s
  BY NeedsFacts DEF Needed, Numbers, Result, Unary, Binary, Compares
<1>3. Works("OP_EQUAL", stack)
  BY <1>2, RunningFacts DEF Works, Verifies
<1>4. Reads("OP_EQUAL", None) /\ Continues(s, altStack, execStack, opCount + 1)
  BY <1>1, <1>2, <1>3 DEF StackOp, Verifies
<1>5. IsStack(Below(stack, 2))
  BY RunningFacts, BelowStack
<1>6. IsStack(s) /\ opCount + 1 \in Nat
  BY <1>5, MadeValues, RunningFacts, AppendStack
<1> HIDE DEF s
<1>7. Goes(s, opCount + 1) \/ Stops(s, opCount + 1)
  BY <1>4, <1>6, RunningFacts, ContinuesStep
<1> QED
  BY <1>7 DEF s

LEMMA EqualVerifyStep ==
    ASSUME Running, Len(stack) >= 2, Head(script) = Op("OP_EQUALVERIFY")
    PROVE  \/ /\ Top(stack, 2) = Top(stack, 1)
              /\ Goes(Below(stack, 2), opCount + 1) \/ Stops(Below(stack, 2), opCount + 1)
           \/ FailsFor(Top(stack, 2) = Top(stack, 1))
<1> DEFINE b == Below(stack, 2)
           v == FromBool(Top(stack, 2) = Top(stack, 1))
           op == "OP_EQUALVERIFY"
<1>1. StackOp(op)
  BY StandardNames DEF Running, Entered
<1>2. Needed(op) = 2 /\ Numbers(op) = 0 /\ Result(op, stack) = Append(b, v)
  BY NeedsFacts DEF Needed, Numbers, Result, Unary, Binary, Compares
<1>3. IsStack(b) /\ IsValue(v)
  BY MadeValues, RunningFacts, BelowStack
<1>4. Top(Append(b, v), 1) = v /\ Front(Append(b, v)) = b
  BY <1>3, AppendTop, BelowAppend
<1>5. CASE Top(stack, 2) = Top(stack, 1)
  <2>1. CastToBool(v)
    BY <1>5 DEF CastToBool, FromBool, True, Num
  <2>2. Works(op, stack)
    <3>1. op # "OP_RETURN" /\ op \notin {"OP_PICK", "OP_ROLL"} /\ Len(stack) >= Needed(op)
      BY <1>2
    <3>2. CastToBool(Top(Result(op, stack), 1))
      BY <1>2, <1>4, <2>1
    <3>3. 1 .. Numbers(op) = {}
      BY <1>2
    <3> HIDE DEF op
    <3> QED
      BY <3>1, <3>2, <3>3 DEF Works
  <2>3. Reads(op, None) /\ Continues(b, altStack, execStack, opCount + 1)
    BY <1>1, <1>2, <1>4, <2>2 DEF StackOp, Verifies
  <2>4. opCount + 1 \in Nat
    BY RunningFacts
  <2>5. Goes(b, opCount + 1) \/ Stops(b, opCount + 1)
    <3> HIDE DEF b
    <3> QED
      BY <1>3, <2>3, <2>4, RunningFacts, ContinuesStep
  <2> QED
    BY <1>5, <2>5
<1>6. CASE Top(stack, 2) # Top(stack, 1)
  <2>1. ~CastToBool(v)
    BY <1>6 DEF CastToBool, FromBool, False, Num
  <2>2. ~Works(op, stack)
    BY <1>2, <1>4, <2>1 DEF Works, Verifies
  <2>3. Reads(op, None) /\ phase' = "failed"
    BY <1>1, <2>2 DEF StackOp, Fails, EndsAs
  <2>4. Kept
    <3>1. pushOnly' = (pushOnly /\ (phase = "signature" => op = "push")) /\ pushOnly \in BOOLEAN
      BY <2>3, RunningFacts DEF Reads, Typed, RestOK
    <3>2. pushOnly' = pushOnly
      BY <3>1, RunningFacts
    <3> QED
      BY <2>3, <3>2 DEF Reads, Kept
  <2> QED
    BY <1>6, <2>3, <2>4 DEF FailsFor
<1> QED
  BY <1>5, <1>6

(* The flag of pushes does not change any more. *)
LEMMA ReadsKept ==
    ASSUME Running, NEW name, NEW v, Reads(name, v)
    PROVE  Kept
<1>1. pushOnly' = (pushOnly /\ (phase = "signature" => name = "push")) /\ pushOnly \in BOOLEAN
  BY RunningFacts DEF Reads, Typed, RestOK
<1>2. pushOnly' = pushOnly
  BY <1>1, RunningFacts
<1> QED
  BY <1>2 DEF Reads, Kept

(* The code that is signed is the script that runs, from its beginning,     *)
(* unless a separator was left.                                             *)
LEMMA CodeFacts ==
    ASSUME Running
    PROVE  /\ separator = None => Code = <<phase, 0>> /\ ~Stale
           /\ separator # None => Stale /\ ~pushOnly
<1>1. separator = None \/ separator[1] = "signature"
  BY RunningFacts DEF Entered
<1>2. phase # "signature" /\ (pushOnly => separator = None)
  BY RunningFacts DEF Entered
<1> QED
  BY <1>1, <1>2 DEF Code, Stale

LEMMA StaleStep ==
    ASSUME Running, NEW name, NEW v, Reads(name, v), StaleRange
    PROVE  Crashes \/ FailsFor(TRUE)
<1>1. ~pushOnly
  BY CodeFacts DEF StaleRange
<1>2. phase' \in {"failed", "crashed"}
  BY DEF StaleRange, EndsAs
<1> QED
  BY <1>1, <1>2, ReadsKept DEF Crashes, FailsFor, Fits

(* A check puts its outcome on what is below. *)
LEMMA CheckedStep ==
    ASSUME Running, NEW name, NEW v, Reads(name, v), NEW n \in 0 .. Len(stack), NEW good,
           NEW count \in Nat, Checked(n, good, FALSE, count)
    PROVE  \E r : /\ IsStack(r) /\ Len(r) = Len(stack) - n + 1
                  /\ r # << >> /\ Last(r) = FromBool(good)
                  /\ Goes(r, count) \/ Stops(r, count)
<1> DEFINE b == Below(stack, n)
           w == FromBool(good)
           r == Append(b, w)
<1>1. IsStack(b) /\ Len(b) = Len(stack) - n /\ IsValue(w)
  BY RunningFacts, BelowStack, MadeValues
<1>2. Continues(b \o <<w>>, altStack, execStack, count)
  BY DEF Checked
<1> HIDE DEF b, w
<1>3. b \o <<w>> = r
  <2> DEFINE V == Range(b) \cup {w}
  <2>1. b \in Seq(V) /\ w \in V
    BY <1>1, StackElim
  <2> HIDE DEF V
  <2> QED
    BY <2>1
<1>4. IsStack(r) /\ Len(r) = Len(b) + 1 /\ r # << >> /\ Last(r) = w
  BY <1>1, AppendStack, AppendTop
<1> HIDE DEF r
<1>5. Goes(r, count) \/ Stops(r, count)
  BY <1>2, <1>3, <1>4, RunningFacts, ContinuesStep
<1> QED
  BY <1>1, <1>4, <1>5 DEF w

(* Whose signature a good one is *)
LEMMA GoodSignature ==
    ASSUME NEW v, IsValue(v), NEW k, NEW code
    PROVE  checkSig(v, <<"key", k>>, code) <=> IsSigOf(v, k, code)
BY DEF checkSig, IsSigOf, IsValue

LEMMA CheckSigStep ==
    ASSUME Running, Head(script) = Op("OP_CHECKSIG"), Len(stack) >= 2, Top(stack, 1) = K1
    PROVE  \/ \E r : /\ IsStack(r) /\ Len(r) = Len(stack) - 1
                     /\ IsVerdict(r, Top(stack, 2), {"k1"}, phase, separator)
                     /\ Goes(r, opCount + 1) \/ Stops(r, opCount + 1)
           \/ Crashes
           \/ FailsFor(TRUE)
<1> DEFINE good == ~Stale /\ checkSig(Top(stack, 2), Top(stack, 1), Code)
           v == Top(stack, 2)
<1>1. CheckSig("OP_CHECKSIG")
  BY StandardNames DEF Running, Entered
<1>2. Reads("OP_CHECKSIG", None) /\ (StaleRange \/ Checked(2, good, FALSE, opCount + 1))
  <2>1. ~(Len(stack) < 2)
    BY RunningFacts
  <2> QED
    BY <1>1, <2>1 DEF CheckSig
<1>3. IsValue(v)
  BY RunningFacts, TopValue
<1>4. good <=> separator = None /\ IsSigOf(v, "k1", <<phase, 0>>)
  <2>1. good <=> ~Stale /\ IsSigOf(v, "k1", Code)
    BY <1>3, GoodSignature DEF K1
  <2> QED
    BY <2>1, CodeFacts
<1> HIDE DEF good
<1>5. CASE StaleRange
  BY <1>2, <1>5, StaleStep
<1>6. CASE Checked(2, good, FALSE, opCount + 1)
  <2>1. 2 \in 0 .. Len(stack) /\ opCount + 1 \in Nat /\ Len(stack) - 2 + 1 = Len(stack) - 1
    BY RunningFacts
  <2>2. PICK r : /\ IsStack(r) /\ Len(r) = Len(stack) - 2 + 1
                 /\ r # << >> /\ Last(r) = FromBool(good)
                 /\ Goes(r, opCount + 1) \/ Stops(r, opCount + 1)
    BY <1>2, <1>6, <2>1, CheckedStep
  <2>3. IsVerdict(r, v, {"k1"}, phase, separator)
    BY <1>4, <2>2 DEF IsVerdict, FromBool, True, False, Num
  <2> QED
    BY <2>1, <2>2, <2>3
<1> QED
  BY <1>2, <1>5, <1>6

(* One of two keys *)
LEMMA CheckMultisigStep ==
    ASSUME Running, Head(script) = Op("OP_CHECKMULTISIG"), NEW s, IsStack(s),
           stack = Append(Append(Append(Append(s, Num(1)), K1), K2), Num(2))
    PROVE  \/ \E r : /\ Len(s) >= 2 /\ IsStack(r) /\ Len(r) = Len(s) - 1
                     /\ IsVerdict(r, Last(s), {"k1", "k2"}, phase, separator)
                     /\ Goes(r, opCount + 3) \/ Stops(r, opCount + 3)
           \/ Crashes
           \/ FailsFor(Len(s) >= 2)
<1> DEFINE s1 == Append(s, Num(1))
           s2 == Append(s1, K1)
           s3 == Append(s2, K2)
           v == Last(s)
<1>1. CheckMultisig("OP_CHECKMULTISIG")
  BY StandardNames DEF Running, Entered
<1>2. Len(s) \in Nat
  BY StackElim
<1>3. IsStack(s1) /\ Len(s1) = Len(s) + 1 /\ Top(s1, 1) = Num(1)
      /\ \A i \in 1 .. Len(s) : Top(s1, i + 1) = Top(s, i)
  BY MadeValues, AppendStack, AppendTop
<1> HIDE DEF s1
<1>4. IsStack(s2) /\ Len(s2) = Len(s) + 2 /\ Top(s2, 1) = K1
      /\ \A i \in 1 .. Len(s) + 1 : Top(s2, i + 1) = Top(s1, i)
  BY <1>2, <1>3, MadeValues, AppendStack, AppendTop
<1> HIDE DEF s2
<1>5. IsStack(s3) /\ Len(s3) = Len(s) + 3 /\ Top(s3, 1) = K2
      /\ \A i \in 1 .. Len(s) + 2 : Top(s3, i + 1) = Top(s2, i)
  BY <1>2, <1>4, MadeValues, AppendStack, AppendTop
<1> HIDE DEF s3
<1>6. stack = Append(s3, Num(2))
  BY DEF s3, s2, s1
<1>7. IsStack(stack) /\ Len(stack) = Len(s) + 4 /\ Top(stack, 1) = Num(2)
      /\ \A i \in 1 .. Len(s) + 3 : Top(stack, i + 1) = Top(s3, i)
  <2> DEFINE w == Num(2)
             s4 == Append(s3, w)
  <2>1. IsValue(w)
    BY MadeValues
  <2> HIDE DEF w
  <2>2. /\ IsStack(s4) /\ Len(s4) = Len(s3) + 1 /\ Top(s4, 1) = w
        /\ \A i \in 1 .. Len(s3) : Top(s4, i + 1) = Top(s3, i)
    BY <1>5, <2>1, AppendStack, AppendTop
  <2>3. stack = s4
    BY <1>6 DEF w
  <2> HIDE DEF s4
  <2>4. Len(s3) + 1 = Len(s) + 4
    BY <1>2, <1>5
  <2> QED
    BY <1>5, <2>2, <2>3, <2>4 DEF w
<1>8. Top(stack, 2) = K2 /\ Top(stack, 3) = K1 /\ Top(stack, 4) = Num(1)
  <2>1. Top(stack, 1 + 1) = Top(s3, 1) /\ Top(stack, 2 + 1) = Top(s3, 2) /\ Top(stack, 3 + 1) = Top(s3, 3)
    BY <1>2, <1>7
  <2>2. Top(s3, 1 + 1) = Top(s2, 1) /\ Top(s3, 2 + 1) = Top(s2, 2) /\ Top(s2, 1 + 1) = Top(s1, 1)
    BY <1>2, <1>4, <1>5
  <2> QED
    BY <1>3, <1>4, <1>5, <2>1, <2>2
<1>9. ASSUME Len(s) >= 1 PROVE Top(stack, 5) = v
  <2>1. Top(stack, 4 + 1) = Top(s3, 4) /\ Top(s3, 3 + 1) = Top(s2, 3)
    BY <1>2, <1>5, <1>7, <1>9
  <2>2. Top(s2, 2 + 1) = Top(s1, 2) /\ Top(s1, 1 + 1) = Top(s, 1)
    BY <1>2, <1>3, <1>4, <1>9
  <2>3. Top(s, 1) = v
    BY TopIsLast
  <2> QED
    BY <2>1, <2>2, <2>3
<1>10. KeysCount(stack) = 2 /\ SigsCount(stack) = 1 /\ Removed(stack) = 6
  BY <1>7, <1>8 DEF KeysCount, SigsCount, Removed, CastToBigNum, Num
<1>11. CASE Len(s) < 2
  <2>1. ~MultisigReadable(stack)
    BY <1>2, <1>7, <1>10, <1>11 DEF MultisigReadable
  <2>2. Reads("OP_CHECKMULTISIG", None) /\ phase' = "failed"
    BY <1>1, <2>1 DEF CheckMultisig, Fails, EndsAs
  <2> QED
    BY <1>2, <1>11, <2>2, ReadsKept DEF FailsFor
<1>12. CASE Len(s) >= 2
  <2> DEFINE good == SigsCount(stack) = 0 \/ (~Stale /\ Signed(Keys(stack), Sigs(stack), Code))
             keys == Keys(stack)
             sigs == Sigs(stack)
  <2>1. MultisigReadable(stack)
    BY <1>2, <1>7, <1>8, <1>10, <1>12, ScriptAssumption DEF MultisigReadable, IsNumber, Num
  <2>2. Reads("OP_CHECKMULTISIG", None) /\ (StaleRange \/ Checked(6, good, FALSE, opCount + 3))
    <3>1. opCount + 1 + 2 = opCount + 3
      BY RunningFacts
    <3> QED
      BY <1>1, <1>10, <2>1, <3>1 DEF CheckMultisig
  <2>3. Len(keys) = 2 /\ Len(sigs) = 1 /\ keys[1] = K2 /\ keys[2] = K1 /\ sigs[1] = v
    <3>1. Len(keys) = 2 /\ Len(sigs) = 1
      BY <1>10, <2>1, <1>7, MultisigFacts
    <3>2. keys = [i \in 1 .. 2 |-> Top(stack, i + 1)] /\ sigs = [i \in 1 .. 1 |-> Top(stack, 4 + i)]
      BY <1>10 DEF Keys, Sigs
    <3> QED
      BY <1>8, <1>9, <1>12, <3>1, <3>2
  <2>4. IsValue(v)
    <3>1. s # << >>
      BY <1>12
    <3> QED
      BY <3>1, FrontStack
  <2>5. \A code : Signed(keys, sigs, code) <=> \E k \in {"k1", "k2"} : IsSigOf(v, k, code)
    <3>1. ASSUME NEW code
          PROVE  Signed(keys, sigs, code) <=> \E k \in {"k1", "k2"} : IsSigOf(v, k, code)
      <4> HIDE DEF keys, sigs
      <4>1. Signed(keys, sigs, code) <=>
              \E f \in [1 .. 1 -> 1 .. 2] :
                 /\ \A i, j \in 1 .. 1 : i < j => f[i] < f[j]
                 /\ \A i \in 1 .. 1 : checkSig(sigs[i], keys[f[i]], code)
        <5>1. Len(keys) \in Nat /\ Len(sigs) \in Nat
          BY <2>3
        <5>2. Signed(keys, sigs, code) <=>
                \E f \in [1 .. Len(sigs) -> 1 .. Len(keys)] :
                   /\ \A i, j \in 1 .. Len(sigs) : i < j => f[i] < f[j]
                   /\ \A i \in 1 .. Len(sigs) : checkSig(sigs[i], keys[f[i]], code)
          BY <5>1, SignedIffMatching
        <5>3. Len(keys) = 2 /\ Len(sigs) = 1
          BY <2>3
        <5> QED
          BY <5>2, <5>3, Zenon
      <4>2. (\E f \in [1 .. 1 -> 1 .. 2] :
                 /\ \A i, j \in 1 .. 1 : i < j => f[i] < f[j]
                 /\ \A i \in 1 .. 1 : checkSig(sigs[i], keys[f[i]], code))
            <=> \E n \in 1 .. 2 : checkSig(sigs[1], keys[n], code)
        <5>1. ASSUME NEW n \in 1 .. 2, checkSig(sigs[1], keys[n], code)
              PROVE  \E f \in [1 .. 1 -> 1 .. 2] :
                       /\ \A i, j \in 1 .. 1 : i < j => f[i] < f[j]
                       /\ \A i \in 1 .. 1 : checkSig(sigs[i], keys[f[i]], code)
          <6> DEFINE g == [i \in 1 .. 1 |-> n]
          <6>1. g \in [1 .. 1 -> 1 .. 2] /\ g[1] = n
            OBVIOUS
          <6>2. \A i \in 1 .. 1 : i = 1
            OBVIOUS
          <6> HIDE DEF g
          <6>3. /\ \A i, j \in 1 .. 1 : i < j => g[i] < g[j]
                /\ \A i \in 1 .. 1 : checkSig(sigs[i], keys[g[i]], code)
            BY <5>1, <6>1, <6>2
          <6> QED
            BY <6>1, <6>3
        <5>2. ASSUME NEW f \in [1 .. 1 -> 1 .. 2], \A i \in 1 .. 1 : checkSig(sigs[i], keys[f[i]], code)
              PROVE  \E n \in 1 .. 2 : checkSig(sigs[1], keys[n], code)
          <6>1. 1 \in 1 .. 1
            OBVIOUS
          <6> QED
            BY <5>2, <6>1
        <5> QED
          BY <5>1, <5>2
      <4>3. (\E n \in 1 .. 2 : checkSig(sigs[1], keys[n], code))
            <=> checkSig(v, K2, code) \/ checkSig(v, K1, code)
        BY <2>3
      <4>4. /\ checkSig(v, K1, code) <=> IsSigOf(v, "k1", code)
            /\ checkSig(v, K2, code) <=> IsSigOf(v, "k2", code)
        BY <2>4, GoodSignature DEF K1, K2
      <4> QED
        BY <4>1, <4>2, <4>3, <4>4
    <3> QED
      BY <3>1
  <2>6. good <=> separator = None /\ \E k \in {"k1", "k2"} : IsSigOf(v, k, <<phase, 0>>)
    <3>1. good <=> ~Stale /\ \E k \in {"k1", "k2"} : IsSigOf(v, k, Code)
      BY <1>10, <2>5
    <3> QED
      BY <3>1, CodeFacts
  <2> HIDE DEF good
  <2>7. CASE StaleRange
    <3>1. Crashes \/ FailsFor(TRUE)
      BY <2>2, <2>7, StaleStep
    <3> QED
      BY <3>1 DEF FailsFor
  <2>8. CASE Checked(6, good, FALSE, opCount + 3)
    <3>1. 6 \in 0 .. Len(stack) /\ opCount + 3 \in Nat /\ Len(stack) - 6 + 1 = Len(s) - 1
      BY <1>2, <1>7, <1>12, RunningFacts
    <3>2. PICK r : /\ IsStack(r) /\ Len(r) = Len(stack) - 6 + 1
                   /\ r # << >> /\ Last(r) = FromBool(good)
                   /\ Goes(r, opCount + 3) \/ Stops(r, opCount + 3)
      BY <2>2, <2>8, <3>1, CheckedStep
    <3>3. IsVerdict(r, v, {"k1", "k2"}, phase, separator)
      BY <2>6, <3>2 DEF IsVerdict, FromBool, True, False, Num
    <3> QED
      BY <1>12, <3>1, <3>2, <3>3
  <2> QED
    BY <2>2, <2>7, <2>8
<1> QED
  BY <1>2, <1>11, <1>12

----------------------------------------------------------------------------
(* Each instruction of a standard script takes it to its next place. *)

LEMMA StopsFor ==
    ASSUME Running, NEW r, IsStack(r), Len(r) <= Len(stackCopy) + 4,
           NEW n \in {0, 1, 2, 3, 4}, Stops(r, n)
    PROVE  FailsFor(TRUE)
<1>1. n \in 0 .. 4
  OBVIOUS
<1> QED
  BY <1>1, RunningFacts, StopsFits DEF FailsFor

LEMMA FailsWeaker ==
    ASSUME FailsFor(TRUE), NEW D
    PROVE  FailsFor(D)
BY DEF FailsFor

LEMMA SomethingLeft ==
    ASSUME Running
    PROVE  script # << >>
<1>1. ASSUME NEW name, NEW v, Reads(name, v) PROVE script # << >>
  BY <1>1 DEF Reads, Running
<1> QED
  BY <1>1 DEF Running, Instruction, PushValue, Refuse, Skip, StackOp, If, Else, EndIf, ToAltStack,
              FromAltStack, CodeSeparator, CheckSig, CheckMultisig

LEMMA PubkeyStep ==
    ASSUME Running, NEW s, IsStack(s), Len(s) <= Len(stackCopy),
           AtPubkey(script, stack, opCount, s, phase, separator)
    PROVE  \/ \E r, n : Goes(r, n) /\ AtPubkey(Tail(script), r, n, s, phase, separator)
           \/ Crashes
           \/ FailsFor(s # << >> /\ IsSigOf(Last(s), "k1", <<phase, 0>>))
<1> DEFINE D == s # << >> /\ IsSigOf(Last(s), "k1", <<phase, 0>>)
           t == Append(s, K1)
<1>1. Len(s) \in Nat /\ Len(stackCopy) \in Nat
  BY StackElim, RunningFacts
<1>2. IsStack(t) /\ Len(t) = Len(s) + 1 /\ t # << >> /\ Top(t, 1) = K1
  BY MadeValues, AppendStack, AppendTop
<1>3. s # << >> => Len(s) >= 1 /\ Top(t, 2) = Last(s)
  <2>1. SUFFICES ASSUME s # << >> PROVE Len(s) >= 1 /\ Top(t, 2) = Last(s)
    OBVIOUS
  <2>2. Len(s) >= 1
    BY <1>1, <2>1, FrontStack
  <2>3. 1 \in 1 .. Len(s)
    BY <1>1, <2>2
  <2>4. Top(t, 1 + 1) = Top(s, 1)
    BY <2>3, AppendTop
  <2>5. Top(s, 1) = Last(s)
    BY TopIsLast
  <2> QED
    BY <2>2, <2>4, <2>5
<1> HIDE DEF t, D
<1>4. CASE script = PayToKey /\ stack = s /\ opCount = 0
  <2>1. Head(script) = Push(K1) /\ Tail(script) = <<Op("OP_CHECKSIG")>>
    BY <1>4, Lists DEF PayToKey
  <2>2. Goes(t, 0) \/ Stops(t, 0)
    BY <1>4, <2>1, MadeValues, PushStep DEF t
  <2>3. CASE Goes(t, 0)
    <3>1. AtPubkey(Tail(script), t, 0, s, phase, separator)
      BY <2>1 DEF AtPubkey, t
    <3> QED
      BY <2>3, <3>1
  <2>4. CASE Stops(t, 0)
    <3>1. FailsFor(TRUE)
      <4>1. Len(t) <= Len(stackCopy) + 4
        BY <1>1, <1>2
      <4> QED
        BY <1>2, <2>4, <4>1, StopsFor
    <3> QED
      BY <3>1, FailsWeaker
  <2> QED
    BY <2>2, <2>3, <2>4
<1>5. CASE script = <<Op("OP_CHECKSIG")>> /\ stack = Append(s, K1) /\ opCount = 0
  <2>0. stack = t
    BY <1>5 DEF t
  <2>1. Head(script) = Op("OP_CHECKSIG") /\ Tail(script) = << >>
    BY <1>5, Lists
  <2>2. CASE s = << >>
    <3>1. Len(stack) < 2
      <4>1. Len(s) = 0
        BY <2>2
      <4>2. Len(stack) = Len(s) + 1
        BY <1>2, <2>0, Zenon
      <4> QED
        BY <4>1, <4>2
    <3>2. CheckSig("OP_CHECKSIG")
      BY <2>1, StandardNames DEF Running, Entered
    <3>3. Reads("OP_CHECKSIG", None) /\ phase' = "failed"
      BY <3>1, <3>2 DEF CheckSig, Fails, EndsAs
    <3>4. FailsFor(D)
      BY <2>2, <3>3, ReadsKept DEF FailsFor, D
    <3> QED
      BY <3>4 DEF D
  <2>3. CASE s # << >>
    <3>1. Len(stack) >= 2 /\ Top(stack, 1) = K1 /\ Top(stack, 2) = Last(s)
      BY <1>1, <1>2, <1>3, <2>0, <2>3
    <3>2. \/ \E r : /\ IsStack(r) /\ Len(r) = Len(stack) - 1
                    /\ IsVerdict(r, Last(s), {"k1"}, phase, separator)
                    /\ Goes(r, opCount + 1) \/ Stops(r, opCount + 1)
          \/ Crashes
          \/ FailsFor(TRUE)
      BY <2>1, <3>1, CheckSigStep
    <3>3. ASSUME NEW r, IsStack(r), Len(r) = Len(stack) - 1,
                 IsVerdict(r, Last(s), {"k1"}, phase, separator),
                 Goes(r, 1)
          PROVE  \E q, n : Goes(q, n) /\ AtPubkey(Tail(script), q, n, s, phase, separator)
      <4>1. AtPubkey(Tail(script), r, 1, s, phase, separator)
        BY <2>1, <2>3, <3>3 DEF AtPubkey
      <4> QED
        BY <3>3, <4>1
    <3>4. ASSUME NEW r, IsStack(r), Len(r) = Len(stack) - 1, Stops(r, 1)
          PROVE  FailsFor(TRUE)
      <4>1. Len(r) <= Len(stackCopy) + 4
        BY <1>1, <1>2, <2>0, <3>4
      <4> QED
        BY <3>4, <4>1, StopsFor
    <3>5. opCount + 1 = 1
      BY <1>5
    <3> QED
      BY <3>2, <3>3, <3>4, <3>5, FailsWeaker
  <2> QED
    BY <2>2, <2>3
<1> QED
  BY <1>4, <1>5, SomethingLeft DEF AtPubkey

LEMMA PubkeyHashStep ==
    ASSUME Running, phase = "output",
           AtPubkeyHash(script, stack, opCount, stackCopy, separator)
    PROVE  \/ \E r, n : Goes(r, n) /\ AtPubkeyHash(Tail(script), r, n, stackCopy, separator)
           \/ Crashes
           \/ FailsFor(/\ Len(stackCopy) >= 2 /\ Last(stackCopy) = K1
                       /\ IsSigOf(stackCopy[Len(stackCopy) - 1], "k1", <<"output", 0>>))
<1> DEFINE s == stackCopy
           D == /\ Len(s) >= 2 /\ Last(s) = K1
                /\ IsSigOf(s[Len(s) - 1], "k1", <<"output", 0>>)
           h == <<"hash", Last(s)>>
           t == Append(s, h)
           hk == <<"hash", K1>>
           u == Append(t, hk)
<1>1. IsStack(s) /\ s # << >> /\ Len(s) \in Nat /\ Len(s) >= 1 /\ IsValue(Last(s)) /\ Top(s, 1) = Last(s)
  BY StackElim, RunningFacts, FrontStack, TopIsLast DEF Entered
<1>2. IsValue(h) /\ IsValue(hk)
  BY MadeValues
<1> HIDE DEF s, D, h, hk
<1>3. IsStack(t) /\ Len(t) = Len(s) + 1 /\ Top(t, 1) = h
  BY <1>1, <1>2, AppendStack, AppendTop
<1> HIDE DEF t
<1>4. IsStack(u) /\ Len(u) = Len(s) + 2 /\ Top(u, 1) = hk /\ Top(u, 2) = h /\ Below(u, 2) = s
  <2>1. IsStack(u) /\ Len(u) = Len(t) + 1 /\ Top(u, 1) = hk
    BY <1>2, <1>3, AppendStack, AppendTop
  <2>2. 1 \in 1 .. Len(t)
    BY <1>1, <1>3
  <2>3. Top(u, 1 + 1) = Top(t, 1)
    BY <1>3, <2>2, AppendTop
  <2>4. Below(u, 2) = s
    BY <1>1, <1>2, BelowTwice DEF t
  <2>5. Len(t) + 1 = Len(s) + 2
    BY <1>1, <1>3
  <2> QED
    BY <1>3, <2>1, <2>3, <2>4, <2>5
<1> HIDE DEF u
<1>5. ASSUME NEW r, IsStack(r), Len(r) <= Len(s) + 4, NEW n \in {0, 1, 2, 3, 4},
             Goes(r, n) \/ Stops(r, n), AtPubkeyHash(Tail(script), r, n, s, separator)
      PROVE  \/ \E q, m : Goes(q, m) /\ AtPubkeyHash(Tail(script), q, m, s, separator)
             \/ FailsFor(D)
  <2>1. CASE Stops(r, n)
    BY <1>5, <2>1, StopsFor, FailsWeaker DEF s
  <2> QED
    BY <1>5, <2>1
<1>6. CASE script = Standard.pubkeyhash /\ stack = s /\ opCount = 0
  <2>1. Head(script) = Op("OP_DUP")
        /\ Tail(script) = <<Op("OP_HASH160"), Push(<<"hash", K1>>), Op("OP_EQUALVERIFY"), Op("OP_CHECKSIG")>>
    BY <1>6, Lists DEF Standard
  <2> DEFINE r == Append(s, Last(s))
  <2>2. Goes(r, 1) \/ Stops(r, 1)
    BY <1>1, <1>6, <2>1, DupStep
  <2>3. IsStack(r) /\ Len(r) = Len(s) + 1
    BY <1>1, AppendStack
  <2>4. AtPubkeyHash(Tail(script), r, 1, s, separator)
    BY <2>1 DEF AtPubkeyHash
  <2> HIDE DEF r
  <2>5. Len(r) <= Len(s) + 4
    BY <1>1, <2>3
  <2>20. \/ \E q, m : Goes(q, m) /\ AtPubkeyHash(Tail(script), q, m, s, separator)
         \/ FailsFor(D)
    BY <1>5, <2>2, <2>3, <2>4, <2>5
  <2> QED
    BY <2>20 DEF s, D
<1>7. CASE /\ script = <<Op("OP_HASH160"), Push(<<"hash", K1>>), Op("OP_EQUALVERIFY"), Op("OP_CHECKSIG")>>
           /\ stack = Append(s, Last(s)) /\ opCount = 1
  <2>1. Head(script) = Op("OP_HASH160")
        /\ Tail(script) = <<Push(<<"hash", K1>>), Op("OP_EQUALVERIFY"), Op("OP_CHECKSIG")>>
    BY <1>7, Lists
  <2>2. stack # << >> /\ Last(stack) = Last(s) /\ Front(stack) = s
    BY <1>1, <1>7, AppendTop, BelowAppend
  <2>3. Goes(t, 2) \/ Stops(t, 2)
    BY <1>7, <2>1, <2>2, HashStep DEF t, h
  <2>4. AtPubkeyHash(Tail(script), t, 2, s, separator)
    BY <2>1 DEF AtPubkeyHash, t, h
  <2>5. Len(t) <= Len(s) + 4
    BY <1>1, <1>3
  <2>20. \/ \E q, m : Goes(q, m) /\ AtPubkeyHash(Tail(script), q, m, s, separator)
         \/ FailsFor(D)
    BY <1>3, <1>5, <2>3, <2>4, <2>5
  <2> QED
    BY <2>20 DEF s, D
<1>8. CASE /\ script = <<Push(<<"hash", K1>>), Op("OP_EQUALVERIFY"), Op("OP_CHECKSIG")>>
           /\ stack = Append(s, <<"hash", Last(s)>>) /\ opCount = 2
  <2>1. Head(script) = Push(hk) /\ Tail(script) = <<Op("OP_EQUALVERIFY"), Op("OP_CHECKSIG")>>
    BY <1>8, Lists DEF hk
  <2>2. Goes(u, 2) \/ Stops(u, 2)
    BY <1>2, <1>8, <2>1, PushStep DEF u, t, h
  <2>3. AtPubkeyHash(Tail(script), u, 2, s, separator)
    BY <2>1 DEF AtPubkeyHash, u, t, h, hk
  <2>4. Len(u) <= Len(s) + 4
    BY <1>1, <1>4
  <2>20. \/ \E q, m : Goes(q, m) /\ AtPubkeyHash(Tail(script), q, m, s, separator)
         \/ FailsFor(D)
    BY <1>4, <1>5, <2>2, <2>3, <2>4
  <2> QED
    BY <2>20 DEF s, D
<1>9. CASE /\ script = <<Op("OP_EQUALVERIFY"), Op("OP_CHECKSIG")>>
           /\ stack = Append(Append(s, <<"hash", Last(s)>>), <<"hash", K1>>) /\ opCount = 2
  <2>1. Head(script) = Op("OP_EQUALVERIFY") /\ Tail(script) = <<Op("OP_CHECKSIG")>>
    BY <1>9, Lists
  <2>2. stack = u
    BY <1>9 DEF u, t, h, hk
  <2>3. Len(stack) >= 2
    BY <1>1, <1>4, <2>2
  <2>4. (h = hk) <=> (Last(s) = K1)
    BY DEF h, hk
  <2>5. \/ h = hk /\ (Goes(s, 3) \/ Stops(s, 3))
        \/ FailsFor(h = hk)
    <3>1. opCount + 1 = 3
      BY <1>9
    <3>2. Top(stack, 2) = h /\ Top(stack, 1) = hk /\ Below(stack, 2) = s
      BY <1>4, <2>2, Zenon
    <3> QED
      BY <2>1, <2>3, <3>1, <3>2, EqualVerifyStep
  <2>6. CASE h = hk /\ (Goes(s, 3) \/ Stops(s, 3))
    <3>1. AtPubkeyHash(Tail(script), s, 3, s, separator)
      BY <2>1, <2>4, <2>6 DEF AtPubkeyHash
    <3>2. Len(s) <= Len(s) + 4
      BY <1>1
    <3>20. \/ \E q, m : Goes(q, m) /\ AtPubkeyHash(Tail(script), q, m, s, separator)
           \/ FailsFor(D)
      BY <1>1, <1>5, <2>6, <3>1, <3>2
    <3> QED
      BY <3>20 DEF s, D
  <2>7. CASE FailsFor(h = hk)
    <3>1. FailsFor(D)
      BY <2>4, <2>7 DEF FailsFor, D
    <3> QED
      BY <3>1 DEF s, D
  <2> QED
    BY <2>5, <2>6, <2>7
<1>10. CASE script = <<Op("OP_CHECKSIG")>> /\ stack = s /\ Last(s) = K1 /\ opCount = 3
  <2>1. Head(script) = Op("OP_CHECKSIG") /\ Tail(script) = << >>
    BY <1>10, Lists
  <2>2. CASE Len(s) < 2
    <3>1. CheckSig("OP_CHECKSIG")
      BY <2>1, StandardNames DEF Running, Entered
    <3>2. Reads("OP_CHECKSIG", None) /\ phase' = "failed"
      BY <1>10, <2>2, <3>1 DEF CheckSig, Fails, EndsAs
    <3>3. FailsFor(D)
      BY <1>1, <2>2, <3>2, ReadsKept DEF FailsFor, D
    <3> QED
      BY <3>3 DEF s, D
  <2>3. CASE ~(Len(s) < 2)
    <3>1. Len(stack) >= 2 /\ Top(stack, 1) = K1 /\ Top(stack, 2) = s[Len(s) - 1]
      BY <1>1, <1>10, <2>3, TopIsLast
    <3>2. \/ \E r : /\ IsStack(r) /\ Len(r) = Len(stack) - 1
                    /\ IsVerdict(r, s[Len(s) - 1], {"k1"}, "output", separator)
                    /\ Goes(r, 4) \/ Stops(r, 4)
          \/ Crashes
          \/ FailsFor(TRUE)
      <4>1. opCount + 1 = 4
        BY <1>10
      <4> QED
        BY <2>1, <3>1, <4>1, CheckSigStep
    <3>3. ASSUME NEW r, IsStack(r), Len(r) = Len(stack) - 1,
                 IsVerdict(r, s[Len(s) - 1], {"k1"}, "output", separator),
                 Goes(r, 4) \/ Stops(r, 4)
          PROVE  \/ \E q, m : Goes(q, m) /\ AtPubkeyHash(Tail(script), q, m, s, separator)
                 \/ FailsFor(D)
      <4>1. AtPubkeyHash(Tail(script), r, 4, s, separator)
        BY <1>1, <1>10, <2>1, <2>3, <3>3 DEF AtPubkeyHash
      <4>2. Len(r) <= Len(s) + 4
        BY <1>1, <1>10, <3>3
      <4> QED
        BY <1>5, <3>3, <4>1, <4>2
    <3>4. FailsFor(TRUE) => FailsFor(D)
      BY FailsWeaker
    <3>5. \/ \E q, m : Goes(q, m) /\ AtPubkeyHash(Tail(script), q, m, s, separator)
          \/ Crashes
          \/ FailsFor(D)
      BY <3>2, <3>3, <3>4
    <3> QED
      BY <3>5 DEF s, D
  <2> QED
    BY <2>2, <2>3
<1> QED
  BY <1>6, <1>7, <1>8, <1>9, <1>10, SomethingLeft DEF AtPubkeyHash, s

LEMMA MultisigStep ==
    ASSUME Running, phase = "output",
           AtMultisig(script, stack, opCount, stackCopy, separator)
    PROVE  \/ \E r, n : Goes(r, n) /\ AtMultisig(Tail(script), r, n, stackCopy, separator)
           \/ Crashes
           \/ FailsFor(Len(stackCopy) >= 2)
<1> DEFINE s == stackCopy
           D == Len(s) >= 2
           a == Append(s, Num(1))
           b == Append(a, K1)
           c == Append(b, K2)
           d == Append(c, Num(2))
<1>1. IsStack(s) /\ Len(s) \in Nat
  BY StackElim, RunningFacts
<1> HIDE DEF s, D
<1>2. IsStack(a) /\ Len(a) = Len(s) + 1
  BY <1>1, MadeValues, AppendStack
<1> HIDE DEF a
<1>3. IsStack(b) /\ Len(b) = Len(a) + 1
  BY <1>2, MadeValues, AppendStack
<1> HIDE DEF b
<1>4. IsStack(c) /\ Len(c) = Len(b) + 1
  BY <1>3, MadeValues, AppendStack
<1> HIDE DEF c
<1>5. IsStack(d) /\ Len(d) = Len(c) + 1
  BY <1>4, MadeValues, AppendStack
<1> HIDE DEF d
<1>6. Len(a) <= Len(s) + 4 /\ Len(b) <= Len(s) + 4 /\ Len(c) <= Len(s) + 4 /\ Len(d) <= Len(s) + 4
  BY <1>1, <1>2, <1>3, <1>4, <1>5
<1>7. ASSUME NEW r, IsStack(r), Len(r) <= Len(s) + 4, NEW n \in {0, 1, 2, 3, 4},
             Goes(r, n) \/ Stops(r, n), AtMultisig(Tail(script), r, n, s, separator)
      PROVE  \/ \E q, m : Goes(q, m) /\ AtMultisig(Tail(script), q, m, s, separator)
             \/ FailsFor(D)
  <2>1. CASE Stops(r, n)
    BY <1>7, <2>1, StopsFor, FailsWeaker DEF s
  <2> QED
    BY <1>7, <2>1
<1>8. CASE script = Standard.multisig /\ stack = s /\ opCount = 0
  <2>1. Head(script) = Push(Num(1))
        /\ Tail(script) = <<Push(K1), Push(K2), Push(Num(2)), Op("OP_CHECKMULTISIG")>>
    BY <1>8, Lists DEF Standard
  <2>2. Goes(a, 0) \/ Stops(a, 0)
    BY <1>8, <2>1, MadeValues, PushStep DEF a
  <2>3. AtMultisig(Tail(script), a, 0, s, separator)
    BY <2>1 DEF AtMultisig, a
  <2>20. \/ \E q, m : Goes(q, m) /\ AtMultisig(Tail(script), q, m, s, separator)
         \/ FailsFor(D)
    BY <1>2, <1>6, <1>7, <2>2, <2>3
  <2> QED
    BY <2>20 DEF s, D
<1>9. CASE /\ script = <<Push(K1), Push(K2), Push(Num(2)), Op("OP_CHECKMULTISIG")>>
           /\ stack = Append(s, Num(1)) /\ opCount = 0
  <2>1. Head(script) = Push(K1) /\ Tail(script) = <<Push(K2), Push(Num(2)), Op("OP_CHECKMULTISIG")>>
    BY <1>9, Lists
  <2>2. Goes(b, 0) \/ Stops(b, 0)
    BY <1>9, <2>1, MadeValues, PushStep DEF a, b
  <2>3. AtMultisig(Tail(script), b, 0, s, separator)
    BY <2>1 DEF AtMultisig, a, b
  <2>20. \/ \E q, m : Goes(q, m) /\ AtMultisig(Tail(script), q, m, s, separator)
         \/ FailsFor(D)
    BY <1>3, <1>6, <1>7, <2>2, <2>3
  <2> QED
    BY <2>20 DEF s, D
<1>10. CASE /\ script = <<Push(K2), Push(Num(2)), Op("OP_CHECKMULTISIG")>>
            /\ stack = Append(Append(s, Num(1)), K1) /\ opCount = 0
  <2>1. Head(script) = Push(K2) /\ Tail(script) = <<Push(Num(2)), Op("OP_CHECKMULTISIG")>>
    BY <1>10, Lists
  <2>2. Goes(c, 0) \/ Stops(c, 0)
    BY <1>10, <2>1, MadeValues, PushStep DEF a, b, c
  <2>3. AtMultisig(Tail(script), c, 0, s, separator)
    BY <2>1 DEF AtMultisig, a, b, c
  <2>20. \/ \E q, m : Goes(q, m) /\ AtMultisig(Tail(script), q, m, s, separator)
         \/ FailsFor(D)
    BY <1>4, <1>6, <1>7, <2>2, <2>3
  <2> QED
    BY <2>20 DEF s, D
<1>11. CASE /\ script = <<Push(Num(2)), Op("OP_CHECKMULTISIG")>>
            /\ stack = Append(Append(Append(s, Num(1)), K1), K2) /\ opCount = 0
  <2>1. Head(script) = Push(Num(2)) /\ Tail(script) = <<Op("OP_CHECKMULTISIG")>>
    BY <1>11, Lists
  <2>2. Goes(d, 0) \/ Stops(d, 0)
    BY <1>11, <2>1, MadeValues, PushStep DEF a, b, c, d
  <2>3. AtMultisig(Tail(script), d, 0, s, separator)
    BY <2>1 DEF AtMultisig, a, b, c, d
  <2>20. \/ \E q, m : Goes(q, m) /\ AtMultisig(Tail(script), q, m, s, separator)
         \/ FailsFor(D)
    BY <1>5, <1>6, <1>7, <2>2, <2>3
  <2> QED
    BY <2>20 DEF s, D
<1>12. CASE /\ script = <<Op("OP_CHECKMULTISIG")>>
            /\ stack = Append(Append(Append(Append(s, Num(1)), K1), K2), Num(2)) /\ opCount = 0
  <2>1. Head(script) = Op("OP_CHECKMULTISIG") /\ Tail(script) = << >> /\ opCount + 3 = 3
    BY <1>12, Lists
  <2>2. \/ \E r : /\ Len(s) >= 2 /\ IsStack(r) /\ Len(r) = Len(s) - 1
                  /\ IsVerdict(r, Last(s), {"k1", "k2"}, "output", separator)
                  /\ Goes(r, 3) \/ Stops(r, 3)
        \/ Crashes
        \/ FailsFor(D)
    BY <1>1, <1>12, <2>1, CheckMultisigStep DEF D
  <2>3. ASSUME NEW r, Len(s) >= 2, IsStack(r), Len(r) = Len(s) - 1,
               IsVerdict(r, Last(s), {"k1", "k2"}, "output", separator),
               Goes(r, 3) \/ Stops(r, 3)
        PROVE  \/ \E q, m : Goes(q, m) /\ AtMultisig(Tail(script), q, m, s, separator)
               \/ FailsFor(D)
    <3>1. AtMultisig(Tail(script), r, 3, s, separator)
      BY <2>1, <2>3 DEF AtMultisig
    <3>2. Len(r) <= Len(s) + 4
      BY <1>1, <2>3
    <3> QED
      BY <1>7, <2>3, <3>1, <3>2
  <2>4. \/ \E q, m : Goes(q, m) /\ AtMultisig(Tail(script), q, m, s, separator)
        \/ Crashes
        \/ FailsFor(D)
    BY <2>2, <2>3
  <2> QED
    BY <2>4 DEF s, D
<1> QED
  BY <1>8, <1>9, <1>10, <1>11, <1>12, SomethingLeft DEF AtMultisig, s

LEMMA ScripthashStep ==
    ASSUME Running, phase = "output",
           AtScripthash(script, stack, opCount, stackCopy)
    PROVE  \/ \E r, n : Goes(r, n) /\ AtScripthash(Tail(script), r, n, stackCopy)
           \/ FailsFor(TRUE)
<1> DEFINE s == stackCopy
           b == Front(s)
           h == <<"hash", Last(s)>>
           hr == <<"hash", Redeem>>
           t == Append(b, h)
           u == Append(t, hr)
<1>1. IsStack(s) /\ s # << >> /\ Len(s) \in Nat /\ IsStack(b) /\ Len(b) = Len(s) - 1 /\ Len(s) > 0
  BY StackElim, RunningFacts, FrontStack DEF Entered
<1>2. IsValue(h) /\ IsValue(hr)
  BY MadeValues
<1> HIDE DEF s, b, h, hr
<1>3. IsStack(t) /\ Len(t) = Len(b) + 1 /\ Top(t, 1) = h
  BY <1>1, <1>2, AppendStack, AppendTop
<1>4. IsStack(u) /\ Len(u) = Len(t) + 1 /\ Top(u, 1) = hr
  <2> HIDE DEF t
  <2> QED
    BY <1>2, <1>3, AppendStack, AppendTop
<1>5. Below(u, 2) = b
  BY <1>1, <1>2, BelowTwice
<1> HIDE DEF t
<1>6. Top(u, 2) = h
  <2>1. 1 \in 1 .. Len(t)
    BY <1>1, <1>3
  <2>2. Top(u, 1 + 1) = Top(t, 1)
    BY <1>3, <2>1, AppendTop
  <2> QED
    BY <1>3, <2>2
<1> HIDE DEF u
<1>7. Len(t) <= Len(s) + 4 /\ Len(u) <= Len(s) + 4 /\ Len(u) >= 2
  BY <1>1, <1>3, <1>4
<1>8. ASSUME NEW r, IsStack(r), Len(r) <= Len(s) + 4, NEW n \in {0, 1, 2, 3, 4},
             Goes(r, n) \/ Stops(r, n), AtScripthash(Tail(script), r, n, s)
      PROVE  \/ \E q, m : Goes(q, m) /\ AtScripthash(Tail(script), q, m, s)
             \/ FailsFor(TRUE)
  <2>1. CASE Stops(r, n)
    BY <1>8, <2>1, StopsFor DEF s
  <2> QED
    BY <1>8, <2>1
<1>9. CASE script = Standard.scripthash /\ stack = s /\ opCount = 0
  <2>1. Head(script) = Op("OP_HASH160") /\ Tail(script) = <<Push(<<"hash", Redeem>>), Op("OP_EQUAL")>>
    BY <1>9, Lists DEF Standard
  <2>2. Goes(t, 1) \/ Stops(t, 1)
    BY <1>1, <1>9, <2>1, HashStep DEF t, h, b
  <2>3. AtScripthash(Tail(script), t, 1, s)
    BY <2>1 DEF AtScripthash, t, h, b
  <2>20. \/ \E q, m : Goes(q, m) /\ AtScripthash(Tail(script), q, m, s)
         \/ FailsFor(TRUE)
    BY <1>3, <1>7, <1>8, <2>2, <2>3
  <2> QED
    BY <2>20 DEF s
<1>10. CASE /\ script = <<Push(<<"hash", Redeem>>), Op("OP_EQUAL")>>
            /\ stack = Append(Front(s), <<"hash", Last(s)>>) /\ opCount = 1
  <2>1. Head(script) = Push(hr) /\ Tail(script) = <<Op("OP_EQUAL")>>
    BY <1>10, Lists DEF hr
  <2>2. Goes(u, 1) \/ Stops(u, 1)
    BY <1>2, <1>10, <2>1, PushStep DEF u, t, h, b
  <2>3. AtScripthash(Tail(script), u, 1, s)
    BY <2>1 DEF AtScripthash, u, t, h, b, hr
  <2>20. \/ \E q, m : Goes(q, m) /\ AtScripthash(Tail(script), q, m, s)
         \/ FailsFor(TRUE)
    BY <1>4, <1>7, <1>8, <2>2, <2>3
  <2> QED
    BY <2>20 DEF s
<1>11. CASE /\ script = <<Op("OP_EQUAL")>>
            /\ stack = Append(Append(Front(s), <<"hash", Last(s)>>), <<"hash", Redeem>>) /\ opCount = 1
  <2> DEFINE v == FromBool(Top(stack, 2) = Top(stack, 1))
             r == Append(b, v)
  <2>1. Head(script) = Op("OP_EQUAL") /\ Tail(script) = << >> /\ opCount + 1 = 2
    BY <1>11, Lists
  <2>2. stack = u
    BY <1>11 DEF u, t, h, b, hr
  <2>3. Goes(r, 2) \/ Stops(r, 2)
    BY <1>5, <1>7, <2>1, <2>2, EqualStep
  <2>4. v = FromBool(Last(s) = Redeem)
    <3>1. (h = hr) <=> (Last(s) = Redeem)
      BY DEF h, hr
    <3> QED
      BY <1>4, <1>6, <2>2, <3>1 DEF FromBool
  <2>5. IsValue(v)
    BY MadeValues
  <2> HIDE DEF v
  <2>6. IsStack(r) /\ Len(r) = Len(b) + 1 /\ r # << >> /\ Last(r) = v
    BY <1>1, <2>5, AppendStack, AppendTop
  <2> HIDE DEF r
  <2>7. AtScripthash(Tail(script), r, 2, s)
    BY <2>1, <2>4, <2>6 DEF AtScripthash
  <2>8. Len(r) <= Len(s) + 4
    BY <1>1, <2>6
  <2>20. \/ \E q, m : Goes(q, m) /\ AtScripthash(Tail(script), q, m, s)
         \/ FailsFor(TRUE)
    BY <1>8, <2>3, <2>6, <2>7, <2>8
  <2> QED
    BY <2>20 DEF s
<1> QED
  BY <1>9, <1>10, <1>11, SomethingLeft DEF AtScripthash, s

----------------------------------------------------------------------------
(* The whole invariant *)

(* What an instruction leaves of the phase, the separator and, if it is a   *)
(* push, the other stack                                                    *)
Frame(name) ==
    /\ phase' \in {phase, "failed", "crashed"}
    /\ phase' = phase => separator' = separator \/ separator' = <<phase, read + 1>>
    /\ phase' = phase /\ name = "push" => altStack' = altStack /\ separator' = separator

LEMMA EndsFrame ==
    ASSUME phase \in Scripts, NEW p \in {"failed", "crashed"}, EndsAs(p), NEW name
    PROVE  Frame(name)
BY DEF EndsAs, Frame, Scripts

LEMMA ContinuesFrame ==
    ASSUME phase \in Scripts, NEW s, NEW a, NEW e, NEW n, Continues(s, a, e, n), NEW name,
           name = "push" => a = altStack
    PROVE  Frame(name)
<1>1. CASE Fails
  BY <1>1, EndsFrame DEF Fails
<1>2. CASE ~Fails
  BY <1>2 DEF Continues, Frame
<1> QED
  BY <1>1, <1>2

LEMMA CheckedFrame ==
    ASSUME phase \in Scripts, NEW n, NEW good, NEW verify, NEW count,
           StaleRange \/ Checked(n, good, verify, count), NEW name
    PROVE  Frame(name)
<1>1. CASE StaleRange
  BY <1>1, EndsFrame DEF StaleRange
<1>2. CASE Checked(n, good, verify, count)
  <2>1. CASE Fails
    BY <2>1, EndsFrame DEF Fails
  <2>2. CASE ~Fails
    BY <1>2, <2>2, ContinuesFrame DEF Checked
  <2> QED
    BY <2>1, <2>2
<1> QED
  BY <1>1, <1>2

LEMMA InstructionFrame ==
    ASSUME Instruction
    PROVE  \E name, v : Reads(name, v) /\ Frame(name)
<1>0. \A name, v : Reads(name, v) => phase \in Scripts
  BY DEF Reads
<1>1. \A name : phase \in Scripts /\ Fails => Frame(name)
  BY EndsFrame DEF Fails
<1>2. "push" \notin StackOps \cup OtherOps
  BY NeedsFacts DEF StackOps, OtherOps, Unary, Binary, Compares, Verifies, Ignored
<1>3. ASSUME NEW v, PushValue(v) PROVE Reads("push", v) /\ Frame("push")
  BY <1>0, <1>3, ContinuesFrame DEF PushValue
<1>4. ASSUME NEW op \in Refused, Refuse(op) PROVE Reads(op, None) /\ Frame(op)
  BY <1>0, <1>1, <1>4 DEF Refuse
<1>5. ASSUME NEW op \in StackOps \cup OtherOps, Skip(op) PROVE Reads(op, None) /\ Frame(op)
  BY <1>0, <1>5, ContinuesFrame DEF Skip
<1>6. ASSUME NEW op \in StackOps, StackOp(op) PROVE Reads(op, None) /\ Frame(op)
  BY <1>0, <1>1, <1>6, ContinuesFrame DEF StackOp
<1>7. ASSUME NEW op \in {"OP_IF", "OP_NOTIF"}, If(op) PROVE Reads(op, None) /\ Frame(op)
  BY <1>0, <1>1, <1>7, ContinuesFrame DEF If
<1>8. ASSUME Else PROVE Reads("OP_ELSE", None) /\ Frame("OP_ELSE")
  BY <1>0, <1>1, <1>8, ContinuesFrame DEF Else
<1>9. ASSUME EndIf PROVE Reads("OP_ENDIF", None) /\ Frame("OP_ENDIF")
  BY <1>0, <1>1, <1>9, ContinuesFrame DEF EndIf
<1>10. ASSUME ToAltStack PROVE Reads("OP_TOALTSTACK", None) /\ Frame("OP_TOALTSTACK")
  BY <1>0, <1>1, <1>10, ContinuesFrame DEF ToAltStack
<1>11. ASSUME FromAltStack PROVE Reads("OP_FROMALTSTACK", None) /\ Frame("OP_FROMALTSTACK")
  BY <1>0, <1>1, <1>11, ContinuesFrame DEF FromAltStack
<1>12. ASSUME CodeSeparator PROVE Reads("OP_CODESEPARATOR", None) /\ Frame("OP_CODESEPARATOR")
  <2>1. CASE Fails
    BY <1>0, <1>1, <1>12, <2>1 DEF CodeSeparator
  <2>2. CASE ~Fails
    BY <1>12, <2>2 DEF CodeSeparator, Frame
  <2> QED
    BY <2>1, <2>2
<1>13. ASSUME NEW op \in {"OP_CHECKSIG", "OP_CHECKSIGVERIFY"}, CheckSig(op)
       PROVE  Reads(op, None) /\ Frame(op)
  BY <1>0, <1>1, <1>13, CheckedFrame DEF CheckSig
<1>14. ASSUME NEW op \in {"OP_CHECKMULTISIG", "OP_CHECKMULTISIGVERIFY"}, CheckMultisig(op)
       PROVE  Reads(op, None) /\ Frame(op)
  BY <1>0, <1>1, <1>14, CheckedFrame DEF CheckMultisig
<1> QED
  BY <1>3, <1>4, <1>5, <1>6, <1>7, <1>8, <1>9, <1>10, <1>11, <1>12, <1>13, <1>14 DEF Instruction

Parts == InSignature /\ InOutput /\ InRedeem /\ OutputsAreSigned /\ OwnersCanSpend

(* When it has failed or crashed, only a reason to fail is asked for. *)
LEMMA EndedParts ==
    ASSUME phase' \in {"failed", "crashed"},
           phase' = "crashed" \/ ~fixed' \/ OwnersCanSpend'
    PROVE  Parts'
<1>1. OwnersCanSpend'
  BY DEF OwnersCanSpend
<1> QED
  BY <1>1 DEF Parts, InSignature, InOutput, InRedeem, OutputsAreSigned

LEMMA SignatureStep ==
    ASSUME SInv, phase = "signature", Instruction
    PROVE  Parts'
<1>1. PICK name, v : Reads(name, v) /\ Frame(name)
  BY InstructionFrame
<1>2. ~fixed /\ fixed' = fixed
  BY <1>1 DEF SInv, InSignature, Reads
<1>3. CASE phase' = phase
  <2>1. separator' = None \/ separator'[1] = "signature"
    <3>1. separator' = separator \/ separator' = <<"signature", read + 1>>
      BY <1>1, <1>3 DEF Frame
    <3> QED
      BY <3>1 DEF SInv, InSignature
  <2>2. pushOnly' => separator' = None /\ altStack' = << >>
    <3>1. SUFFICES ASSUME pushOnly' PROVE separator' = None /\ altStack' = << >>
      OBVIOUS
    <3>2. pushOnly' = (pushOnly /\ (phase = "signature" => name = "push"))
      BY <1>1 DEF Reads
    <3>3. pushOnly /\ name = "push"
      BY <3>1, <3>2
    <3>4. separator' = separator /\ altStack' = altStack
      BY <1>1, <1>3, <3>3 DEF Frame
    <3> QED
      BY <3>3, <3>4 DEF SInv, InSignature
  <2>3. InSignature'
    BY <1>2, <2>1, <2>2 DEF InSignature
  <2> QED
    BY <1>3, <2>3 DEF Parts, InOutput, InRedeem, OutputsAreSigned, OwnersCanSpend
<1>4. CASE phase' \in {"failed", "crashed"}
  BY <1>2, <1>4, EndedParts
<1> QED
  BY <1>1, <1>3, <1>4 DEF Frame

(* A script that is not a standard one may do anything. *)
LEMMA FreeStep ==
    ASSUME SInv, phase \in {"output", "redeem"}, ~fixed, Instruction
    PROVE  Parts'
<1>1. PICK name, v : Reads(name, v) /\ Frame(name)
  BY InstructionFrame
<1>2. UNCHANGED <<kind, strict, fixed, stackCopy>>
  BY <1>1 DEF Reads
<1>3. CASE phase' = phase
  <2>1. InOutput'
    BY <1>2, <1>3 DEF SInv, InOutput
  <2>2. InRedeem'
    BY <1>2, <1>3 DEF SInv, InRedeem
  <2> QED
    BY <1>3, <2>1, <2>2 DEF Parts, InSignature, OutputsAreSigned, OwnersCanSpend
<1>4. CASE phase' \in {"failed", "crashed"}
  BY <1>2, <1>4, EndedParts
<1> QED
  BY <1>1, <1>3, <1>4 DEF Frame

LEMMA GoesEntered ==
    ASSUME Running, NEW r, NEW n, Goes(r, n)
    PROVE  Entered' /\ Kept /\ phase' = phase /\ separator' = separator
           /\ script' = Tail(script) /\ stack' = r /\ opCount' = n
<1>1. UNCHANGED <<stackCopy, altStack, execStack, separator, pushOnly>>
  BY DEF Goes, Kept
<1> QED
  BY <1>1, RunningFacts DEF Goes, Entered

(* The last of what the signature script left, and the one before it *)
LEMMA CopyFacts ==
    ASSUME NEW s, IsStack(s), s # << >>
    PROVE  /\ Last(s) = s[Len(s)] /\ Len(s) \in Nat
           /\ IsStack(Front(s)) /\ Len(Front(s)) <= Len(s)
           /\ Len(s) >= 2 => Front(s) # << >> /\ Last(Front(s)) = s[Len(s) - 1]
           /\ Front(s) # << >> => Len(s) >= 2
<1> DEFINE b == Front(s)
<1>2. /\ Len(s) \in Nat /\ Len(s) > 0 /\ IsStack(b) /\ Len(b) = Len(s) - 1 /\ b = Below(s, 1)
      /\ Last(s) = s[Len(s)] /\ s \in Seq(Range(s))
  BY FrontStack, StackElim
<1>3. Len(s) >= 2 => b # << >> /\ Last(b) = s[Len(s) - 1]
  <2>1. SUFFICES ASSUME Len(s) >= 2 PROVE b # << >> /\ Last(b) = s[Len(s) - 1]
    OBVIOUS
  <2>2. IsBelow(b, s, 1)
    <3>1. 1 \in 0 .. Len(s)
      BY <1>2
    <3> QED
      BY <1>2, <3>1, BelowFacts
  <2> HIDE DEF b
  <2>3. Len(b) # 0
    BY <1>2, <2>1
  <2>4. b # << >>
    BY <2>3
  <2>5. Last(b) = b[Len(b)]
    BY <1>2, <2>4, FrontStack
  <2>6. b[Len(s) - 1] = s[Len(s) - 1]
    BY <1>2, <2>1, <2>2 DEF IsBelow
  <2> QED
    BY <1>2, <2>4, <2>5, <2>6
<1> HIDE DEF b
<1>4. Len(b) <= Len(s)
  BY <1>2
<1>5. b # << >> => Len(s) >= 2
  <2>1. b # << >> => Len(b) > 0
    BY <1>2, FrontStack
  <2> QED
    BY <1>2, <2>1
<1> QED
  BY <1>2, <1>3, <1>4, <1>5 DEF b

(* A standard script of an output goes on to its next place, or fails the   *)
(* verification for a reason that OwnersCanSpend allows.                    *)
LEMMA OutputStep ==
    ASSUME SInv, phase = "output", fixed, Instruction
    PROVE  Parts'
<1> DEFINE s == stackCopy
           m == Len(s)
<1>1. Running /\ InOutput /\ Typed
  BY DEF SInv, InOutput, Running
<1>2. Last(s) = s[m] /\ m \in Nat /\ s # << >> /\ kind # "free"
  <2>1. IsStack(s) /\ s # << >>
    BY <1>1, RunningFacts DEF Entered
  <2> HIDE DEF s
  <2>2. Last(s) = s[m] /\ m \in Nat
    BY <2>1, CopyFacts
  <2> QED
    BY <1>1, <2>1, <2>2 DEF InOutput
<1>3. kind \in {"pubkey", "pubkeyhash", "multisig", "scripthash"}
  BY <1>1, <1>2 DEF Typed, RestOK, Standard
<1>4. ASSUME Crashes PROVE Parts'
  BY <1>4, EndedParts DEF Crashes
<1>5. ASSUME NEW r, NEW n, Goes(r, n),
             kind = "pubkey" => AtPubkey(Tail(script), r, n, s, "output", separator),
             kind = "pubkeyhash" => AtPubkeyHash(Tail(script), r, n, s, separator),
             kind = "multisig" => AtMultisig(Tail(script), r, n, s, separator),
             kind = "scripthash" => AtScripthash(Tail(script), r, n, s)
      PROVE  Parts'
  <2>1. /\ Entered' /\ phase' = "output" /\ separator' = separator /\ stackCopy' = stackCopy
        /\ kind' = kind /\ fixed' = fixed
        /\ script' = Tail(script) /\ stack' = r /\ opCount' = n
    BY <1>1, <1>5, GoesEntered DEF Kept
  <2>2. InOutput'
    BY <1>2, <1>5, <2>1 DEF InOutput
  <2> QED
    BY <2>1, <2>2 DEF Parts, InSignature, InRedeem, OutputsAreSigned, OwnersCanSpend
<1>6. ASSUME NEW D, FailsFor(D), OwnersCanSpend' \/ D PROVE Parts'
  <2>1. phase' = "failed" /\ Kept /\ (Fits => ~D)
    BY <1>6 DEF FailsFor
  <2>2. OwnersCanSpend'
    <3>1. CASE Fits
      BY <1>6, <2>1, <3>1
    <3>2. CASE ~Fits
      BY <2>1, <3>2 DEF OwnersCanSpend, Fits, Kept
    <3> QED
      BY <3>1, <3>2
  <2> QED
    BY <2>1, <2>2, EndedParts
<1>7. CASE kind = "pubkey"
  <2> DEFINE D == s # << >> /\ IsSigOf(Last(s), "k1", <<"output", 0>>)
  <2>1. IsStack(s) /\ m <= m
    BY <1>1, <1>2, RunningFacts
  <2>2. AtPubkey(script, stack, opCount, s, phase, separator)
    BY <1>1, <1>7 DEF InOutput
  <2>3. \/ \E r, n : Goes(r, n) /\ AtPubkey(Tail(script), r, n, s, phase, separator)
        \/ Crashes
        \/ FailsFor(D)
    BY <1>1, <2>1, <2>2, PubkeyStep
  <2>4. ASSUME FailsFor(D) PROVE Parts'
    <3>1. OwnersCanSpend' \/ D
      BY <1>2, <1>7, <2>4 DEF OwnersCanSpend, FailsFor, Kept
    <3> HIDE DEF D
    <3> QED
      BY <1>6, <2>4, <3>1
  <2> HIDE DEF D
  <2> QED
    BY <1>4, <1>5, <1>7, <2>3, <2>4
<1>8. CASE kind = "pubkeyhash"
  <2> DEFINE D == m >= 2 /\ Last(s) = K1 /\ IsSigOf(s[m - 1], "k1", <<"output", 0>>)
  <2>1. AtPubkeyHash(script, stack, opCount, s, separator)
    BY <1>1, <1>8 DEF InOutput
  <2>2. \/ \E r, n : Goes(r, n) /\ AtPubkeyHash(Tail(script), r, n, s, separator)
        \/ Crashes
        \/ FailsFor(D)
    BY <1>1, <2>1, PubkeyHashStep
  <2>3. ASSUME FailsFor(D) PROVE Parts'
    <3>1. OwnersCanSpend' \/ D
      BY <1>2, <1>8, <2>3 DEF OwnersCanSpend, FailsFor, Kept
    <3> HIDE DEF D
    <3> QED
      BY <1>6, <2>3, <3>1
  <2> HIDE DEF D
  <2> QED
    BY <1>4, <1>5, <1>8, <2>2, <2>3
<1>9. CASE kind = "multisig"
  <2> DEFINE D == m >= 2
  <2>1. AtMultisig(script, stack, opCount, s, separator)
    BY <1>1, <1>9 DEF InOutput
  <2>2. \/ \E r, n : Goes(r, n) /\ AtMultisig(Tail(script), r, n, s, separator)
        \/ Crashes
        \/ FailsFor(D)
    BY <1>1, <2>1, MultisigStep
  <2>3. ASSUME FailsFor(D) PROVE Parts'
    <3>1. OwnersCanSpend' \/ D
      BY <1>2, <1>9, <2>3 DEF OwnersCanSpend, FailsFor, Kept
    <3> HIDE DEF D
    <3> QED
      BY <1>6, <2>3, <3>1
  <2> HIDE DEF D
  <2> QED
    BY <1>4, <1>5, <1>9, <2>2, <2>3
<1>10. CASE kind = "scripthash"
  <2>1. AtScripthash(script, stack, opCount, s)
    BY <1>1, <1>10 DEF InOutput
  <2>2. \/ \E r, n : Goes(r, n) /\ AtScripthash(Tail(script), r, n, s)
        \/ FailsFor(TRUE)
    BY <1>1, <2>1, ScripthashStep
  <2>3. ASSUME FailsFor(TRUE) PROVE Parts'
    BY <1>6, <2>3
  <2> QED
    BY <1>5, <1>10, <2>2, <2>3
<1> QED
  BY <1>3, <1>7, <1>8, <1>9, <1>10

LEMMA RedeemStep ==
    ASSUME SInv, phase = "redeem", fixed, Instruction
    PROVE  Parts'
<1> DEFINE s == stackCopy
           m == Len(s)
           b == Front(s)
           D == b # << >> /\ IsSigOf(Last(b), "k1", <<"redeem", 0>>)
<1>1. Running /\ InRedeem
  BY DEF SInv, InRedeem, Running
<1>2. /\ strict /\ kind = "scripthash" /\ s # << >> /\ Last(s) = Redeem
      /\ AtPubkey(script, stack, opCount, b, phase, separator)
  BY <1>1 DEF InRedeem
<1>3. /\ IsStack(b) /\ Len(b) <= m /\ Last(s) = s[m] /\ m \in Nat
      /\ m >= 2 => b # << >> /\ Last(b) = s[m - 1]
  <2>1. IsStack(s)
    BY <1>1, RunningFacts
  <2> QED
    BY <1>2, <2>1, CopyFacts
<1>4. \/ \E r, n : Goes(r, n) /\ AtPubkey(Tail(script), r, n, b, phase, separator)
      \/ Crashes
      \/ FailsFor(D)
  BY <1>1, <1>2, <1>3, PubkeyStep
<1>5. ASSUME NEW r, NEW n, Goes(r, n), AtPubkey(Tail(script), r, n, b, phase, separator)
      PROVE  Parts'
  <2>1. /\ Entered' /\ phase' = "redeem" /\ separator' = separator /\ stackCopy' = stackCopy
        /\ kind' = kind /\ fixed' = fixed /\ strict' = strict
        /\ script' = Tail(script) /\ stack' = r /\ opCount' = n
    BY <1>1, <1>5, GoesEntered DEF Kept
  <2>2. InRedeem'
    BY <1>2, <1>5, <2>1 DEF InRedeem
  <2> QED
    BY <2>1, <2>2 DEF Parts, InSignature, InOutput, OutputsAreSigned, OwnersCanSpend
<1>6. ASSUME FailsFor(D) PROVE Parts'
  <2>1. phase' = "failed" /\ Kept /\ (Fits => ~D)
    BY <1>6 DEF FailsFor
  <2>2. kind' = "scripthash" /\ strict' /\ stackCopy' = s /\ pushOnly' = pushOnly
    BY <1>2, <2>1 DEF Kept
  <2>3. OwnersCanSpend'
    BY <1>3, <2>1, <2>2 DEF OwnersCanSpend, Fits
  <2> QED
    BY <2>1, <2>3, EndedParts
<1> HIDE DEF D
<1> QED
  BY <1>4, <1>5, <1>6, EndedParts DEF Crashes

----------------------------------------------------------------------------
(* Between the scripts *)

LEMMA Bools ==
    CastToBool(True) /\ ~CastToBool(False) /\ True # False
BY DEF CastToBool, True, False, Num

LEMMA EndSignatureStep ==
    ASSUME SInv, EndSignature
    PROVE  SInv'
<1>1. Typed /\ IsStack(stack) /\ phase = "signature" /\ InSignature /\ ~fixed
  BY DEF SInv, Typed, EvaluatorOK, EndSignature, AtEnd, InSignature
<1>2. CASE EndsWell
  <2>1. stackCopy' = stack /\ Begins("output", stack, kind # "free", Standard[kind])
    BY <1>2 DEF EndSignature
  <2>2. Typed'
    <3>1. IsStack(stackCopy') /\ Len(stack) + Len(altStack) <= MaxStack
      BY <1>1, <2>1 DEF Typed, EvaluatorOK
    <3>2. "output" \in Scripts /\ (kind # "free") \in BOOLEAN
      BY DEF Scripts
    <3> QED
      BY <1>1, <2>1, <3>1, <3>2, BeginsTyped
  <2>3. /\ phase' = "output" /\ stack' = stack /\ fixed' = (kind # "free") /\ kind' = kind
        /\ script' = Standard[kind] /\ opCount' = 0 /\ separator' = separator
        /\ altStack' = altStack /\ execStack' = execStack /\ pushOnly' = pushOnly
    BY <2>1 DEF Begins
  <2>4. Entered'
    BY <1>1, <1>2, <2>1, <2>3 DEF Entered, EndsWell, InSignature, Typed, EvaluatorOK
  <2>5. /\ kind = "pubkey" => Standard[kind] = PayToKey
        /\ kind = "pubkeyhash" => Standard[kind] = Standard.pubkeyhash
        /\ kind = "multisig" => Standard[kind] = Standard.multisig
        /\ kind = "scripthash" => Standard[kind] = Standard.scripthash
    BY DEF Standard
  <2>6. InOutput'
    BY <2>1, <2>3, <2>4, <2>5 DEF InOutput, AtPubkey, AtPubkeyHash, AtMultisig, AtScripthash
  <2> QED
    BY <2>2, <2>3, <2>6 DEF SInv, InSignature, InRedeem, OutputsAreSigned, OwnersCanSpend
<1>3. CASE ~EndsWell
  <2>1. Verdict(FALSE)
    BY <1>3 DEF EndSignature
  <2>2. phase' = "failed" /\ fixed' = fixed
    BY <2>1 DEF Verdict, EndsAs
  <2>3. Typed'
    BY <1>1, <2>1, VerdictTyped
  <2> QED
    BY <1>1, <2>2, <2>3, EndedParts DEF SInv, Parts
<1> QED
  BY <1>2, <1>3

(* Where a standard script has ended, what its last value says *)
LEMMA AtOutputEnd ==
    ASSUME SInv, AtEnd("output"), fixed
    PROVE  /\ stackCopy # << >> /\ stack # << >> /\ execStack = << >>
           /\ pushOnly => separator = None
           /\ kind \in {"pubkey", "pubkeyhash", "multisig", "scripthash"}
           /\ kind = "pubkey" => IsVerdict(stack, Last(stackCopy), {"k1"}, "output", separator)
           /\ kind = "pubkeyhash" =>
                  /\ Len(stackCopy) >= 2 /\ Last(stackCopy) = K1
                  /\ IsVerdict(stack, stackCopy[Len(stackCopy) - 1], {"k1"}, "output", separator)
           /\ kind = "multisig" =>
                  /\ Len(stackCopy) >= 2
                  /\ IsVerdict(stack, Last(stackCopy), {"k1", "k2"}, "output", separator)
           /\ kind = "scripthash" => Last(stack) = FromBool(Last(stackCopy) = Redeem)
<1>1. InOutput /\ phase = "output" /\ script = << >> /\ Entered /\ kind # "free"
  BY DEF SInv, AtEnd, InOutput
<1>2. kind \in {"pubkey", "pubkeyhash", "multisig", "scripthash"}
  BY <1>1 DEF SInv, Typed, RestOK, Standard
<1>3. kind = "pubkey" => IsVerdict(stack, Last(stackCopy), {"k1"}, "output", separator)
  BY <1>1, Lists DEF InOutput, AtPubkey, PayToKey
<1>4. kind = "pubkeyhash" =>
          /\ Len(stackCopy) >= 2 /\ Last(stackCopy) = K1
          /\ IsVerdict(stack, stackCopy[Len(stackCopy) - 1], {"k1"}, "output", separator)
  BY <1>1, Lists DEF InOutput, AtPubkeyHash, Standard
<1>5. kind = "multisig" =>
          Len(stackCopy) >= 2 /\ IsVerdict(stack, Last(stackCopy), {"k1", "k2"}, "output", separator)
  BY <1>1, Lists DEF InOutput, AtMultisig, Standard
<1>6. kind = "scripthash" => stack # << >> /\ Last(stack) = FromBool(Last(stackCopy) = Redeem)
  BY <1>1, Lists DEF InOutput, AtScripthash, Standard
<1>7. stack # << >>
  BY <1>2, <1>3, <1>4, <1>5, <1>6 DEF IsVerdict
<1> QED
  BY <1>1, <1>2, <1>3, <1>4, <1>5, <1>6, <1>7 DEF Entered

LEMMA RunRedeemStep ==
    ASSUME SInv, AtEnd("output"), EndsWell, CastToBool(Last(stack)), strict, kind = "scripthash",
           NEW standard \in BOOLEAN, RunRedeem(standard)
    PROVE  SInv'
<1> DEFINE s == stackCopy
           b == Front(s)
<1>1. Typed /\ InOutput /\ phase = "output" /\ fixed /\ Entered
  BY DEF SInv, AtEnd, InOutput
<1>2. s # << >> /\ Last(s) = Redeem
  <2>1. s # << >> /\ Last(stack) = FromBool(Last(s) = Redeem)
    BY <1>1, AtOutputEnd
  <2> QED
    BY <2>1, Bools DEF FromBool
<1>3. IsStack(s) /\ IsStack(b) /\ Len(b) <= Len(s) /\ Len(s) \in Nat
  <2>1. IsStack(s)
    BY <1>1 DEF Typed, RestOK
  <2> QED
    BY <1>2, <2>1, CopyFacts
<1>4. /\ Begins("redeem", b, standard, IF standard THEN PayToKey ELSE << >>)
      /\ stackCopy' = s
  BY DEF RunRedeem
<1>5. Typed'
  <2>1. Len(b) + Len(altStack) <= MaxStack
    <3>1. Len(s) + Len(altStack) <= MaxStack
      BY <1>1 DEF Entered
    <3>2. Len(altStack) \in Nat /\ Len(b) \in Nat
      BY <1>1, <1>3, StackElim DEF Typed, EvaluatorOK
    <3> HIDE DEF s, b
    <3> QED
      BY <1>3, <3>1, <3>2, ScriptAssumption
  <2>2. "redeem" \in Scripts /\ IsStack(stackCopy')
    BY <1>3, <1>4 DEF Scripts
  <2> HIDE DEF b
  <2> QED
    BY <1>1, <1>3, <1>4, <2>1, <2>2, BeginsTyped
<1>6. /\ phase' = "redeem" /\ stack' = b /\ fixed' = standard /\ kind' = kind /\ strict' = strict
      /\ standard => script' = PayToKey
      /\ opCount' = 0 /\ separator' = separator
      /\ altStack' = altStack /\ execStack' = execStack /\ pushOnly' = pushOnly
  BY <1>4 DEF Begins
<1>7. Entered'
  BY <1>1, <1>4, <1>6 DEF Entered
<1>8. InRedeem'
  BY <1>2, <1>4, <1>6, <1>7 DEF InRedeem, AtPubkey
<1> QED
  BY <1>5, <1>6, <1>8 DEF SInv, InSignature, InOutput, OutputsAreSigned, OwnersCanSpend

LEMMA EndOutputStep ==
    ASSUME SInv, EndOutput
    PROVE  SInv'
<1> DEFINE s == stackCopy
           m == Len(s)
           good == EndsWell /\ CastToBool(Last(stack)) /\ ~(strict /\ kind = "scripthash")
           redeems == EndsWell /\ CastToBool(Last(stack)) /\ strict /\ kind = "scripthash" /\ pushOnly
<1>1. Typed /\ AtEnd("output") /\ phase = "output" /\ InOutput /\ IsStack(s)
  BY DEF SInv, EndOutput, AtEnd, Typed, RestOK
<1>2. CASE redeems
  BY <1>1, <1>2, RunRedeemStep DEF EndOutput
<1>3. CASE ~redeems
  <2>1. Verdict(good)
    BY <1>3 DEF EndOutput
  <2>2. Typed'
    BY <1>1, <2>1, VerdictTyped
  <2>3. /\ phase' = (IF good THEN "valid" ELSE "failed")
        /\ UNCHANGED <<kind, strict, fixed, stackCopy, pushOnly>>
    BY <2>1 DEF Verdict, EndsAs
  <2>4. s # << >> => Last(s) = s[m]
    BY <1>1, CopyFacts
  <2>5. CASE good
    <3>1. ~fixed => kind = "free"
      BY <1>1 DEF InOutput
    <3>2. fixed => OutputsAreSigned'
      <4>1. SUFFICES ASSUME fixed PROVE OutputsAreSigned'
        OBVIOUS
      <4>2. Last(stack) = True \/ kind = "scripthash"
        BY <1>1, <2>5, <4>1, AtOutputEnd, Bools DEF IsVerdict
      <4>3. kind = "pubkey" => IsSigOf(s[m], "k1", <<"output", 0>>)
        BY <1>1, <2>4, <4>1, <4>2, AtOutputEnd DEF IsVerdict
      <4>4. kind = "pubkeyhash" => s[m] = K1 /\ IsSigOf(s[m - 1], "k1", <<"output", 0>>)
        BY <1>1, <2>4, <4>1, <4>2, AtOutputEnd DEF IsVerdict
      <4>5. kind = "multisig" => \E k \in {"k1", "k2"} : IsSigOf(s[m], k, <<"output", 0>>)
        BY <1>1, <2>4, <4>1, <4>2, AtOutputEnd DEF IsVerdict
      <4>6. kind = "scripthash" => s[m] = Redeem /\ ~strict
        BY <1>1, <2>4, <2>5, <4>1, AtOutputEnd, Bools DEF FromBool
      <4> QED
        BY <2>3, <4>3, <4>4, <4>5, <4>6 DEF OutputsAreSigned
    <3>3. OutputsAreSigned'
      BY <2>3, <3>1, <3>2 DEF OutputsAreSigned
    <3> QED
      BY <2>2, <2>3, <2>5, <3>3 DEF SInv, InSignature, InOutput, InRedeem, OwnersCanSpend
  <2>6. CASE ~good
    <3>1. phase' = "failed"
      BY <2>3, <2>6
    <3>2. (fixed /\ pushOnly) => OwnersCanSpend'
      <4>1. SUFFICES ASSUME fixed, pushOnly PROVE OwnersCanSpend'
        OBVIOUS
      <4>2. EndsWell /\ separator = None
        BY <1>1, <4>1, AtOutputEnd DEF EndsWell
      <4>3. ~CastToBool(Last(stack)) \/ (strict /\ kind = "scripthash")
        BY <2>6, <4>2
      <4>4. ~CastToBool(Last(stack))
        BY <1>3, <4>1, <4>2, <4>3
      <4>5. Last(stack) # True
        BY <4>4, Bools
      <4>6. kind = "pubkey" => ~IsSigOf(s[m], "k1", <<"output", 0>>)
        BY <1>1, <2>4, <4>1, <4>2, <4>5, AtOutputEnd DEF IsVerdict
      <4>7. kind = "pubkeyhash" => ~IsSigOf(s[m - 1], "k1", <<"output", 0>>)
        BY <1>1, <2>4, <4>1, <4>2, <4>5, AtOutputEnd DEF IsVerdict
      <4>8. kind = "multisig" => ~\E k \in {"k1", "k2"} : IsSigOf(s[m], k, <<"output", 0>>)
        BY <1>1, <2>4, <4>1, <4>2, <4>5, AtOutputEnd DEF IsVerdict
      <4>9. kind = "scripthash" => s[m] # Redeem
        BY <1>1, <2>4, <4>1, <4>5, AtOutputEnd DEF FromBool
      <4>10. kind \in {"pubkey", "pubkeyhash", "multisig", "scripthash"}
        BY <1>1, <4>1, AtOutputEnd
      <4> QED
        BY <2>3, <4>6, <4>7, <4>8, <4>9, <4>10 DEF OwnersCanSpend
    <3>3. OwnersCanSpend'
      BY <2>3, <3>2 DEF OwnersCanSpend
    <3> QED
      BY <2>2, <3>1, <3>3, EndedParts DEF SInv, Parts
  <2> QED
    BY <2>5, <2>6
<1> QED
  BY <1>2, <1>3

LEMMA EndRedeemStep ==
    ASSUME SInv, EndRedeem
    PROVE  SInv'
<1> DEFINE s == stackCopy
           m == Len(s)
           b == Front(s)
           good == EndsWell /\ CastToBool(Last(stack))
<1>1. /\ Typed /\ phase = "redeem" /\ script = << >> /\ IsStack(s) /\ Verdict(good)
      /\ strict /\ kind = "scripthash" /\ s # << >> /\ Last(s) = Redeem
      /\ fixed => Entered /\ AtPubkey(script, stack, opCount, b, "redeem", separator)
  BY DEF SInv, EndRedeem, AtEnd, Typed, RestOK, InRedeem
<1>2. s[m] = Redeem /\ (b # << >> => Last(b) = s[m - 1])
  BY <1>1, CopyFacts
<1>3. fixed => b # << >> /\ IsVerdict(stack, Last(b), {"k1"}, "redeem", separator)
  BY <1>1, Lists DEF AtPubkey, PayToKey
<1>4. Typed'
  BY <1>1, VerdictTyped
<1>5. /\ phase' = (IF good THEN "valid" ELSE "failed")
      /\ UNCHANGED <<kind, strict, fixed, stackCopy, pushOnly>>
  BY <1>1 DEF Verdict, EndsAs
<1>6. CASE good
  <2>1. fixed => IsSigOf(s[m - 1], "k1", <<"redeem", 0>>)
    BY <1>2, <1>3, <1>6, Bools DEF IsVerdict
  <2>2. OutputsAreSigned'
    BY <1>1, <1>2, <1>5, <2>1 DEF OutputsAreSigned
  <2> QED
    BY <1>4, <1>5, <1>6, <2>2 DEF SInv, InSignature, InOutput, InRedeem, OwnersCanSpend
<1>7. CASE ~good
  <2>1. (fixed /\ pushOnly) => ~IsSigOf(s[m - 1], "k1", <<"redeem", 0>>)
    <3>1. SUFFICES ASSUME fixed, pushOnly PROVE ~IsSigOf(s[m - 1], "k1", <<"redeem", 0>>)
      OBVIOUS
    <3>2. execStack = << >> /\ separator = None /\ stack # << >>
      BY <1>1, <1>3, <3>1 DEF Entered, IsVerdict
    <3>3. Last(stack) # True
      BY <1>7, <3>2, Bools DEF EndsWell
    <3> QED
      BY <1>2, <1>3, <3>1, <3>2, <3>3 DEF IsVerdict
  <2>2. OwnersCanSpend'
    BY <1>1, <1>5, <2>1 DEF OwnersCanSpend
  <2> QED
    BY <1>4, <1>5, <1>7, <2>2, EndedParts DEF SInv, Parts
<1> QED
  BY <1>6, <1>7

----------------------------------------------------------------------------
(* SInv is inductive. *)

LEMMA SInvInit == Init => SInv
<1>1. Init => Typed
  BY TypedInit
<1>2. Init => phase = "signature" /\ ~fixed /\ separator = None /\ altStack = << >>
  BY DEF Init
<1> QED
  BY <1>1, <1>2 DEF SInv, InSignature, InOutput, InRedeem, OutputsAreSigned, OwnersCanSpend

LEMMA SInvNext == SInv /\ [Next]_vars => SInv'
<1>1. SUFFICES ASSUME SInv, [Next]_vars PROVE SInv'
  OBVIOUS
<1>2. CASE Instruction
  <2>1. Typed'
    BY <1>1, <1>2, InstructionTyped DEF SInv
  <2>2. phase \in Scripts
    BY <1>2, InstructionFrame DEF Reads
  <2>3. Parts'
    BY <1>1, <1>2, <2>2, SignatureStep, FreeStep, OutputStep, RedeemStep DEF Scripts
  <2> QED
    BY <2>1, <2>3 DEF SInv, Parts
<1>3. CASE EndSignature
  BY <1>1, <1>3, EndSignatureStep
<1>4. CASE EndOutput
  BY <1>1, <1>4, EndOutputStep
<1>5. CASE EndRedeem
  BY <1>1, <1>5, EndRedeemStep
<1>6. CASE UNCHANGED vars
  <2>1. UNCHANGED <<phase, kind, strict, fixed, script, free, read, pushOnly, stackCopy>>
    BY <1>6 DEF vars
  <2>2. UNCHANGED <<stack, altStack, execStack, opCount, separator>>
    BY <1>6 DEF vars, evaluator
  <2>3. Typed'
    BY <1>1, <2>1, <2>2 DEF SInv, Typed, EvaluatorOK, RestOK
  <2>4. Entered => Entered'
    BY <2>1, <2>2 DEF Entered
  <2>5. InSignature' /\ InOutput' /\ InRedeem'
    BY <1>1, <2>1, <2>2, <2>4 DEF SInv, InSignature, InOutput, InRedeem
  <2>6. OutputsAreSigned' /\ OwnersCanSpend'
    BY <1>1, <2>1 DEF SInv, OutputsAreSigned, OwnersCanSpend
  <2> QED
    BY <2>3, <2>5, <2>6 DEF SInv
<1> QED
  BY <1>1, <1>2, <1>3, <1>4, <1>5, <1>6 DEF Next

LEMMA SInvAlways == Spec => []SInv
BY SInvInit, SInvNext, PTL DEF Spec

(* The limits on the operations and on both stacks hold between any two     *)
(* instructions of any script, and on every stack of every length each      *)
(* operation that moves values about does what the comment at it says       *)
(* (Evaluator::eval).                                                       *)
THEOREM StackSound == Spec => []StackIsSound
<1>1. SInv => StackIsSound
  <2>1. SUFFICES ASSUME SInv PROVE StackIsSound
    OBVIOUS
  <2>2. TypeOK
    BY <2>1 DEF SInv, Typed, EvaluatorOK, RestOK, TypeOK
  <2>3. StackOpsAsCommented
    <3>1. IsStack(stack)
      BY <2>1 DEF SInv, Typed, EvaluatorOK
    <3> QED
      BY <3>1, MovedAsCommented DEF StackOpsAsCommented
  <2> QED
    BY <2>2, <2>3 DEF StackIsSound
<1> QED
  BY <1>1, SInvAlways, PTL

(* The one pass of OP_CHECKMULTISIG over the keys succeeds if and only if   *)
(* the signatures are those of different keys in the same order, whatever   *)
(* the numbers of keys and signatures (TransactionEvaluator::evaluate, the  *)
(* loop of OP_CHECKMULTISIG).                                               *)
THEOREM MultisigMatching == Spec => []MultisigIsMatching
<1>1. SInv => MultisigIsMatching
  <2>1. SUFFICES ASSUME SInv, MultisigReadable(stack) PROVE MultisigIsMatching
    BY DEF MultisigIsMatching
  <2> DEFINE keys == Keys(stack)
             sigs == Sigs(stack)
  <2>2. IsStack(stack)
    BY <2>1 DEF SInv, Typed, EvaluatorOK
  <2>3. /\ Len(keys) \in Nat /\ DOMAIN keys = 1 .. Len(keys)
        /\ Len(sigs) \in Nat /\ DOMAIN sigs = 1 .. Len(sigs)
    <3>1. /\ KeysCount(stack) \in 0 .. MaxKeys /\ SigsCount(stack) \in 0 .. KeysCount(stack)
          /\ Len(keys) = KeysCount(stack) /\ DOMAIN keys = 1 .. KeysCount(stack)
          /\ Len(sigs) = SigsCount(stack) /\ DOMAIN sigs = 1 .. SigsCount(stack)
      BY <2>1, <2>2, MultisigFacts
    <3> HIDE DEF keys, sigs
    <3> QED
      BY <3>1, ScriptAssumption
  <2> HIDE DEF keys, sigs
  <2>4. Signed(keys, sigs, Code) <=>
            \E f \in [DOMAIN sigs -> DOMAIN keys] :
                /\ \A i, j \in DOMAIN sigs : i < j => f[i] < f[j]
                /\ \A i \in DOMAIN sigs : checkSig(sigs[i], keys[f[i]], Code)
    BY <2>3, SignedIffMatching
  <2> QED
    BY <2>4 DEF MultisigIsMatching, keys, sigs
<1> QED
  BY <1>1, SInvAlways, PTL

(* Whatever the signature script does and leaves behind, no standard output *)
(* is spent without a signature, of the script that asks for it, by a key   *)
(* that the output names, and no hashed script runs but the one hashed      *)
(* (Transaction::verify).                                                   *)
THEOREM OutputsSigned == Spec => []OutputsAreSigned
BY SInvAlways, PTL DEF SInv

(* Who only pushes what a standard output asks for, on a stack with four    *)
(* places to spare, is not refused (Transaction::verify).                   *)
THEOREM OwnersSpend == Spec => []OwnersCanSpend
BY SInvAlways, PTL DEF SInv

=============================================================================
