----------------------------- MODULE MerkleTrie -----------------------------
(***************************************************************************)
(* The authenticated set of coins (include/coinChain/MerkleTrie.h, with    *)
(* the keys of Spendables.h).  A copy of a trie shares its nodes; insert   *)
(* and remove clone, on the path they change, the nodes that are shared.   *)
(* BlockChain::append() takes such a copy before it changes _spendables    *)
(* and puts it back when a block fails.                                    *)
(*                                                                         *)
(* A key is a number, an element is its key, and the hash of two hashes is *)
(* the pair of them.                                                       *)
(***************************************************************************)
EXTENDS Integers, Sequences, SequencesExt, FiniteSets, FiniteSetsExt

CONSTANTS Bits,    \* the width of a key
          Keys,    \* the keys that are used
          Tries    \* the variables that hold a trie

ASSUME TrieAssumption == Bits \in Nat /\ Keys \subseteq 0 .. 2^Bits - 1

VARIABLES heap,          \* the branch nodes that are referenced
          root,          \* _genitor->left, and _root, of every trie
          authenticated  \* _authenticated

vars == <<heap, root, authenticated>>

----------------------------------------------------------------------------
(* Pointers.  The key and the depth of a node never change, so they are     *)
(* part of what it is known by; a number tells nodes that agree in both.    *)
(* Of the key of a branch, only the bits above its depth are ever compared. *)
Null == <<"null", 0, 0, 0>>
Leaf(k) == <<"leaf", k, 0, 0>>
BranchNode(k, d, i) == <<"branch", (k \div 2^d) * 2^d, d, i>>
IsLeaf(p) == p[1] = "leaf"
KeyOf(p) == p[2]
DepthOf(p) == p[3]

Pointers(h) == {Leaf(k) : k \in Keys} \cup DOMAIN h

(* A hash that was never computed *)
NoHash == << >>

(* compare: the highest bit in which the keys differ, from one, and the     *)
(* sign says which of them is greater                                       *)
Compare(a, b) ==
    LET d == Min({i \in 0 .. Bits : a \div 2^i = b \div 2^i})
    IN  IF a < b THEN d ELSE -d

AbsInt(i) == IF i < 0 THEN -i ELSE i

HashOf(h, p) == IF IsLeaf(p) THEN <<KeyOf(p)>> ELSE h[p].hash

(* A key may be below a node if it differs from the node's own only in bits *)
(* below the depth of the node.                                             *)
Descends(p, k) == AbsInt(Compare(KeyOf(p), k)) <= DepthOf(p)

(* find: the nodes from the root, without the genitor, to the leaf or to    *)
(* the last one that may have the key below it                              *)
Path(h, top, k) ==
    LET below[p \in Pointers(h)] ==
            <<p>> \o (IF IsLeaf(p) THEN << >>
                      ELSE IF Descends(h[p].left, k) THEN below[h[p].left]
                      ELSE IF Descends(h[p].right, k) THEN below[h[p].right]
                      ELSE << >>)
    IN  IF top = Null \/ ~Descends(top, k) THEN << >> ELSE below[top]

Found(path) == path # << >> /\ IsLeaf(Last(path))

----------------------------------------------------------------------------
(* An operation on trie t works on the heap and the roots; its path is      *)
(* changed as nodes are cloned.                                             *)
Work(t, path) == [heap |-> heap, root |-> root, trie |-> t, path |-> path]

RefCount(w, p) ==
    Cardinality({n \in DOMAIN w.heap : w.heap[n].left = p}) +
    Cardinality({n \in DOMAIN w.heap : w.heap[n].right = p}) +
    Cardinality({t \in Tries : w.root[t] = p})

(* A new node *)
New(h, k, d) == BranchNode(k, d, Min({i \in 1 .. Cardinality(DOMAIN h) + 1 :
                                        BranchNode(k, d, i) \notin DOMAIN h}))

Put(h, p, node) == [q \in DOMAIN h \cup {p} |-> IF q = p THEN node ELSE h[q]]

(* The pointer from the parent of the i-th node of the path to old is       *)
(* replaced; the parent of the first one is the genitor.                    *)
Repoint(w, i, old, new) ==
    IF i = 1 THEN [w EXCEPT !.root[w.trie] = new]
    ELSE LET parent == w.path[i - 1]
         IN  IF w.heap[parent].left = old
             THEN [w EXCEPT !.heap[parent].left = new]
             ELSE [w EXCEPT !.heap[parent].right = new]

(* Mutant: a shared node is changed in place. *)
UnshareNothing(w, i) == w

Unshare(w, i) ==
    LET p == w.path[i]
        c == New(w.heap, KeyOf(p), DepthOf(p))
    IN  IF RefCount(w, p) = 1 THEN w
        ELSE [Repoint([w EXCEPT !.heap = Put(w.heap, c, w.heap[p])], i, p, c)
                EXCEPT !.path[i] = c]

(* The first n nodes of the path are made unique, from the root down. *)
UnsharePath(w, n) == FoldLeft(Unshare, w, [i \in 1 .. n |-> i])

Rehash(h, p) ==
    [h EXCEPT ![p].hash = <<HashOf(h, h[p].left), HashOf(h, h[p].right)>>]

(* Mutant: only the last node of the path is hashed. *)
RehashLast(w) ==
    IF ~authenticated[w.trie] \/ w.path = << >> THEN w.heap
    ELSE Rehash(w.heap, Last(w.path))

(* The nodes of the path are hashed, from the last one up.  The hashes of a *)
(* trie that is not authenticated are out of date, whatever they are.       *)
RehashPath(w) ==
    IF authenticated[w.trie]
    THEN FoldRight(LAMBDA p, h : Rehash(h, p), w.path, w.heap)
    ELSE FoldRight(LAMBDA p, h : [h EXCEPT ![p].hash = NoHash], w.path, w.heap)

(* The end of an operation on a trie *)
Becomes(w) == \E done \in {w} : heap' = RehashPath(done) /\ root' = done.root

(* insert: a branch for the key and for the child of the last node, or the  *)
(* root, that is nearer to it, with the greater key on the left.            *)
InsertLeaf(w, k) ==
    LET last   == Len(w.path)
        Cmp(p) == Compare(KeyOf(p), k)
        child  == IF last = 0 THEN w.root[w.trie]
                  ELSE LET kids == w.heap[w.path[last]]
                       IN  IF AbsInt(Cmp(kids.left)) < AbsInt(Cmp(kids.right))
                           THEN kids.left ELSE kids.right
        left   == IF Cmp(child) > 0 THEN Leaf(k) ELSE child
        right  == IF Cmp(child) > 0 THEN child ELSE Leaf(k)
        p      == New(w.heap, KeyOf(right), AbsInt(Cmp(child)))
        made   == Put(w.heap, p, [left |-> left, right |-> right, hash |-> NoHash])
    IN  IF child = Null THEN [w EXCEPT !.root[w.trie] = Leaf(k)]
        ELSE [Repoint([w EXCEPT !.heap = made], last + 1, child, p) EXCEPT !.path = Append(@, p)]

(* remove: the sibling of the leaf takes the place of its parent. *)
RemoveLeaf(w) ==
    LET last  == Len(w.path)
        leaf  == w.path[last]
        shunt == w.path[last - 1]
        child == IF w.heap[shunt].left = leaf THEN w.heap[shunt].right
                 ELSE w.heap[shunt].left
        moved == Repoint(w, last - 1, shunt, child)
    IN  IF last = 1 THEN [w EXCEPT !.root[w.trie] = Null, !.path = << >>]
        ELSE [moved EXCEPT !.heap = [p \in DOMAIN @ \ {shunt} |-> @[p]],
                           !.path = SubSeq(@, 1, last - 2)]
----------------------------------------------------------------------------
(* The hashes of the nodes, and the nodes and keys below them, as the       *)
(* children tell them.                                                      *)
Terms(h) ==
    LET term[p \in Pointers(h)] ==
            IF IsLeaf(p) THEN HashOf(h, p) ELSE <<term[h[p].left], term[h[p].right]>>
    IN  term

Below(h, top) ==
    LET below[p \in Pointers(h)] ==
            {p} \cup IF IsLeaf(p) THEN {} ELSE below[h[p].left] \cup below[h[p].right]
    IN  IF top = Null THEN {} ELSE below[top]

Contents(t) == {KeyOf(p) : p \in {q \in Below(heap, root[t]) : IsLeaf(q)}}

(* The nodes that no trie refers to any more are deleted. *)
Referenced(h, roots) ==
    [p \in DOMAIN h \cap UNION {Below(h, roots[t]) : t \in Tries} |-> h[p]]

----------------------------------------------------------------------------
Init ==
    /\ heap = << >>
    /\ root = [t \in Tries |-> Null]
    /\ authenticated = [t \in Tries |-> FALSE]

(* insert() of a key that is not there; of another one it returns false *)
InsertElem(t, k) ==
    /\ \E path \in {Path(heap, root[t], k)} :
       /\ ~Found(path)
       /\ \E w \in {UnsharePath(Work(t, path), Len(path))} :
             Becomes(InsertLeaf(w, k))
    /\ UNCHANGED authenticated

(* remove() of a key that is there; of another one it returns false *)
RemoveElem(t, k) ==
    /\ \E path \in {Path(heap, root[t], k)} :
       /\ Found(path)
       /\ \E w \in {UnsharePath(Work(t, path), Len(path) - 1)} :
             Becomes(RemoveLeaf(w))
    /\ UNCHANGED authenticated

(* authenticated(true) hashes all nodes, those it shares with a copy too. *)
Authenticated(t, a) ==
    /\ authenticated[t] # a
    /\ authenticated' = [authenticated EXCEPT ![t] = a]
    /\ heap' = [p \in DOMAIN heap |->
                  IF a /\ p \in Below(heap, root[t])
                  THEN [heap[p] EXCEPT !.hash = Terms(heap)[p]] ELSE heap[p]]
    /\ UNCHANGED root

(* The copy constructor and the assignment: the root is shared. *)
Assign(t, u) ==
    /\ t # u
    /\ root' = [root EXCEPT ![t] = root[u]]
    /\ authenticated' = [authenticated EXCEPT ![t] = authenticated[u]]
    /\ heap' = Referenced(heap, root')

(* A copy goes out of scope, and an empty trie takes its name. *)
Destroy(t) ==
    /\ root' = [root EXCEPT ![t] = Null]
    /\ authenticated' = [authenticated EXCEPT ![t] = FALSE]
    /\ heap' = Referenced(heap, root')

Next ==
    \E t \in Tries :
       \/ \E k \in Keys : InsertElem(t, k)
       \/ \E k \in Keys : RemoveElem(t, k)
       \/ \E a \in BOOLEAN : Authenticated(t, a)
       \/ \E u \in Tries : Assign(t, u)
       \/ Destroy(t)

Spec == Init /\ [][Next]_vars

----------------------------------------------------------------------------
(* Iterator::branch(): what a hash on the path of a key is combined with,   *)
(* and from which side, from the root down                                  *)
BranchOf(t, k) ==
    LET path == Path(heap, root[t], k)
    IN  [i \in 1 .. Len(path) - 1 |->
            IF heap[path[i]].right = path[i + 1]
            THEN [type |-> "Left", hash |-> HashOf(heap, heap[path[i]].left)]
            ELSE [type |-> "Right", hash |-> HashOf(heap, heap[path[i]].right)]]

(* Branch::validate(): from the hash of an element up to that of the root *)
Validate(branch, top, hash) ==
    top = FoldRight(LAMBDA th, h : IF th.type = "Left" THEN <<th.hash, h>> ELSE <<h, th.hash>>,
                    branch, hash)

(* The hash of a set of keys: those that have the highest bit in which they *)
(* differ come first.                                                       *)
SetHash ==
    [s \in SUBSET Keys \ {{}} |->
        LET hash[r \in SUBSET s] ==
                LET d     == Compare(Min(r), Max(r))
                    upper == {k \in r : k \div 2^(d - 1) = Max(r) \div 2^(d - 1)}
                IN  IF Cardinality(r) = 1 THEN <<Max(r)>>
                    ELSE <<hash[upper], hash[r \ upper]>>
        IN  hash[s]]

(* The shape of a trie depends on its contents alone, whatever was inserted *)
(* and removed in which order and however nodes were shared (the test       *)
(* tests/merkletrie compares the root hashes of two orders), find() finds   *)
(* exactly the contents, the hashes of an authenticated trie are those of   *)
(* its contents, and so the branch of every element validates.              *)
TriesAreCanonical ==
    \A t \in Tries :
       /\ \A k \in Keys : Found(Path(heap, root[t], k)) <=> k \in Contents(t)
       /\ root[t] # Null => Terms(heap)[root[t]] = SetHash[Contents(t)]
       /\ root[t] # Null /\ authenticated[t] =>
             /\ HashOf(heap, root[t]) = SetHash[Contents(t)]
             /\ \A k \in Contents(t) :
                   Validate(BranchOf(t, k), SetHash[Contents(t)], <<k>>)

(* The sets that the tries stand for *)
Sets == INSTANCE CoinSets WITH sets <- [t \in Tries |-> Contents(t)]

(* Every trie is a set of its own: what is inserted and removed in one is   *)
(* so in no other, although copies share their nodes, so that the snapshot  *)
(* append() takes can be put back (BlockChain.cpp:1280).                    *)
TriesAreSets == Sets!Spec
=============================================================================
