---------------------------- MODULE BlockTreeOps ----------------------------
(***************************************************************************)
(* The data structure SparseTree / BlockTree as a value and the operations *)
(* on it (include/coinChain/BlockTree.h, src/coinChain/BlockTree.cpp).     *)
(*                                                                         *)
(* A tree is a record with one field per member of the two C++ classes:    *)
(*   trunk     _trunk: the best chain, a sequence of references;           *)
(*   branches  _branches: the other references, by hash;                   *)
(*   heights   _heights: the signed height of every known hash;            *)
(*   acc       _acc_work: the work accumulated along the trunk.            *)
(* A reference (BlockRef) keeps its hash, the hash before it and its work; *)
(* version, time and bits play no part in the shape of the tree.  trim()   *)
(* and its _trimmed have no caller and are left out.                       *)
(***************************************************************************)
EXTENDS Integers, Sequences

(* A block reference; work() of the C++ struct is a field. *)
BlockRef(hash, prev, work) == [hash |-> hash, prev |-> prev, work |-> work]

AbsHeight(n) == IF n < 0 THEN -n ELSE n

(* best(): the last element of the trunk.  height(): its height. *)
Best(t) == t.trunk[Len(t.trunk)]

TrunkHeight(t) == Len(t.trunk) - 1

Have(t, hash) == hash \in DOMAIN t.heights

(* at(hash): a negative height sends the look-up to the branches. *)
At(t, hash) ==
    IF t.heights[hash] < 0 THEN t.branches[hash] ELSE t.trunk[t.heights[hash] + 1]

(***************************************************************************)
(* The loops that step an iterator back from a block to the trunk.         *)
(***************************************************************************)

(* accumulatedWork(): work along the branch plus that of its trunk root. *)
AccumulatedWork(t) ==
    LET work[hash \in DOMAIN t.heights] ==
            IF t.heights[hash] < 0
            THEN t.branches[hash].work + work[t.branches[hash].prev]
            ELSE t.acc[t.heights[hash] + 1]
    IN  work

(* The branch blocks met on the way to the trunk, the starting block first. *)
BranchPath(t) ==
    LET path[hash \in DOMAIN t.heights] ==
            IF t.heights[hash] < 0
            THEN <<hash>> \o path[t.branches[hash].prev]
            ELSE << >>
    IN  path

(* The height of the trunk block at which that walk ends. *)
RootHeight(t, hash) ==
    LET path == BranchPath(t)[hash] IN
    t.heights[IF path = << >> THEN hash ELSE t.branches[path[Len(path)]].prev]

(* The trunk above height h, lowest first, as advance(+1) visits it. *)
TrunkAbove(t, h) ==
    [i \in 1..(TrunkHeight(t) - h) |-> t.trunk[h + 1 + i]]

(* _acc_work kept up to Len(acc) and pushed on, block by block, to the end. *)
PushWork(acc, trunk) ==
    LET work[i \in 1..Len(trunk)] ==
            IF i <= Len(acc) THEN acc[i]
            ELSE IF i = 1 THEN trunk[1].work
            ELSE work[i - 1] + trunk[i].work
    IN  work

Hashes(refs) == [i \in 1..Len(refs) |-> refs[i].hash]

RangeOf(s) == {s[i] : i \in 1..Len(s)}

(* A path, which starts at the tip, as the references to push on the trunk. *)
Unwind(t, path) ==
    [i \in 1..Len(path) |-> t.branches[path[Len(path) + 1 - i]]]

(***************************************************************************)
(* The operations.                                                         *)
(***************************************************************************)

(* assign(): a tree that is one trunk; the trunk must be linked. *)
Assign(refs) ==
    [trunk    |-> refs,
     branches |-> << >>,
     heights  |-> [hash \in RangeOf(Hashes(refs)) |->
                     (CHOOSE i \in 1..Len(refs) : refs[i].hash = hash) - 1],
     acc      |-> PushWork(<< >>, refs)]

NoChanges == [deleted |-> << >>, inserted |-> << >>]

(* insert(), the case of a block that does not beat the trunk. *)
InsertBranch(t, ref) ==
    [trunk    |-> t.trunk,
     branches |-> [hash \in DOMAIN t.branches \cup {ref.hash} |->
                     IF hash = ref.hash THEN ref ELSE t.branches[hash]],
     heights  |-> [hash \in DOMAIN t.heights \cup {ref.hash} |->
                     IF hash = ref.hash
                     THEN -AbsHeight(t.heights[ref.prev]) - 1
                     ELSE t.heights[hash]],
     acc      |-> t.acc]

(* Mutant: the blocks that leave the trunk are reported tip first. *)
InsertChangesTipFirst(t, ref) ==
    LET removed == TrunkAbove(t, RootHeight(t, ref.prev)) IN
    [deleted  |-> [i \in 1..Len(removed) |-> removed[Len(removed) + 1 - i].hash],
     inserted |-> <<ref.hash>> \o BranchPath(t)[ref.prev]]

(* What insert() returns for a block that becomes the best: the hashes that *)
(* leave the trunk, lowest first, and those that enter it, the tip first.   *)
InsertChanges(t, ref) ==
    [deleted  |-> Hashes(TrunkAbove(t, RootHeight(t, ref.prev))),
     inserted |-> <<ref.hash>> \o BranchPath(t)[ref.prev]]

(* insert(), the case of a new best block: the trunk above the root moves   *)
(* to the branches, the branch under the block moves to the trunk, and the  *)
(* heights of both change sign.                                             *)
InsertBest(t, ref) ==
    LET path     == BranchPath(t)[ref.prev]
        root     == RootHeight(t, ref.prev)
        removed  == TrunkAbove(t, root)
        rest     == SubSeq(t.trunk, 1, root + 1) \o Unwind(t, path)
        flipped  == RangeOf(Hashes(removed)) \cup RangeOf(path)
    IN  [trunk    |-> Append(rest, ref),
         branches |-> [hash \in (DOMAIN t.branches \cup RangeOf(Hashes(removed)))
                        \ RangeOf(path) |-> At(t, hash)],
         heights  |-> [hash \in DOMAIN t.heights \cup {ref.hash} |->
                           IF hash = ref.hash THEN Len(rest)
                           ELSE IF hash \in flipped THEN -t.heights[hash]
                           ELSE t.heights[hash]],
         acc      |-> Append(PushWork(SubSeq(t.acc, 1, root + 1), rest),
                               AccumulatedWork(t)[ref.prev] + ref.work)]

(* Mutant: a chain of equal work displaces the trunk. *)
BeatsTrunkOnTie(t, ref) ==
    AccumulatedWork(t)[ref.prev] + ref.work >= t.acc[Len(t.acc)]

(* The test of insert(): only strictly more work moves the trunk, so that   *)
(* of two equal chains the one seen first stays the best.                   *)
BeatsTrunk(t, ref) ==
    AccumulatedWork(t)[ref.prev] + ref.work > t.acc[Len(t.acc)]

Insert(t, ref) ==
    IF BeatsTrunk(t, ref)
    THEN [tree |-> InsertBest(t, ref), changes |-> InsertChanges(t, ref)]
    ELSE [tree |-> InsertBranch(t, ref), changes |-> NoChanges]

(* Mutant: the work of the tip is not popped. *)
DropBestKeepWork(t) ==
    [t EXCEPT !.trunk   = SubSeq(t.trunk, 1, Len(t.trunk) - 1),
              !.heights = [hash \in DOMAIN t.heights \ {Best(t).hash} |->
                             t.heights[hash]]]

(* pop_back(), first half: the tip is forgotten. *)
DropBest(t) ==
    [t EXCEPT !.trunk   = SubSeq(t.trunk, 1, Len(t.trunk) - 1),
              !.acc     = SubSeq(t.acc, 1, Len(t.acc) - 1),
              !.heights = [hash \in DOMAIN t.heights \ {Best(t).hash} |->
                             t.heights[hash]]]

(* pop_back(), second half: the branch that ends in hash becomes the trunk. *)
(* The loop that moves the old trunk away flips a height before it steps    *)
(* on, so it ends after the first block; the heights of the blocks that     *)
(* enter the trunk are multiplied by 1.                                     *)
PopReorganize(t, hash) ==
    LET path  == BranchPath(t)[hash]
        root  == RootHeight(t, hash)
        moved == IF TrunkHeight(t) > root
                 THEN {t.trunk[root + 2].hash} ELSE {}
        rest  == SubSeq(t.trunk, 1, root + 1) \o Unwind(t, path)
    IN  [t EXCEPT
           !.trunk    = rest,
           !.branches = [h \in (DOMAIN t.branches \cup moved) \ RangeOf(path) |->
                           At(t, h)],
           !.heights  = [h \in DOMAIN t.heights |->
                           IF h \in moved THEN -t.heights[h] ELSE t.heights[h]],
           !.acc      = PushWork(SubSeq(t.acc, 1, root + 1), rest)]

(* The branch blocks pop_back() prefers to the shortened trunk.  best_work  *)
(* is not updated in the loop, so the last of them in the order of the map  *)
(* is taken: any of them, as hashes carry no order here.                    *)
PopCandidates(t) ==
    {hash \in DOMAIN t.branches : AccumulatedWork(t)[hash] > t.acc[Len(t.acc)]}

(* The trees pop_back() may leave. *)
PopBack(t) ==
    LET rest == DropBest(t) IN
    IF PopCandidates(rest) = {} THEN {rest}
    ELSE {PopReorganize(rest, hash) : hash \in PopCandidates(rest)}
=============================================================================
