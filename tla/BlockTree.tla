----------------------------- MODULE BlockTree -----------------------------
(***************************************************************************)
(* The block tree as BlockChain::append uses it: references are inserted   *)
(* on top of known ones, and a reference that has just become the best and *)
(* failed to connect is taken back with pop_back().  BlockChain rejects    *)
(* known hashes and unconnected blocks before it calls insert().           *)
(***************************************************************************)
EXTENDS BlockTreeOps

CONSTANTS Hash,    \* the hashes of blocks
          Genesis, \* the hash of the first block
          NoHash,  \* the null hash before the first block
          Works    \* the values of BlockRef::work()

ASSUME TreeAssumption ==
    /\ Genesis \in Hash
    /\ NoHash \notin Hash
    /\ Works \subseteq Nat

VARIABLES tree,    \* the BlockTree
          changes  \* what the last insert returned, until it is acted upon

vars == <<tree, changes>>

Refs == [hash : Hash, prev : Hash \cup {NoHash}, work : Works]

Init ==
    /\ \E work \in Works : tree = Assign(<<BlockRef(Genesis, NoHash, work)>>)
    /\ changes = NoChanges

(* insert(); an unknown prev is an error that changes nothing. *)
InsertRef(hash, prev, work) ==
    LET result == Insert(tree, BlockRef(hash, prev, work)) IN
    /\ ~Have(tree, hash)
    /\ Have(tree, prev)
    /\ tree' = result.tree
    /\ changes' = result.changes

(* pop_back(), called when the blocks just inserted do not connect. *)
PopBest ==
    /\ changes # NoChanges
    /\ tree' \in PopBack(tree)
    /\ changes' = NoChanges

Next ==
    \/ \E hash \in Hash, prev \in Hash, work \in Works :
          InsertRef(hash, prev, work)
    \/ PopBest

Spec == Init /\ [][Next]_vars

(* A chain whose blocks always connect never calls pop_back(). *)
InsertSpec ==
    Init /\ [][\E hash \in Hash, prev \in Hash, work \in Works :
                  InsertRef(hash, prev, work)]_vars

----------------------------------------------------------------------------
(* The predicates below are about any tree t, so that they can be used of   *)
(* the tree before and after an operation.                                  *)

IsRecord(t) ==
    t = [trunk |-> t.trunk, branches |-> t.branches,
         heights |-> t.heights, acc |-> t.acc]

IsTyped(t) ==
    /\ IsRecord(t)
    /\ t.trunk \in Seq(Refs)
    /\ t.trunk # << >>
    /\ DOMAIN t.branches \subseteq Hash
    /\ t.branches \in [DOMAIN t.branches -> Refs]
    /\ DOMAIN t.heights \subseteq Hash
    /\ t.heights \in [DOMAIN t.heights -> Int]
    /\ t.acc \in Seq(Nat)

(* Every member of the tree has the type of its C++ declaration, and the    *)
(* trunk is never empty: best() and height() are always defined.            *)
TypeOK ==
    /\ IsTyped(tree)
    /\ changes \in [deleted : Seq(Hash), inserted : Seq(Hash)]

IsLinked(t) ==
    /\ t.trunk[1].hash = Genesis
    /\ \A i \in 2..Len(t.trunk) : t.trunk[i].prev = t.trunk[i - 1].hash

(* The trunk is one chain from the first block: every element names the one *)
(* under it, also after a reorganisation has moved blocks in both ways.     *)
TrunkLinked == IsLinked(tree)

IsSigned(t) ==
    /\ \A i \in 1..Len(t.trunk) :
          /\ Have(t, t.trunk[i].hash)
          /\ t.heights[t.trunk[i].hash] = i - 1
    /\ \A hash \in DOMAIN t.branches :
          /\ t.branches[hash].hash = hash
          /\ Have(t, hash)
          /\ Have(t, t.branches[hash].prev)
          /\ t.heights[hash] = -AbsHeight(t.heights[t.branches[hash].prev]) - 1
    /\ DOMAIN t.heights = RangeOf(Hashes(t.trunk)) \cup DOMAIN t.branches

(* A positive height indicates the trunk, a negative one a branch, and the  *)
(* absolute value is the distance to the first block (BlockTree.h:30).      *)
HeightsSigned == IsSigned(tree)

IsSummed(t) ==
    /\ Len(t.acc) = Len(t.trunk)
    /\ t.acc[1] = t.trunk[1].work
    /\ \A i \in 2..Len(t.trunk) : t.acc[i] = t.acc[i - 1] + t.trunk[i].work

(* _acc_work is the running sum of the work along the trunk. *)
AccWorkSums == IsSummed(tree)

IsHeaviest(t) ==
    \A hash \in DOMAIN t.heights : AccumulatedWork(t)[hash] <= t.acc[Len(t.acc)]

(* No known block has more accumulated work than the best one: an insert or *)
(* a pop_back never leaves the trunk on a lighter chain.                    *)
BestIsHeaviest == IsHeaviest(tree)

(* The two containers, the index of heights and the cache of work agree     *)
(* with one another and with the chain of most work, through every          *)
(* reorganisation and every block taken back (BlockTree.cpp, insert and     *)
(* pop_back, which move blocks between the containers one at a time).       *)
Consistent == TypeOK /\ TrunkLinked /\ HeightsSigned /\ AccWorkSums /\ BestIsHeaviest

(* The trunk after the changes that insert() reported are replayed on the   *)
(* hashes of the old one: BlockChain detaches and attaches by that report.  *)
Replay(trunk, ch) ==
    SubSeq(trunk, 1, Len(trunk) - Len(ch.deleted))
        \o [i \in 1..Len(ch.inserted) |-> ch.inserted[Len(ch.inserted) + 1 - i]]

(* The report of insert() is exact: what it deletes is the end of the old   *)
(* trunk and what it inserts, on top of the rest, makes the new one.        *)
ChangesAreExact ==
    [][(\E hash \in Hash, prev \in Hash, work \in Works :
            InsertRef(hash, prev, work))
       => LET old == Hashes(tree.trunk) IN
          /\ changes'.deleted =
                SubSeq(old, Len(old) - Len(changes'.deleted) + 1, Len(old))
          /\ Hashes(tree'.trunk) = Replay(old, changes')]_vars

(* The tree implements the abstract specification of a heaviest chain. *)
Heaviest == INSTANCE HeaviestChain
                WITH total <- AccumulatedWork(tree), tip <- Best(tree).hash

ImplementsHeaviestChain == Heaviest!HSpec
=============================================================================
