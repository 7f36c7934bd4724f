---------------------------- MODULE MCBlockTree ----------------------------
(* Small instances of BlockTree.  Hashes are interchangeable but for the   *)
(* first block's.                                                          *)
EXTENDS BlockTree, TLC

HashSymmetry == Permutations(Hash \ {Genesis})

(* Blocks at the same difficulty have the same work. *)
WorksAreEqual ==
    LET refs == RangeOf(tree.trunk) \cup {tree.branches[hash] : hash \in DOMAIN tree.branches}
    IN  \A r1, r2 \in refs : r1.work = r2.work

(* Blocks of any work are inserted, and the best one is taken back while    *)
(* all have the same.                                                       *)
LevelNext ==
    \/ \E hash \in Hash, prev \in Hash, work \in Works : InsertRef(hash, prev, work)
    \/ WorksAreEqual /\ PopBest

LevelSpec == Init /\ [][LevelNext]_vars
=============================================================================
