--------------------------- MODULE HeaviestChain ---------------------------
(***************************************************************************)
(* What a block tree promises: it knows a growing set of blocks, each on   *)
(* top of a known one, and its best block is one no known block has more   *)
(* work than; a block of equal work never displaces it.  A best block that *)
(* turns out to be invalid can be taken back as long as nothing is built   *)
(* on it.                                                                  *)
(***************************************************************************)
EXTENDS Naturals

CONSTANTS Hash,    \* the hashes of blocks
          Genesis, \* the hash of the first block
          Works    \* the amounts of work a block may hold

VARIABLES total,   \* the accumulated work of every known block
          tip      \* the best block

hvars == <<total, tip>>

HInit ==
    /\ \E work \in Works : total = [hash \in {Genesis} |-> work]
    /\ tip = Genesis

(* A block enters on top of prev; it is the best if it beats the best. *)
HAdd(hash, prev, work) ==
    /\ hash \in Hash \ DOMAIN total
    /\ prev \in DOMAIN total
    /\ total' = [h \in DOMAIN total \cup {hash} |->
                   IF h = hash THEN total[prev] + work ELSE total[h]]
    /\ tip' = IF total[prev] + work > total[tip] THEN hash ELSE tip

(* The best block is taken back; a heaviest remaining block is the best. *)
HRemove ==
    /\ tip # Genesis
    /\ total' = [h \in DOMAIN total \ {tip} |-> total[h]]
    /\ tip' \in DOMAIN total'
    /\ \A h \in DOMAIN total' : total'[h] <= total'[tip']

HNext ==
    \/ \E hash \in Hash, prev \in DOMAIN total, work \in Works :
          HAdd(hash, prev, work)
    \/ HRemove

HSpec == HInit /\ [][HNext]_hvars
=============================================================================
