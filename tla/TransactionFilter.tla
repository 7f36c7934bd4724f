--------------------------- MODULE TransactionFilter ---------------------------
(***************************************************************************)
(* Transactions that come from peers or from the node itself               *)
(* (src/coinChain/TransactionFilter.cpp), on top of the Claims of the      *)
(* chain: a transaction is claimed, kept as an orphan until a parent is    *)
(* accepted, or dropped.  Announcing accepted transactions to the peers    *)
(* changes nothing here and is left out.                                   *)
(***************************************************************************)
EXTENDS Claims

CONSTANT MaxOrphans  \* how many orphans are kept, which the code does not limit

ASSUME FilterAssumption == MaxOrphans \in Nat

VARIABLES orphans,       \* _orphans
          orphansByPrev  \* _orphansByPrev: <<parent, orphan>>, oldest first

filter == <<orphans, orphansByPrev>>

filterVars == <<claimsVars, filter>>

FilterInit ==
    /\ ClaimsInit
    /\ orphans = {}
    /\ orphansByPrev = << >>

----------------------------------------------------------------------------
(* try_claim() looks at the inputs in their order and throws at the first   *)
(* that is of no use: Error if it is spent, Reject if it is not there.      *)

Spent(p, txn, i) ==
    LET ins == Txn[txn].ins IN ins[i] \in p.spents \cup Elements(SubSeq(ins, 1, i - 1))

Missing(p, txn, i, bs) ==
    LET out == Txn[txn].ins[i] IN
    /\ ~(out[1] \in DOMAIN p.confirmations /\ out[2] < Txn[out[1]].outs)
    /\ out \notin Unspents(bs)

Rejects(p, txn, bs) ==
    \E i \in DOMAIN Txn[txn].ins :
        /\ ~Spent(p, txn, i)
        /\ Missing(p, txn, i, bs)
        /\ \A j \in 1..(i - 1) : ~Spent(p, txn, j) /\ ~Missing(p, txn, j, bs)

(* One entry of the index for each input. *)
Entries(txn) == [i \in DOMAIN Txn[txn].ins |-> <<Txn[txn].ins[i][1], txn>>]

(* addOrphan() *)
AddOrphan(txn) ==
    /\ orphans' = orphans \cup {txn}
    /\ orphansByPrev' = IF txn \in orphans THEN orphansByPrev
                        ELSE orphansByPrev \o Entries(txn)

(* The entries of the index that point into some transactions. *)
EntriesOf(index, txns) == Among(index, {e \in Elements(index) : e[2] \in txns})

(* Mutant: the entries of one parent only are erased. *)
EraseFirstEntries(txns) ==
    /\ orphans' = orphans \ txns
    /\ orphansByPrev' = SelectSeq(orphansByPrev, LAMBDA e :
                            ~(e[2] \in txns \cap orphans /\ e[1] = Txn[e[2]].ins[1][1]))

(* eraseOrphan() of several transactions. *)
EraseOrphans(txns) ==
    /\ orphans' = orphans \ txns
    /\ orphansByPrev' = EntriesOf(orphansByPrev, DOMAIN Txn \ (txns \cap orphans))

(* One entry of the index: an orphan that names the parent is claimed if it *)
(* can be, and joins the work queue.                                        *)
TryOrphan(s, e, prev) ==
    IF e[1] = prev /\ CanClaim(s.pool, e[2], blocks)
    THEN [pool |-> InsertClaim(s.pool, e[2], now), work |-> Append(s.work, e[2])]
    ELSE s

(* The orphans that name a parent are tried in the order they came. *)
ClaimOrphans(s, prev) ==
    LET f[n \in 0..Len(orphansByPrev)] ==
          IF n = 0 THEN s ELSE TryOrphan(f[n - 1], orphansByPrev[n], prev)
    IN  f[Len(orphansByPrev)]

(* Mutant: orphans of orphans are not tried. *)
AcceptDirect(txn) == ClaimOrphans([pool |-> InsertClaim(pool, txn, now), work |-> <<txn>>], txn)

(* The next element of the work queue, if there is one. *)
FollowWork(s, i) == IF i <= Len(s.work) THEN ClaimOrphans(s, s.work[i]) ELSE s

(* The transaction is claimed and the work queue followed to its end, which *)
(* comes within as many elements as there are transactions.                 *)
Accept(txn) ==
    LET f[n \in 0..Cardinality(DOMAIN Txn)] ==
          IF n = 0 THEN [pool |-> InsertClaim(pool, txn, now), work |-> <<txn>>]
          ELSE FollowWork(f[n - 1], n)
    IN  f[Cardinality(DOMAIN Txn)]

(* process(), for the tx message and for Node::post(): a transaction that   *)
(* is claimed already is not processed, or only relayed.                    *)
Process(txn) ==
    /\ txn \notin DOMAIN confirmations
    /\ \/ /\ CanClaim(pool, txn, blocks)
          /\ LET s == Accept(txn) IN
             /\ SetPool(s.pool)
             /\ EraseOrphans(Elements(s.work))
       \/ /\ Rejects(pool, txn, blocks)
          /\ Cardinality(orphans) < MaxOrphans
          /\ AddOrphan(txn)
          /\ UNCHANGED <<confirmations, priorities, spents>>
    /\ UNCHANGED <<blocks, now>>

(* Blocks change the claims, and the filter does not hear of it. *)
FilterNext ==
    \/ \E txn \in DOMAIN Txn : Process(txn)
    \/ \E txns \in SUBSET DOMAIN Txn :
          (AppendBlock(txns) \/ Reorganize(txns)) /\ UNCHANGED filter
    \/ Tick /\ UNCHANGED filter

FilterSpec == FilterInit /\ [][FilterNext]_filterVars

----------------------------------------------------------------------------
(* The index names the orphans and nothing else, once for each input, so    *)
(* that no entry outlives the orphan it points into and none is missed when *)
(* a parent arrives.                                                        *)
IndexMatchesOrphans ==
    /\ \A i \in DOMAIN orphansByPrev : orphansByPrev[i][2] \in orphans
    /\ \A txn \in orphans : EntriesOf(orphansByPrev, {txn}) = Entries(txn)

Settled(p, txn) == txn \in DOMAIN p.confirmations \/ CanClaim(p, txn, blocks)

(* When a transaction is accepted, no orphan that it makes claimable is     *)
(* left behind, however many generations away, with several parents or in   *)
(* competition with other orphans; and no accepted orphan stays an orphan.  *)
OrphansAreRetried ==
    [][\A txn \in DOMAIN Txn : Process(txn) =>
          \A o \in orphans' : Settled(pool', o) => o \in orphans /\ Settled(pool, o)]_filterVars
=============================================================================
