------------------------------- MODULE Claims -------------------------------
(***************************************************************************)
(* Claims (src/coinChain/Claims.cpp): the unconfirmed transactions of a    *)
(* BlockChain with the coins they spend, their order of preference and the *)
(* block template made from them.  The chain is what claim() and append()  *)
(* need of it: the blocks, each a set of transactions, and the coins they  *)
(* leave unspent.                                                          *)
(*                                                                         *)
(* An output is <<txn, index>>.  Scripts, and so the map from scripts to   *)
(* claimed outputs, are left out.                                          *)
(***************************************************************************)
EXTENDS Integers, Sequences, SequencesExt, FiniteSets

CONSTANTS Txn,       \* txn |-> [ins, outs, size, fee]; ins is a sequence
          Coins,     \* outputs that are unspent before the first block
          Room,      \* MAX_BLOCK_SIZE less header_and_coinbase
          Day,       \* how long a claim is kept
          MaxTime,   \* the last tick of the clock
          MaxBlocks  \* how many blocks there are at most

Elements(s) == {s[i] : i \in DOMAIN s}

ASSUME ClaimsAssumption ==
    /\ IsFiniteSet(DOMAIN Txn)
    /\ \A txn \in DOMAIN Txn :
          /\ Txn[txn].ins \in Seq(Elements(Txn[txn].ins))
          /\ Txn[txn].outs \in Nat \ {0}
          /\ Txn[txn].size \in Nat \ {0}
          /\ Txn[txn].fee \in Nat
    /\ {Room, Day, MaxTime, MaxBlocks} \subseteq Nat

VARIABLES confirmations,  \* _confirmations: txn |-> its Claim
          priorities,     \* the members of the ordered set _priorities
          spents,         \* _spents
          blocks,         \* the transactions of the blocks of the chain
          now             \* the clock

pool == [confirmations |-> confirmations, priorities |-> priorities, spents |-> spents]

claimsVars == <<confirmations, priorities, spents, blocks, now>>

Ins(txn) == Elements(Txn[txn].ins)

ClaimsInit ==
    /\ confirmations = << >>
    /\ priorities = {}
    /\ spents = {}
    /\ blocks = << >>
    /\ now = 0

----------------------------------------------------------------------------
(* The chain. *)

Confirmed(bs) == UNION Elements(bs)

Unspents(bs) ==
    (Coins \cup UNION {{<<txn, i>> : i \in 0..(Txn[txn].outs - 1)} :
                          txn \in Confirmed(bs)})
        \ UNION {Ins(txn) : txn \in Confirmed(bs)}

(* The sets of transactions that connect on top of some blocks. *)
Connects(bs, txns) ==
    /\ txns \cap Confirmed(bs) = {}
    /\ \A txn \in txns : \A out \in Ins(txn) :
          /\ out \in Unspents(bs) \/ (out[1] \in txns /\ out[2] < Txn[out[1]].outs)
          /\ \A t \in txns \ {txn} : out \notin Ins(t)

----------------------------------------------------------------------------
(* The pool.  Its operations take it and return it, since append() does     *)
(* several of them in a row.                                                *)

(* OptimizeForFeeThenDeltaSpendables *)
Better(claims, l, r) ==
    LET a == claims[l]
        b == claims[r]
    IN  \/ a.fee * b.size > b.fee * a.size
        \/ a.fee * b.size = b.fee * a.size /\ a.delta < b.delta

Equivalent(claims, l, r) == ~Better(claims, l, r) /\ ~Better(claims, r, l)

(* The sum of a sequence of numbers. *)
Total(s) ==
    LET f[n \in 0..Len(s)] == IF n = 0 THEN 0 ELSE f[n - 1] + s[n]
    IN  f[Len(s)]

(* The elements of a sequence that are in a set, in their order. *)
Among(s, S) ==
    LET f[n \in 0..Len(s)] ==
          IF n = 0 THEN << >>
          ELSE IF s[n] \in S THEN Append(f[n - 1], s[n]) ELSE f[n - 1]
    IN  f[Len(s)]

(* The claim that insert() makes: one dependency for each input that comes  *)
(* from a claim, whose totals are added.                                    *)
NewClaim(p, txn, ts) ==
    LET t     == Txn[txn]
        deps  == Among([i \in DOMAIN t.ins |-> t.ins[i][1]], DOMAIN p.confirmations)
        delta == t.outs - Len(t.ins)
    IN  [ts      |-> ts,
         depends |-> deps,
         size    |-> t.size + Total([i \in DOMAIN deps |-> p.confirmations[deps[i]].size]),
         fee     |-> t.fee + Total([i \in DOMAIN deps |-> p.confirmations[deps[i]].fee]),
         delta   |-> delta * (1 + Len(deps))]

(* Mutant: the coins are not marked as spent. *)
InsertForgetsSpents(p, txn, ts) ==
    LET claims == [t \in DOMAIN p.confirmations \cup {txn} |->
                     IF t = txn THEN NewClaim(p, txn, ts) ELSE p.confirmations[t]]
    IN  [confirmations |-> claims,
         priorities    |-> p.priorities \cup {txn},
         spents        |-> p.spents]

(* insert(); the ordered set refuses an element that is equivalent to one   *)
(* it holds.                                                                *)
InsertClaim(p, txn, ts) ==
    LET claims == [t \in DOMAIN p.confirmations \cup {txn} |->
                     IF t = txn THEN NewClaim(p, txn, ts) ELSE p.confirmations[t]]
    IN  [confirmations |-> claims,
         priorities    |-> IF \E t \in p.priorities : Equivalent(claims, t, txn)
                           THEN p.priorities ELSE p.priorities \cup {txn},
         spents        |-> p.spents \cup Ins(txn)]

(* erase() of several transactions; the ordered set erases the element that *)
(* is equivalent.                                                           *)
EraseClaims(p, txns) ==
    LET gone == txns \cap DOMAIN p.confirmations IN
    [confirmations |-> [t \in DOMAIN p.confirmations \ gone |-> p.confirmations[t]],
     priorities    |-> {t \in p.priorities :
                          \A g \in gone : ~Equivalent(p.confirmations, t, g)},
     spents        |-> p.spents \ UNION {Ins(txn) : txn \in gone}]

(* purge() *)
Purge(p, before) ==
    EraseClaims(p, {txn \in DOMAIN p.confirmations : p.confirmations[txn].ts < before})

(* try_claim(): an input is not spent by a claim or twice, and it comes     *)
(* from a claim or is unspent in the chain.                                 *)
CanClaim(p, txn, bs) ==
    /\ txn \notin DOMAIN p.confirmations
    /\ Cardinality(Ins(txn)) = Len(Txn[txn].ins)
    /\ Ins(txn) \cap p.spents = {}
    /\ \A out \in Ins(txn) :
          \/ out[1] \in DOMAIN p.confirmations /\ out[2] < Txn[out[1]].outs
          \/ out \in Unspents(bs)

----------------------------------------------------------------------------
(* The block template. *)

(* insert_claim(): what a claim depends on is put before it, if it is still *)
(* claimed and not in the list.                                             *)
InsertClaims(p) ==
    LET f[txn \in DOMAIN Txn, list \in Seq(DOMAIN Txn)] ==
          Append(FoldLeft(LAMBDA l, d :
                            IF d \in Elements(l) \/ d \notin DOMAIN p.confirmations
                            THEN l ELSE f[d, l],
                          list, p.confirmations[txn].depends), txn)
    IN  f

(* Mutant: the dependencies of a claim are not counted against the room. *)
ExceedsOwn(p, size, txn) == size + Txn[txn].size >= Room

Exceeds(p, size, txn) == size + p.confirmations[txn].size >= Room

(* transactions(): claims in the order of preference, each with what it     *)
(* depends on, until one does not fit.                                      *)
Transactions(p) ==
    LET order == SetToSortSeq(p.priorities,
                              LAMBDA l, r : Better(p.confirmations, l, r))
        take(acc, txn) ==
          IF acc.full \/ txn \in Elements(acc.txns) THEN acc
          ELSE IF Exceeds(p, acc.size, txn) THEN [acc EXCEPT !.full = TRUE]
          ELSE LET txns == InsertClaims(p)[txn, acc.txns]
                   new  == SubSeq(txns, Len(acc.txns) + 1, Len(txns))
               IN  [full |-> FALSE, txns |-> txns,
                    size |-> acc.size + Total([i \in DOMAIN new |-> p.confirmations[new[i]].size]),
                    fee  |-> acc.fee + p.confirmations[txn].fee]
    IN  FoldLeft(take, [full |-> FALSE, txns |-> << >>, size |-> 0, fee |-> 0], order)

----------------------------------------------------------------------------
SetPool(p) ==
    /\ confirmations' = p.confirmations
    /\ priorities' = p.priorities
    /\ spents' = p.spents

(* claim(), whose exception the caller drops. *)
TryClaim(p, txn, bs) == IF CanClaim(p, txn, bs) THEN InsertClaim(p, txn, now) ELSE p

(* Detached transactions are claimed again in the order of their hashes,    *)
(* that is in any order; the refused ones are dropped.                      *)
Reclaim(p, order, bs) ==
    LET f[n \in 0..Len(order)] == IF n = 0 THEN p ELSE TryClaim(f[n - 1], order[n], bs)
    IN  f[Len(order)]

(* The end of append(): confirmed claims are erased, old ones purged, and   *)
(* those that lost their block come back.                                   *)
Settle(bs, confirmed, unconfirmed) ==
    /\ blocks' = bs
    /\ \E order \in SetToSeqs(unconfirmed) :
          SetPool(Reclaim(Purge(EraseClaims(pool, confirmed), now - Day), order, bs))
    /\ UNCHANGED now

AppendBlock(txns) ==
    /\ Len(blocks) < MaxBlocks
    /\ Connects(blocks, txns)
    /\ Settle(Append(blocks, txns), txns, {})

(* The best block is detached and others, taken together, are attached. *)
Reorganize(txns) ==
    LET rest == Front(blocks) IN
    /\ blocks # << >>
    /\ Connects(rest, txns)
    /\ Settle(Append(rest, txns), txns, Last(blocks) \ txns)

Tick == now < MaxTime /\ now' = now + 1 /\ UNCHANGED <<confirmations, priorities, spents, blocks>>

----------------------------------------------------------------------------
Before(s, a, b) == \E i, j \in DOMAIN s : i < j /\ s[i] = a /\ s[j] = b

(* The ordered set holds every claim, and nothing else: its comparator      *)
(* looks up what it compares, and a claim that is not in it is in no        *)
(* template.                                                                *)
PrioritiesMatchClaims == priorities = DOMAIN confirmations

(* The coins marked as spent are those of the claims, each spent by one of  *)
(* them, through confirmations, purges, conflicts and reorganisations: a    *)
(* coin too many could not be claimed any more, one too few could be twice. *)
SpentsAreInputs ==
    /\ spents = UNION {Ins(txn) : txn \in DOMAIN confirmations}
    /\ \A a, b \in DOMAIN confirmations : a # b => Ins(a) \cap Ins(b) = {}

(* The three containers of Claims agree after every insert, erase and purge *)
(* that claiming, confirming, expiry and reorganisations make of them.      *)
ClaimsAgree == PrioritiesMatchClaims /\ SpentsAreInputs

(* The template fits into a block, although the sizes it is measured with   *)
(* were added up when the claims were made.                                 *)
TemplateFits ==
    LET txns == Transactions(pool).txns
    IN  Total([i \in DOMAIN txns |-> Txn[txns[i]].size]) < Room

(* A claim comes after the claims it was made on, none comes twice, and the *)
(* template never drops what one of its transactions was made on.           *)
DependenciesFirst ==
    LET txns == Transactions(pool).txns IN
    /\ Len(txns) = Cardinality(Elements(txns))
    /\ \A txn \in Elements(txns) :
          \A d \in Elements(confirmations[txn].depends) \cap DOMAIN confirmations :
              Before(txns, d, txn)

(* The template fits, and what a claim was made on comes first              *)
(* (Claims::transactions).  A claim that was confirmed and came back is not *)
(* what those that spend it were made on.                                   *)
TemplateIsSound == TemplateFits /\ DependenciesFirst
=============================================================================
