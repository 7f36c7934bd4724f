----------------------------- MODULE BlockChain -----------------------------
(***************************************************************************)
(* BlockChain: the block tree, the coin database, the stash of branch      *)
(* blocks and the claimed (unconfirmed) transactions, kept together by     *)
(* append(), claim() and the constructor (src/coinChain/BlockChain.cpp).   *)
(*                                                                         *)
(* append() runs in one database transaction, so a crash in the middle of  *)
(* it is a restart from the database as it was before.  Checks that depend *)
(* on nothing but the block (proof of work, bits, time, version) hold for  *)
(* every block offered; signatures are checked when a block is attached.   *)
(***************************************************************************)
EXTENDS BlockStore, BlockTreeOps, FiniteSets

CONSTANTS Genesis,      \* the hash of the first block
          NoHash,       \* the null hash
          Depths,       \* the values given to validation_depth()
          Persistence,  \* the values given to persistence()
          Estimate,     \* Chain::totalBlocksEstimate(): the last checkpoint
          VerifyDepth   \* _verification_depth

ASSUME ChainAssumption ==
    /\ Genesis \in DOMAIN Block
    /\ NoHash \notin DOMAIN Block
    /\ Depths \subseteq Int
    /\ Persistence \subseteq {"FULL", "LAST_CHECKPOINT", "LAZY", "MINIMAL"}
    /\ Estimate \in Nat
    /\ VerifyDepth \in Int

VARIABLES tree,    \* _tree
          invalid, \* the hashes in _invalid_tree
          stash,   \* _branches: hash |-> the hash of the block stored there
          store,   \* the database and the tries
          claims   \* the transactions in _claims

vars == <<tree, invalid, stash, store, claims>>

RefOf(hash) == BlockRef(hash, Block[hash].prev, Block[hash].work)

(* The blocks of the database in the order of their counts. *)
StoredChain(s) == [count \in 1..Cardinality(DOMAIN s.blocks) |-> s.blocks[count]]

(* The constructor, then Node::validation() and Node::persistence() *)
Configure(s, count, depth, strictness) ==
    Persist(SetDepth(Load(s, count, Estimate), depth), strictness, count, Estimate)

Init ==
    /\ tree = Assign(<<RefOf(Genesis)>>)
    /\ invalid = {Genesis}
    /\ stash = << >>
    /\ \E depth \in Depths, strictness \in Persistence :
          store = Configure(PostBlock(EmptyStore, Genesis, 1), 1, depth, strictness)
    /\ claims = {}

----------------------------------------------------------------------------
(* Claiming a transaction. *)

SpentByClaims(pool) == UNION {RangeOf(Txn[txn].ins) : txn \in pool}

(* Mutant: coins spent by other claims are not refused. *)
CanClaimSpent(txn, pool, s, count) ==
    /\ txn \notin pool
    /\ \A i \in 1..Len(Txn[txn].ins) :
          LET out == Txn[txn].ins[i] IN
          \/ out[1] \in pool /\ out[2] < Txn[out[1]].outs
          \/ TrieFind(CoinsOf(s), out) # {}

(* What try_claim() asks of the name operation of a transaction: unlike     *)
(* updateName() it does not ask for the age of a reservation.  A coin of    *)
(* another claim holds no name.                                             *)
CanSetName(txn, pool, s, count) ==
    LET ins   == Txn[txn].ins
        coins == [i \in 1..Len(ins) |->
                    IF ins[i][1] \in pool THEN [coin |-> 0, count |-> 0]
                    ELSE CHOOSE row \in CoinsOf(s) : row.out = ins[i]]
        in    == NameInput(s, ins, coins)
        does  == NameOutput(in, Txn[txn].op)
    IN  CASE does = "throws"  -> FALSE
          [] does = "nothing" -> TRUE
          [] does = "reserve" -> isExpired(NameAge(s, {Txn[txn].op.name}), count)
          [] does = "update"  -> ~isExpired(NameAge(s, in.name), count)

(* The conditions of try_claim(), on the database and the tree as append() *)
(* or the caller sees them.                                                *)
CanClaim(txn, pool, s, count) ==
    /\ txn \notin pool
    /\ \A i \in 1..Len(Txn[txn].ins) :
          LET out   == Txn[txn].ins[i]
              found == TrieFind(CoinsOf(s), out)
          IN  /\ out \notin SpentByClaims(pool)
              /\ \A j \in 1..(i - 1) : Txn[txn].ins[j] # out
              /\ \/ out[1] \in pool /\ out[2] < Txn[out[1]].outs
                 \/ /\ found # {}
                    /\ s.depth = 0 => \A row \in found : ~Immature(row, count + 1)
    /\ CanSetName(txn, pool, s, count)

(* claim() with verification, as the transaction filter calls it. *)
Claim(txn) ==
    /\ CanClaim(txn, claims, store, Len(tree.trunk))
    /\ Txn[txn].signed
    /\ claims' = claims \cup {txn}
    /\ UNCHANGED <<tree, invalid, stash, store>>

----------------------------------------------------------------------------
(* attach() and detach() work on what append() has at hand: the store, the *)
(* stash and the transactions that have lost or found a block.             *)

(* Mutant: the first transaction after the coinbase is not verified. *)
VerifiedButFirst(txns, known, height) ==
    \A i \in 2..Len(txns) : Txn[txns[i]].signed

(* verify is switched off by the first transaction that is known already   *)
(* and stays off for the rest of the block.                                *)
Verified(txns, known, height) ==
    \A i \in 1..Len(txns) :
        \/ Txn[txns[i]].signed
        \/ ~(VerifyDepth # 0 /\ height > VerifyDepth)
        \/ \E j \in 1..i : txns[j] \in known

(* A block that is not in the stash is an empty one, without the coinbase  *)
(* that attach() asks it for; TreeMatchesDatabase says it does not happen. *)
Attach(work, t, hash) ==
    LET block  == work.stash[hash]
        txns   == Block[block].txns
        posted == PostBlock(work.store, block, AbsHeight(t.heights[hash]) + 1)
    IN  IF work.store.thrown THEN work
        ELSE IF hash \notin DOMAIN work.stash
        THEN [work EXCEPT !.store = Throw(@)]
        ELSE IF ~posted.thrown
             /\ ~Verified(txns, work.unconfirmed \cup claims, t.heights[hash])
        THEN [work EXCEPT !.store = Throw(posted)]
        ELSE [work EXCEPT !.store = posted,
                          !.unconfirmed = @ \ RangeOf(txns),
                          !.confirmed = @ \cup RangeOf(txns)]

(* getBlock(): the block comes from the database by its count, not by its   *)
(* hash; one of which a confirmation was purged comes out empty.            *)
GetBlock(s, count) ==
    LET block == s.blocks[count] IN
    IF \A txn \in {block} \cup RangeOf(Block[block].txns) :
          \E c \in s.conf : c.count = count /\ c.txn = txn
    THEN block ELSE NoHash

Detach(work, t, hash) ==
    LET count == AbsHeight(t.heights[hash]) + 1
        block == GetBlock(work.store, count)
        txns  == IF block = NoHash THEN << >> ELSE Block[block].txns
    IN  IF work.store.thrown THEN work
        ELSE IF count \notin DOMAIN work.store.blocks
        THEN [work EXCEPT !.store = Throw(@)]
        ELSE [work EXCEPT
                !.store = RollbackBlock(@, count),
                !.unconfirmed = @ \cup RangeOf(txns),
                !.stash = [h \in DOMAIN @ \cup {hash} |->
                             IF h = hash THEN block ELSE @[h]]]

(* Detach, lowest first, what insert() deleted; attach, lowest first, what *)
(* it inserted.                                                            *)
Reorganize(t, changes, hash) ==
    LET begun    == [store |-> store, unconfirmed |-> {}, confirmed |-> {},
                     stash |-> [h \in DOMAIN stash \cup {hash} |->
                                  IF h = hash THEN hash ELSE stash[h]]]
        detached == FoldLeft(LAMBDA w, h : Detach(w, t, h), begun, changes.deleted)
    IN  FoldRight(LAMBDA h, w : Attach(w, t, h), changes.inserted, detached)

Connected(hash) ==
    /\ ~Have(tree, hash)
    /\ hash \notin invalid
    /\ Have(tree, Block[hash].prev)

(* _invalid_tree takes every block whose predecessor it has, valid or not. *)
NoteBlock(hash) ==
    invalid' = IF Block[hash].prev \in invalid THEN invalid \cup {hash} ELSE invalid

(* append() of a block whose predecessor is not in the tree. *)
AppendOrphan(hash) ==
    /\ ~Have(tree, hash)
    /\ hash \notin invalid
    /\ ~Have(tree, Block[hash].prev)
    /\ NoteBlock(hash)
    /\ UNCHANGED <<tree, stash, store, claims>>

(* append() of a block that leaves the trunk as it is.  Below the last     *)
(* checkpoint it throws, when the tree has the block already.              *)
AppendBranch(hash) ==
    LET result == Insert(tree, RefOf(hash))
        height == AbsHeight(tree.heights[Block[hash].prev])
    IN  /\ Connected(hash)
        /\ result.changes = NoChanges
        /\ NoteBlock(hash)
        /\ tree' = result.tree
        /\ stash' = IF height < Estimate THEN stash
                    ELSE [h \in DOMAIN stash \cup {hash} |->
                            IF h = hash THEN hash ELSE stash[h]]
        /\ UNCHANGED <<store, claims>>

(* Mutant: the block stays in the tree. *)
AppendFailsNoPop(hash) ==
    LET result == Insert(tree, RefOf(hash))
        work   == Reorganize(result.tree, result.changes, hash)
    IN  /\ Connected(hash)
        /\ result.changes # NoChanges
        /\ work.store.thrown
        /\ NoteBlock(hash)
        /\ tree' = result.tree
        /\ stash' = work.stash
        /\ store' = [store EXCEPT !.immature = work.store.immature]
        /\ UNCHANGED claims

(* append() of a new best block that fails: ROLLBACK, pop_back(), and the  *)
(* snapshot of _spendables.                                                *)
AppendFails(hash) ==
    LET result == Insert(tree, RefOf(hash))
        work   == Reorganize(result.tree, result.changes, hash)
    IN  /\ Connected(hash)
        /\ result.changes # NoChanges
        /\ work.store.thrown
        /\ NoteBlock(hash)
        /\ tree' \in PopBack(result.tree)
        /\ stash' = work.stash
        /\ store' = [store EXCEPT !.immature = work.store.immature]
        /\ UNCHANGED claims

(* Claims that have lost their block are claimed again, in the order of    *)
(* their hashes, that is in any order, and the refused ones are dropped.   *)
Reclaim(pool, order, s, count) ==
    FoldLeft(LAMBDA p, txn : IF CanClaim(txn, p, s, count) THEN p \cup {txn} ELSE p,
             pool, order)

(* append() of a new best block that succeeds.  Reading _branches[hash]    *)
(* after it has been erased leaves an empty block there; the claims older  *)
(* than a day go.                                                          *)
AppendBest(hash) ==
    LET result == Insert(tree, RefOf(hash))
        work   == Reorganize(result.tree, result.changes, hash)
    IN  /\ Connected(hash)
        /\ result.changes # NoChanges
        /\ ~work.store.thrown
        /\ NoteBlock(hash)
        /\ tree' = result.tree
        /\ stash' = [h \in (DOMAIN work.stash \ RangeOf(result.changes.inserted))
                             \cup {hash} |->
                       IF h = hash THEN NoHash ELSE work.stash[h]]
        /\ store' = PurgeOld(work.store, Len(result.tree.trunk),
                              AbsHeight(tree.heights[Block[hash].prev]))
        /\ \E old \in SUBSET (claims \ work.confirmed),
              order \in SetToSeqs(work.unconfirmed) :
              claims' = Reclaim((claims \ work.confirmed) \ old, order,
                                work.store, Len(result.tree.trunk))

AppendBlock(hash) ==
    \/ AppendOrphan(hash)
    \/ AppendBranch(hash)
    \/ AppendFails(hash)
    \/ AppendBest(hash)

----------------------------------------------------------------------------
(* The process stops, by choice or not; the constructor reads the database *)
(* and Node sets the depths it is configured with.  assign()               *)
(* throws when the blocks are not a chain.                                 *)
Restart ==
    LET chain == StoredChain(store) IN
    /\ \A i \in 2..Len(chain) : Block[chain[i]].prev = chain[i - 1]
    /\ tree' = Assign([i \in 1..Len(chain) |-> RefOf(chain[i])])
    /\ invalid' = RangeOf(chain)
    /\ stash' = << >>
    /\ \E depth \in Depths, strictness \in Persistence :
          store' = Configure(store, Len(chain), depth, strictness)
    /\ claims' = {}

Next ==
    \/ \E txn \in DOMAIN Txn : Claim(txn)
    \/ \E hash \in DOMAIN Block \ {Genesis} : AppendBlock(hash)
    \/ Restart

Spec == Init /\ [][Next]_vars

----------------------------------------------------------------------------
(* What the chain of the tree says, computed from the blocks alone. *)

Trunk == Hashes(tree.trunk)

ConfirmedTxns == UNION {RangeOf(Block[hash].txns) : hash \in RangeOf(Trunk)}

CoinbaseOuts == {<<hash, 0>> : hash \in RangeOf(Trunk)}

ChainCoins ==
    (CoinbaseOuts \cup UNION {{<<txn, i>> : i \in 0..(Txn[txn].outs - 1)} :
                                txn \in ConfirmedTxns})
        \ UNION {RangeOf(Txn[txn].ins) : txn \in ConfirmedTxns}

OutsOf(rows) == {row.out : row \in rows}

(* The count of the trunk block that holds the transaction of an output. *)
OriginCount(out) ==
    CHOOSE i \in 1..Len(Trunk) :
        out[1] = Trunk[i] \/ out[1] \in RangeOf(Block[Trunk[i]].txns)

(* The Blocks table is the trunk of the tree, count by count, and a block   *)
(* in a branch, which may be attached later, is in the stash under its own  *)
(* hash: append(), failed appends and restarts never let them drift apart.  *)
TreeMatchesDatabase ==
    /\ DOMAIN store.blocks = 1..Len(Trunk)
    /\ StoredChain(store) = Trunk
    /\ \A hash \in DOMAIN tree.branches : hash \in DOMAIN stash /\ stash[hash] = hash

(* The Unspents table holds exactly the coins that replaying the trunk from *)
(* its first block leaves, each once: posting and rolling back are inverse. *)
(* The count of a coin tells the block that issued it, and its sign whether *)
(* it is a coinbase (BlockChain.cpp:127).                                   *)
CoinsAreReplayed ==
    /\ OutsOf(store.unspents) = ChainCoins
    /\ \A r1, r2 \in store.unspents : r1.out = r2.out => r1 = r2
    /\ \A row \in store.unspents :
          row.count = IF row.out \in CoinbaseOuts
                      THEN -OriginCount(row.out) ELSE OriginCount(row.out)

(* The Names table has the operations of the trunk and no others, with the  *)
(* count of their block, and of two coins that hold the same name the older *)
(* one had expired when the other was issued: forks that set a name in      *)
(* different ways leave nothing behind when they lose their place.          *)
NamesAreReplayed ==
    /\ {[name |-> n.name, value |-> n.value, count |-> n.count] : n \in store.names} =
       UNION {{[name |-> Txn[txn].op.name, value |-> Txn[txn].op.value, count |-> i] :
                 txn \in {t \in RangeOf(Block[Trunk[i]].txns) :
                            Txn[t].op.kind \in {"first", "update"}}} : i \in 1..Len(Trunk)}
    /\ \A n, m \in store.names :
          /\ n.name = m.name /\ n.count < m.count
          /\ \E row \in store.unspents : row.coin = n.coin
          => isExpired(n.count, m.count)

(* With a trie, every unspent coin is in one of the two tries, and nothing  *)
(* else is: a detached block removes its "spendable coins and               *)
(* immature_coinbases" (BlockChain.cpp:1019).                               *)
TriesHoldUnspents ==
    store.depth > 0 =>
        /\ OutsOf(store.spend) \cup OutsOf(store.immature) = OutsOf(store.unspents)
        /\ OutsOf(store.spend) \cap OutsOf(store.immature) = {}

(* The trie never offers a coinbase that the database would refuse as       *)
(* immature in the next block.                                              *)
SpendablesAreMature ==
    store.depth > 0 =>
        \A out \in OutsOf(store.spend) \cap CoinbaseOuts :
            Len(Trunk) + 1 - OriginCount(out) >= Maturity

(* A transaction is confirmed only after its signatures have been verified, *)
(* with its block or when it was claimed.                                   *)
ConfirmedAreVerified == \A txn \in ConfirmedTxns : Txn[txn].signed

(* No claim is confirmed already, and no two claims spend the same coin,    *)
(* whatever was claimed, confirmed, detached and claimed again.             *)
ClaimsAreExclusive ==
    /\ claims \cap ConfirmedTxns = {}
    /\ \A t1, t2 \in claims : t1 # t2 =>
          RangeOf(Txn[t1].ins) \cap RangeOf(Txn[t2].ins) = {}
=============================================================================
