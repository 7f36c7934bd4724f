----------------------------- MODULE BlockStore -----------------------------
(***************************************************************************)
(* The coin database of BlockChain (the tables Blocks, Confirmations,      *)
(* Unspents, Spendings and Names) with the two in-memory tries _spendables *)
(* and _immature_coinbases, and the functions of BlockChain.cpp that post  *)
(* blocks to it, roll them back and purge them.                            *)
(*                                                                         *)
(* A store is a record:                                                    *)
(*   blocks     the hash of the block at every count (height + 1);         *)
(*   conf       Confirmations: which transaction is in which block;        *)
(*   unspents   Unspents: coin id, output, signed count of its block, and  *)
(*              the confirmation that issued it;                           *)
(*   spendings  Spendings: a coin, and the confirmation that spent it;     *)
(*   names      Names: name, value, the coin that holds it and the count   *)
(*              of the block that set it;                                  *)
(*   nextCnf, nextCoin   the AUTOINCREMENTs of Confirmations and Unspents; *)
(*   spend, immature   the tries;                                          *)
(*   depth      _validation_depth: 0 to look coins up in the database,     *)
(*              other values to look them up in the trie;                  *)
(*   purge, lazy   _purge_depth: what is at this count or below has no     *)
(*              confirmation and no spendings; _lazy_purging;              *)
(*   index      whether the unique index on Unspents exists;               *)
(*   thrown     an exception is on its way out.                            *)
(* An output is <<txn, index>>; that of the coinbase of block b is <<b, 0>>*)
(* and the confirmation of a coinbase is minus its count.  The Spendings   *)
(* row of a coinbase, which only serves to print the block, values, fees   *)
(* and scripts are left out.  A name operation is that of output 0.        *)
(***************************************************************************)
EXTENDS Integers, Sequences, SequencesExt, FiniteSetsExt

CONSTANTS Block,    \* hash |-> [prev, work, txns]: every block there is
          Txn,      \* txn |-> [ins, outs, signed, op]: every transaction
          Maturity, \* Chain::maturity()
          Depth,    \* MIN_FIRSTUPDATE_DEPTH
          Expiry    \* Chain::expirationDepth()

ASSUME StoreAssumption ==
    /\ Maturity \in Nat \ {0}
    /\ {Depth, Expiry} \subseteq Nat
    /\ \A txn \in DOMAIN Txn : Txn[txn].op.kind \in {"none", "new", "first", "update"}
    /\ \A hash \in DOMAIN Block : \A i \in 1..Len(Block[hash].txns) :
          Block[hash].txns[i] \in DOMAIN Txn

EmptyStore ==
    [blocks |-> << >>, conf |-> {}, unspents |-> {}, spendings |-> {},
     names |-> {}, nextCnf |-> 1, nextCoin |-> 1, spend |-> {}, immature |-> {},
     depth |-> 0, purge |-> 0, lazy |-> FALSE, index |-> FALSE, thrown |-> FALSE]

Throw(s) == [s EXCEPT !.thrown = TRUE]

(* MerkleTrie::insert keeps the element that is there; remove goes by key. *)
TrieFind(trie, out) == {row \in trie : row.out = out}

TrieInsert(trie, row) ==
    IF TrieFind(trie, row.out) = {} THEN trie \cup {row} ELSE trie

TrieRemove(trie, out) == trie \ TrieFind(trie, out)

(* Rows are inserted in the order of their coin ids. *)
TrieInsertAll(trie, rows) ==
    trie \cup {row \in rows :
                 /\ TrieFind(trie, row.out) = {}
                 /\ \A r \in TrieFind(rows, row.out) : row.coin <= r.coin}

(***************************************************************************)
(* Posting.                                                                *)
(***************************************************************************)

(* Where coins are looked up *)
CoinsOf(s) == IF s.depth = 0 THEN s.unspents ELSE s.spend

(* The test of redeem(): a coinbase has a negative count. *)
Immature(row, count) == row.count < 0 /\ count + row.count < Maturity

(* redeem(): the coin moves from Unspents to Spendings.  With a trie, the  *)
(* look-up is in the trie, which holds mature coins only.                  *)
Redeem(s, out, cnf, count) ==
    LET found == TrieFind(CoinsOf(s), out) IN
    IF s.thrown THEN s
    ELSE IF found = {} \/ (s.depth = 0 /\ \E row \in found : Immature(row, count))
    THEN Throw(s)
    ELSE LET row == CHOOSE r \in found : TRUE IN
         [s EXCEPT
            !.spend     = IF s.depth = 0 THEN @ ELSE TrieRemove(@, out),
            !.spendings = IF count < s.purge THEN @
                          ELSE @ \cup {[coin |-> row.coin, out |-> out,
                                       ocnf |-> row.ocnf, icnf |-> cnf]},
            !.unspents  = {u \in @ : u.coin # row.coin}]

(* issue(): the unique index, or with a trie an explicit look-up for a     *)
(* coinbase, refuses a second coin for the same output.                    *)
Issue(s, out, cnf, count) ==
    LET row == [coin |-> s.nextCoin, out |-> out, ocnf |-> cnf,
                count |-> IF cnf < 0 THEN -count ELSE count]
        t   == [s EXCEPT !.unspents = @ \cup {row}, !.nextCoin = @ + 1]
    IN  IF s.thrown THEN s
        ELSE IF s.index /\ TrieFind(s.unspents, out) # {} THEN Throw(s)
        ELSE IF s.depth = 0 THEN t
        ELSE IF cnf > 0 THEN [t EXCEPT !.spend = TrieInsert(@, row)]
        ELSE IF TrieFind(s.immature, out) \cup TrieFind(s.spend, out) # {}
        THEN Throw(t)
        ELSE [t EXCEPT !.immature = TrieInsert(@, row)]

(* Mutant: a matured coinbase also stays among the immature ones. *)
MaturateKeepsImmature(s, count) ==
    [s EXCEPT !.spend = TrieInsertAll(@, {row \in s.unspents : row.count = -count})]

(* Mutant: the coinbase of the block after it becomes spendable. *)
MaturateEarly(s, count) ==
    LET rows == {row \in s.unspents : row.count = -(count + 1)} IN
    [s EXCEPT !.spend    = TrieInsertAll(@, rows),
              !.immature = {row \in @ : \A r \in rows : r.out # row.out}]

(* maturate(): the coinbases of the block at a count become spendable. *)
Maturate(s, count) ==
    LET rows == {row \in s.unspents : row.count = -count} IN
    [s EXCEPT !.spend    = TrieInsertAll(@, rows),
              !.immature = {row \in @ : \A r \in rows : r.out # row.out}]

(***************************************************************************)
(* Names.  A "new" reserves a hash, a "first" with the name of that hash   *)
(* makes it the holder of the name, an "update" passes it on.              *)
(***************************************************************************)

NameCoin(out) == out[1] \in DOMAIN Txn /\ out[2] = 0 /\ Txn[out[1]].op.kind # "none"

(* getCoinName(), "" if the coin has none *)
CoinName(s, coin) == UNION {{row.name} : row \in {r \in s.names : r.coin = coin}}

(* getNameAge(): the count of the latest row, 0 if there is none *)
NameAge(s, name) == Max({0} \cup {row.count : row \in {r \in s.names : {r.name} = name}})

isExpired(latest, count) == latest = 0 \/ latest <= count - Expiry

(* NameOperation::input() of every input, where coins[i] is the one that is *)
(* spent: a "new" may be followed by another name coin, no other may.       *)
NameInput(s, ins, coins) ==
    FoldLeft(LAMBDA in, i :
                IF ~NameCoin(ins[i]) THEN in
                ELSE IF in.kind \notin {"none", "new"} THEN [in EXCEPT !.kind = "two"]
                ELSE [kind |-> Txn[ins[i][1]].op.kind, script |-> Txn[ins[i][1]].op.name,
                      count |-> coins[i].count, name |-> CoinName(s, coins[i].coin)],
             [kind |-> "none", script |-> "", count |-> 0, name |-> {}],
             [i \in 1..Len(ins) |-> i])

(* NameOperation::output(): without a name coin as input nothing is checked *)
(* and no name is set.                                                      *)
NameOutput(in, out) ==
    IF in.kind = "two" THEN "throws"
    ELSE IF in.kind = "none" \/ out.kind = "none" THEN "nothing"
    ELSE IF in.script # out.name THEN "throws"
    ELSE IF in.kind = "new" /\ out.kind = "first" THEN "reserve"
    ELSE IF in.kind \in {"first", "update"} /\ out.kind = "update" THEN "update"
    ELSE "throws"

(* updateName(), for the coin that was issued *)
UpdateName(s, in, out, coin, count) ==
    LET does == NameOutput(in, out)
        name == IF does = "reserve" THEN {out.name} ELSE in.name
        free == isExpired(NameAge(s, name), count)
    IN  IF s.thrown \/ does = "nothing" THEN s
        ELSE IF \/ does = "throws" \/ (does = "reserve") # free
                \/ does = "reserve" /\ count - in.count < Depth
        THEN Throw(s)
        ELSE [s EXCEPT !.names = @ \cup {[name |-> n, value |-> out.value,
                                         coin |-> coin, count |-> count] : n \in name}]

(* LOCKTIME_THRESHOLD: the confirmation of what is posted at a count that   *)
(* is purged                                                                *)
NoConfirmation == 500000000

(* postTransaction(): a confirmation, its inputs, its outputs. *)
PostTransaction(s, txn, count, idx) ==
    LET kept     == count >= s.purge
        cnf      == IF kept THEN s.nextCnf ELSE NoConfirmation
        opened   == IF ~kept THEN s
                    ELSE [s EXCEPT !.nextCnf = @ + 1,
                                   !.conf = @ \cup {[cnf |-> cnf, count |-> count,
                                                     idx |-> idx, txn |-> txn]}]
        ins      == Txn[txn].ins
        redeemed == FoldLeft(LAMBDA st, out : Redeem(st, out, cnf, count), opened, ins)
        coins    == [i \in 1..Len(ins) |-> CHOOSE row \in CoinsOf(s) : row.out = ins[i]]
        issued   == FoldLeft(LAMBDA st, i : Issue(st, <<txn, i - 1>>, cnf, count),
                             redeemed, [i \in 1..Txn[txn].outs |-> i])
    IN  IF redeemed.thrown THEN Throw(s)
        ELSE UpdateName(issued, NameInput(s, ins, coins), Txn[txn].op, redeemed.nextCoin, count)

(* postSubsidy(): the coinbase has the negative count as confirmation. *)
PostSubsidy(s, hash, count) ==
    LET opened == IF count < s.purge THEN s
                  ELSE [s EXCEPT !.conf = @ \cup {[cnf |-> -count, count |-> count,
                                                   idx |-> 0, txn |-> hash]}]
        issued == Issue(opened, <<hash, 0>>, -count, count)
    IN  IF s.thrown \/ \E c \in s.conf : c.cnf = -count THEN Throw(s)
        ELSE IF s.depth > 0 /\ ~issued.thrown /\ count > Maturity
        THEN Maturate(issued, count - Maturity + 1)
        ELSE issued

(* The part of attach() that writes: header, transactions, then coinbase.  *)
(* Blocks has the count as primary key.                                    *)
PostBlock(s, hash, count) ==
    LET headed == [s EXCEPT !.blocks = [c \in DOMAIN s.blocks \cup {count} |->
                                          IF c = count THEN hash ELSE s.blocks[c]]]
        txns   == Block[hash].txns
        posted == FoldLeft(LAMBDA st, i : PostTransaction(st, txns[i], count, i),
                           headed, [i \in 1..Len(txns) |-> i])
    IN  IF s.thrown \/ count \in DOMAIN s.blocks THEN Throw(s)
        ELSE PostSubsidy(posted, hash, count)

(***************************************************************************)
(* Rolling back.                                                           *)
(***************************************************************************)

(* Mutant: the outputs stay. *)
RollbackKeepsOutputs(s, cnf) ==
    LET spent == {sp \in s.spendings : sp.icnf = cnf} IN
    [s EXCEPT !.spendings = @ \ spent,
              !.unspents  = @ \cup
                  {[coin |-> sp.coin, out |-> sp.out, ocnf |-> sp.ocnf, count |-> c.count] :
                     <<sp, c>> \in {sc \in spent \X s.conf : sc[2].cnf = sc[1].ocnf}},
              !.conf      = {c \in @ : c.cnf # cnf}]

(* Mutant: the names stay. *)
KeepNames(names, issued) == names

(* The names that the coins issued hold are deleted. *)
ForgetNames(names, issued) == {n \in names : \A row \in issued : row.coin # n.coin}

(* rollbackConfirmation(): the inputs are unspent again, all with the      *)
(* count of the confirmation that issued the first of them (0 when it is   *)
(* gone), and the outputs are deleted.  The trie gets the count of the     *)
(* rolled back transaction instead, and nothing is done for a coinbase.    *)
RollbackConfirmation(s, cnf) ==
    LET spent   == {sp \in s.spendings : sp.icnf = cnf}
        issued  == {row \in s.unspents : row.ocnf = cnf}
        here    == (CHOOSE c \in s.conf : c.cnf = cnf).count
        origin  == {c \in s.conf : \E sp \in spent :
                      c.cnf = sp.ocnf /\ \A o \in spent : sp.coin <= o.coin}
        first   == IF origin = {} THEN 0 ELSE (CHOOSE c \in origin : TRUE).count
        back(n) == {[coin |-> sp.coin, out |-> sp.out, ocnf |-> sp.ocnf,
                     count |-> n] : sp \in spent}
    IN  IF s.thrown THEN s
        ELSE IF s.index /\ \E sp \in spent : TrieFind(s.unspents, sp.out) # {}
        THEN Throw(s)
        ELSE [s EXCEPT
           !.spend     = IF s.depth > 0 /\ cnf > 0
                         THEN {row \in TrieInsertAll(@, back(here)) :
                                 \A u \in issued : u.out # row.out}
                         ELSE @,
           !.spendings = @ \ spent,
           !.unspents  = (@ \ issued) \cup {row \in back(first) : row.ocnf # cnf},
           !.names     = ForgetNames(@, issued),
           !.conf      = {c \in @ : c.cnf # cnf}]

(* rollbackBlock(): the transactions of a count, the last one first. *)
RollbackBlock(s, count) ==
    LET here == {c \in s.conf : c.count = count}
        cnfs == SetToSortSeq(here, LAMBDA a, b : a.idx > b.idx)
        back == FoldLeft(LAMBDA st, c : RollbackConfirmation(st, c.cnf), s, cnfs)
    IN  [back EXCEPT !.blocks = [c \in DOMAIN s.blocks \ {count} |-> s.blocks[c]]]

(***************************************************************************)
(* Purging, the constructor and the settings of the depths.                *)
(***************************************************************************)

PurgeTo(s, count) ==
    LET old == {c \in s.conf : c.count <= count} IN
    [s EXCEPT !.spendings = {sp \in @ : \A c \in old : c.cnf # sp.icnf},
              !.conf      = @ \ old]

(* The purging of append(), which keeps up with the chain *)
PurgeOld(s, count, prevHeight) ==
    IF s.purge = 0 \/ s.lazy \/ count < s.purge THEN s
    ELSE [PurgeTo(s, s.purge) EXCEPT
            !.purge = IF @ = prevHeight - Maturity THEN @ + 1 ELSE @]

(* purge_depth(): purges to the depth if it is below the first confirmation *)
SetPurge(s, depth) ==
    LET current == IF s.conf = {} THEN 0 ELSE Min({c.count : c \in s.conf})
    IN  [(IF depth > current THEN PurgeTo(s, depth) ELSE s) EXCEPT !.purge = depth]

(* Node::update_persistence(), for a chain of a number of blocks *)
Persist(s, strictness, count, estimate) ==
    [SetPurge(s, CASE strictness = "FULL" -> 0
                   [] strictness = "LAST_CHECKPOINT" -> estimate
                   [] strictness \in {"LAZY", "MINIMAL"} -> count - 1 - Maturity)
        EXCEPT !.lazy = (strictness = "LAZY")]

(* Without the index the tries are filled, with the coinbases that the     *)
(* next block may spend among the spendables; estimate is the depth        *)
(* Chain::totalBlocksEstimate() gives.                                     *)
Load(s, count, estimate) ==
    LET mature == {row \in s.unspents : row.count >= -(count - Maturity + 1)} IN
    [s EXCEPT
       !.depth    = IF s.index THEN 0 ELSE estimate,
       !.spend    = IF s.index THEN {} ELSE TrieInsertAll({}, mature),
       !.immature = IF s.index THEN {} ELSE TrieInsertAll({}, s.unspents \ mature)]

(* validation_depth(): the index comes and goes, the tries stay as they are. *)
SetDepth(s, depth) ==
    IF depth = s.depth THEN s ELSE [s EXCEPT !.depth = depth, !.index = (depth = 0)]
=============================================================================
