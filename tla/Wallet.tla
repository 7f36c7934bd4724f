------------------------------- MODULE Wallet -------------------------------
(***************************************************************************)
(* The wallet (Wallet.cpp), its key stores (KeyStore, CryptoKeyStore) and   *)
(* the records it keeps on disk (WalletDB).                                 *)
(*                                                                          *)
(* Two threads: the server thread runs the RPC methods and the timer that   *)
(* locks the wallet, the node thread calls the wallet for transactions and  *)
(* blocks.  Whatever writes to disk holds cs_wallet, so an operation on the *)
(* memory is one step; the states of the disk it goes through are queued,   *)
(* one write per step, and no other operation starts before the last.  The  *)
(* process may end between any two writes.                                  *)
(*                                                                          *)
(* A key is a number, in the order of making.  Keys are made compressed, so *)
(* that addresses are those of compressed keys (Key.h:124).  A transaction  *)
(* has at most one output that pays the wallet, to the hash of a key (an    *)
(* address) or to the key itself.                                           *)
(***************************************************************************)
EXTENDS Integers, Sequences, SequencesExt, FiniteSets, FiniteSetsExt

CONSTANTS Pays,        \* transactions of others
          Sends,       \* transactions the wallet makes
          TargetSize,  \* nTargetSize of the key pool
          MaxKeys,     \* bound on the keys made
          MaxCrashes,  \* bound on the ends of the process
          MaxUnlocks   \* bound on the calls of walletpassphrase

ASSUME WalletAssumption ==
    /\ Pays \cap Sends = {}
    /\ TargetSize \in Nat \ {0}
    /\ MaxKeys \in Nat \ {0, 1}
    /\ MaxCrashes \in Nat
    /\ MaxUnlocks \in Nat

VARIABLES mem,       \* what the wallet has in memory
          disk,      \* wallet.dat
          writes,    \* the states of the disk still to be written
          after,     \* what follows the last write
          txns,      \* the transactions there are
          made,      \* how many keys were made
          rpc,       \* the transaction that SendMoney has created
          unlocked,  \* vMasterKey is not empty
          timer,     \* _lock_timer
          handed,    \* keys others may have seen
          posted,    \* transactions posted to the node
          crashes,
          unlocks

vars == <<mem, disk, writes, after, txns, made, rpc, unlocked, timer, handed,
          posted, crashes, unlocks>>

Txns == Pays \cup Sends
Keys == 1..MaxKeys

(* No key, and no index of the pool: an output that is not ours, nIndex = -1. *)
NoKey == 0

(* How memory holds a key: *)
(*   fresh    with the flag that its public key is compressed *)
(*   loaded   as read from disk, where the flag is lost (SetPrivKey) *)
(*   crypted  encrypted, under the hash of its compressed public key *)
(*   twisted  encrypted, under the hash of its uncompressed public key *)
Kinds == {"none", "fresh", "loaded", "crypted", "twisted"}

(* The index of a pool record never exceeds the keys made. *)
Memory == [txs : SUBSET Txns, spent : SUBSET Txns, placed : SUBSET Txns,
           pool : SUBSET Keys, defaultKey : Keys \cup {NoKey},
           kind : [Keys -> Kinds], useCrypto : BOOLEAN]

DiskOK(d) ==
    /\ d.txs \subseteq Txns /\ d.spent \subseteq d.txs /\ d.placed \subseteq d.txs
    /\ DOMAIN d.pool \subseteq Keys /\ Range(d.pool) \subseteq Keys
    /\ d.defaultKey \in Keys
    /\ d.plain \cup d.crypted \cup d.twisted \subseteq Keys

Nothing == [do |-> "nothing", key |-> NoKey, tx |-> "none"]
Idle == [pc |-> "idle", ins |-> {}, index |-> NoKey, key |-> NoKey]

(* The types; what the wallet knows is no less than what it has on disk. *)
TypeOK ==
    /\ mem \in Memory
    /\ DiskOK(disk) /\ \A i \in DOMAIN writes : DiskOK(writes[i])
    /\ after.do \in {"nothing", "hand", "post", "exit"}
    /\ DOMAIN txns \subseteq Txns /\ disk.txs \subseteq mem.txs
    /\ \A t \in DOMAIN txns : txns[t].ins \subseteq DOMAIN txns /\ txns[t].key \in Keys \cup {NoKey}
    /\ made \in Keys
    /\ rpc.pc \in {"idle", "created", "failed"}
    /\ unlocked => mem.useCrypto
    /\ timer.armed \in BOOLEAN /\ timer.due \in 0..MaxUnlocks
    /\ handed \subseteq Keys /\ posted \subseteq Sends

----------------------------------------------------------------------------
(* Operations work on a wallet w: its memory, its disk as it will be, the   *)
(* states of the disk on the way, and the keys made.                        *)

(* Op(x), where x is evaluated once. *)
With(x, Op(_)) == CHOOSE y \in {Op(z) : z \in {x}} : TRUE

Current == [mem |-> mem, disk |-> disk, log |-> <<>>, made |-> made]

Write(w, d) == [w EXCEPT !.disk = d, !.log = Append(@, d)]

Had(m, k) == m.kind[k] \in {"fresh", "loaded", "crypted"}

IsLocked == mem.useCrypto /\ ~unlocked

(* generateNewKey: MakeNewKey, then addKey in memory and on disk *)
GenerateNewKey(w) ==
    LET k == w.made + 1
    IN  IF w.mem.useCrypto
        THEN Write([w EXCEPT !.mem = [@ EXCEPT !.kind[k] = "crypted"], !.made = k],
                   [w.disk EXCEPT !.crypted = @ \cup {k}])
        ELSE Write([w EXCEPT !.mem = [@ EXCEPT !.kind[k] = "fresh"], !.made = k],
                   [w.disk EXCEPT !.plain = @ \cup {k}])

(* WritePool: the record of the index is put in place of any there is *)
WritePool(w, i, k) ==
    Write(w, [w.disk EXCEPT !.pool = [j \in DOMAIN @ \cup {i} |-> IF j = i THEN k ELSE @[j]]])

AddPoolKey(w) ==
    LET nEnd == IF w.mem.pool = {} THEN 1 ELSE Max(w.mem.pool) + 1
        g == GenerateNewKey(w)
    IN  WritePool([g EXCEPT !.mem.pool = @ \cup {nEnd}], nEnd, g.made)

(* The pool is filled up to one more than its target, unless locked. *)
Lacks(w, n) == ~IsLocked /\ Cardinality(w.mem.pool) < n

(* There are keys left, within the bound, to top up the pool of w. *)
CanTopUp(w) ==
    \A n \in 1..TargetSize + 1 : Lacks(w, n) => w.made + n - Cardinality(w.mem.pool) <= MaxKeys

TopUpTo(w, n) == IF Lacks(w, n) THEN AddPoolKey(w) ELSE w

(* The wallet after each pass of the loop *)
ToppedUp(w) ==
    LET top[n \in 0..TargetSize + 1] == IF n = 0 THEN w ELSE TopUpTo(top[n - 1], n)
    IN  top

TopUpKeyPool(w) == ToppedUp(w)[TargetSize + 1]

(* ReserveKeyFromKeyPool: the index leaves the pool in memory, not on disk. *)
(* Its key may be one the wallet does not have: then it throws.             *)
ReserveFrom(t) ==
    LET i == IF t.mem.pool = {} THEN NoKey ELSE Min(t.mem.pool)
        k == IF i = NoKey THEN NoKey ELSE t.disk.pool[i]
    IN  [w |-> [t EXCEPT !.mem.pool = @ \ {i}], index |-> i, key |-> k,
         throws |-> i # NoKey /\ ~Had(t.mem, k)]

Reserve(w) == With(TopUpKeyPool(w), ReserveFrom)

KeepKey(w, i) ==
    IF i = NoKey THEN w
    ELSE Write(w, [w.disk EXCEPT !.pool = [j \in DOMAIN @ \ {i} |-> @[j]]])

ReturnKey(w, i) == IF i = NoKey THEN w ELSE [w EXCEPT !.mem.pool = @ \cup {i}]

KeepReserved(r) == IF r.throws THEN r ELSE [r EXCEPT !.w = KeepKey(r.w, r.index)]

(* GetKeyFromPool, which never reuses: its callers all say so *)
GetKeyFromPool(w) == With(Reserve(w), KeepReserved)

----------------------------------------------------------------------------
SetDefaultKey(w, k) ==
    IF k = NoKey THEN w
    ELSE Write([w EXCEPT !.mem.defaultKey = k], [w.disk EXCEPT !.defaultKey = k])

(* mapWallet and the record of the transaction; written only if it is new   *)
(* or was not placed in a block                                             *)
Record(w, t, inBlock) ==
    IF t \in w.mem.txs /\ (inBlock => t \in w.mem.placed) THEN w
    ELSE LET p == IF inBlock THEN {t} ELSE {}
         IN  Write([w EXCEPT !.mem = [w.mem EXCEPT !.txs = @ \cup {t}, !.placed = @ \cup p]],
                   [w.disk EXCEPT !.txs = @ \cup {t}, !.placed = @ \cup p])

(* Erroneous: the mark is not written to disk. *)
MarkSpentUnsaved(w, t) == [w EXCEPT !.mem.spent = @ \cup {t}]

MarkSpent(w, t) ==
    Write([w EXCEPT !.mem.spent = @ \cup {t}], [w.disk EXCEPT !.spent = @ \cup {t}])

IsMine(m, t) == txns[t].key # NoKey /\ Had(m, txns[t].key)

(* The loop of CommitTransaction over the coins: the wallet after each *)
MarkedAll(w, order) ==
    LET mark[n \in 0..Len(order)] == IF n = 0 THEN w ELSE MarkSpent(mark[n - 1], order[n])
    IN  mark

UpdateSpent(w, t) ==
    IF t \in w.mem.txs \ w.mem.spent /\ IsMine(w.mem, t) THEN MarkSpent(w, t) ELSE w

(* The loop of WalletUpdateSpent over the inputs: the wallet after each *)
UpdatedAll(w, order) ==
    LET upd[n \in 0..Len(order)] == IF n = 0 THEN w ELSE UpdateSpent(upd[n - 1], order[n])
    IN  upd

(* WalletUpdateSpent: the coins of the wallet that are inputs, one by one *)
WalletUpdateSpent(w, order) == UpdatedAll(w, order)[Len(order)]

(* AddToWallet: the record, a new default key if the default was paid, and  *)
(* the coins that are spent.  If the pool throws, the rest is not done.     *)
AddToWallet(w, t, x, order, inBlock) ==
    LET WithKey(g) ==
            IF g.throws THEN [w |-> g.w, key |-> NoKey, throws |-> TRUE]
            ELSE [w |-> WalletUpdateSpent(SetDefaultKey(g.w, g.key), order),
                  key |-> g.key, throws |-> FALSE]
        Recorded(r) ==
            IF x.byHash /\ x.key # NoKey /\ x.key = r.mem.defaultKey
            THEN With(GetKeyFromPool(r), WithKey)
            ELSE [w |-> WalletUpdateSpent(r, order), key |-> NoKey, throws |-> FALSE]
    IN  With(Record(w, t, inBlock), Recorded)

----------------------------------------------------------------------------
(* The process runs and no thread holds cs_wallet. *)
Free == writes = <<>> /\ after = Nothing

(* An operation is done in memory, and its writes begin. *)
Do(w, then) ==
    \E done \in {w} :
       /\ done.made <= MaxKeys
       /\ mem' = done.mem /\ made' = done.made /\ writes' = done.log /\ after' = then

(* GetNewAddress: the key is seen by others once it is answered. *)
GetNewAddress ==
    /\ Free /\ rpc = Idle /\ CanTopUp(Current)
    /\ LET g == GetKeyFromPool(Current)
       IN  Do(g.w, IF g.throws \/ g.index = NoKey THEN Nothing
                   ELSE [Nothing EXCEPT !.do = "hand", !.key = g.key])
    /\ UNCHANGED <<disk, txns, rpc, unlocked, timer, handed, posted, crashes, unlocks>>

KeypoolRefill ==
    /\ Free /\ rpc = Idle /\ ~IsLocked /\ CanTopUp(Current)
    /\ Do(TopUpKeyPool(Current), Nothing)
    /\ UNCHANGED <<disk, txns, rpc, unlocked, timer, handed, posted, crashes, unlocks>>

(* The coins that SelectCoins chooses from *)
Spendable == {t \in mem.txs : t \in mem.placed /\ t \notin mem.spent /\ IsMine(mem, t)}

(* SignSignature verifies what it signs: of a key that was loaded, it gives *)
(* the uncompressed public key, which does not hash to what was paid.       *)
CanSign(t) ==
    \/ mem.kind[txns[t].key] \in {"fresh", "crypted"}
    \/ mem.kind[txns[t].key] = "loaded" /\ ~txns[t].byHash

(* CreateTransaction without change, or with one that pays a reserved key.  *)
(* Signing, or a fee or size that does not fit, may make it fail after the  *)
(* key was reserved; so does a key that the wallet does not have.           *)
Create ==
    /\ Free /\ rpc = Idle /\ ~IsLocked /\ \E t \in Sends : t \notin DOMAIN txns
    /\ \E ins \in (SUBSET Spendable) \ {{}}, change \in BOOLEAN, fails \in BOOLEAN :
       /\ ~fails => \A t \in ins : CanSign(t)
       /\ IF change
          THEN /\ CanTopUp(Current)
               /\ LET r == Reserve(Current)
                  IN  /\ Do(r.w, Nothing)
                      /\ rpc' = [pc |-> IF fails \/ r.throws THEN "failed" ELSE "created",
                                 ins |-> ins, index |-> r.index, key |-> r.key]
          ELSE /\ ~fails
               /\ Do(Current, Nothing)
               /\ rpc' = [Idle EXCEPT !.pc = "created", !.ins = ins]
    /\ UNCHANGED <<disk, txns, unlocked, timer, handed, posted, crashes, unlocks>>

(* ~CReserveKey after a failure *)
Fail ==
    /\ Free /\ rpc.pc = "failed"
    /\ Do(ReturnKey(Current, rpc.index), Nothing)
    /\ rpc' = Idle
    /\ UNCHANGED <<disk, txns, unlocked, timer, handed, posted, crashes, unlocks>>

(* Erroneous: the reserve that was kept is returned all the same. *)
CommitReturnsKey ==
    /\ Free /\ rpc.pc = "created"
    /\ \E t \in Sends \ DOMAIN txns, order \in SetToSeqs(rpc.ins) :
       LET x == [ins |-> rpc.ins, key |-> rpc.key, byHash |-> TRUE]
           a == AddToWallet(KeepKey(Current, rpc.index), t, x, order, FALSE)
           m == MarkedAll(a.w, order)[Len(order)]
       IN  /\ txns' = [u \in DOMAIN txns \cup {t} |-> IF u = t THEN x ELSE txns[u]]
           /\ Do(ReturnKey(m, rpc.index), [do |-> "post", key |-> rpc.key, tx |-> t])
    /\ rpc' = Idle
    /\ UNCHANGED <<disk, unlocked, timer, handed, posted, crashes, unlocks>>

(* CommitTransaction: keep the key, record the transaction, mark the coins, *)
(* and only then post.                                                      *)
CommitTransaction ==
    /\ Free /\ rpc.pc = "created"
    /\ \E t \in Sends \ DOMAIN txns, order \in SetToSeqs(rpc.ins) :
       LET x == [ins |-> rpc.ins, key |-> rpc.key, byHash |-> TRUE]
           a == AddToWallet(KeepKey(Current, rpc.index), t, x, order, FALSE)
           m == MarkedAll(a.w, order)[Len(order)]
       IN  /\ txns' = [u \in DOMAIN txns \cup {t} |-> IF u = t THEN x ELSE txns[u]]
           /\ Do(m, [do |-> "post", key |-> rpc.key, tx |-> t])
    /\ rpc' = Idle
    /\ UNCHANGED <<disk, unlocked, timer, handed, posted, crashes, unlocks>>

----------------------------------------------------------------------------
(* transactionAccepted and blockAccepted, on the node thread: an exception  *)
(* of the pool leaves the thread and ends the process.                      *)
Accepted(t, x, order, inBlock) ==
    IF t \in mem.txs \/ (x.key # NoKey /\ Had(mem, x.key)) \/ \E u \in x.ins \cap mem.txs : IsMine(mem, u)
    THEN AddToWallet(Current, t, x, order, inBlock)
    ELSE [w |-> WalletUpdateSpent(Current, order), key |-> NoKey, throws |-> FALSE]

Notify(t, x, inBlock) ==
    /\ Free /\ CanTopUp(Current)
    /\ \E order \in SetToSeqs(x.ins) : \E a \in {Accepted(t, x, order, inBlock)} :
           Do(a.w, IF a.throws THEN [Nothing EXCEPT !.do = "exit"]
                   ELSE IF a.key = NoKey THEN Nothing
                   ELSE [Nothing EXCEPT !.do = "hand", !.key = a.key])
    /\ txns' = [u \in DOMAIN txns \cup {t} |-> IF u = t THEN x ELSE txns[u]]
    /\ UNCHANGED <<disk, rpc, unlocked, timer, handed, posted, crashes, unlocks>>

(* A transaction of others pays a key they have seen; one made with a copy  *)
(* of the wallet spends a coin.                                             *)
Receive ==
    \E t \in Pays \ DOMAIN txns, inBlock \in BOOLEAN :
       \/ \E k \in handed, byHash \in BOOLEAN :
             Notify(t, [ins |-> {}, key |-> k, byHash |-> byHash], inBlock)
       \/ \E u \in mem.txs :
             Notify(t, [ins |-> {u}, key |-> NoKey, byHash |-> TRUE], inBlock)

(* A transaction that is known is accepted again, or gets into a block, of  *)
(* one branch or of another.                                                *)
Confirm ==
    \E t \in (Pays \cap DOMAIN txns) \cup posted, inBlock \in BOOLEAN :
       /\ t \notin mem.placed
       /\ Notify(t, txns[t], inBlock)

----------------------------------------------------------------------------
(* EncryptWallet is one transaction of the database.  EncryptKeys drops the *)
(* flag of compression, and leaves the plain records.                       *)
EncryptWallet ==
    /\ Free /\ rpc = Idle /\ ~mem.useCrypto /\ disk.twisted = {}
    /\ LET held == {k \in Keys : mem.kind[k] # "none"}
           kind == [k \in Keys |-> IF k \in held THEN "twisted" ELSE "none"]
       IN  Do(Write([Current EXCEPT !.mem = [mem EXCEPT !.useCrypto = TRUE, !.kind = kind]],
                    [disk EXCEPT !.twisted = held]),
              Nothing)
    /\ UNCHANGED <<disk, txns, rpc, unlocked, timer, handed, posted, crashes, unlocks>>

(* Unlock tries the first of the encrypted keys, as an uncompressed one. *)
OpensWith(ok) ==
    IF ok THEN \E k \in Keys : mem.kind[k] = "twisted"
    ELSE \E k \in Keys : mem.kind[k] = "crypted"

(* WalletPassphrase: expires_from_now cancels a wait, whose handler is run  *)
(* all the same.                                                            *)
WalletPassphrase ==
    /\ Free /\ rpc = Idle /\ IsLocked /\ OpensWith(TRUE)
    /\ unlocks < MaxUnlocks
    /\ unlocked' = TRUE
    /\ timer' = [armed |-> TRUE, due |-> IF timer.armed THEN timer.due + 1 ELSE timer.due]
    /\ unlocks' = unlocks + 1
    /\ UNCHANGED <<mem, disk, writes, after, txns, made, rpc, handed, posted, crashes>>

(* Erroneous: the wallet that was locked is not locked again. *)
ChangeWithoutRelock ==
    /\ Free /\ rpc = Idle /\ mem.useCrypto
    /\ unlocked' \in {FALSE} \cup (IF OpensWith(TRUE) THEN {TRUE} ELSE {})
    /\ UNCHANGED <<mem, disk, writes, after, txns, made, rpc, timer, handed, posted, crashes, unlocks>>

(* ChangeWalletPassphrase locks first, so that a wrong passphrase leaves    *)
(* the wallet locked; a right one leaves it as it was.                      *)
ChangeWalletPassphrase ==
    /\ Free /\ rpc = Idle /\ mem.useCrypto
    /\ unlocked' \in {FALSE} \cup (IF OpensWith(TRUE) /\ ~IsLocked THEN {TRUE} ELSE {})
    /\ UNCHANGED <<mem, disk, writes, after, txns, made, rpc, timer, handed, posted, crashes, unlocks>>

(* WalletLock does not stop the timer. *)
WalletLock ==
    /\ rpc = Idle /\ mem.useCrypto
    /\ unlocked' = FALSE
    /\ UNCHANGED <<mem, disk, writes, after, txns, made, rpc, timer, handed, posted, crashes, unlocks>>

TimerExpires ==
    /\ timer.armed
    /\ timer' = [armed |-> FALSE, due |-> timer.due + 1]
    /\ UNCHANGED <<mem, disk, writes, after, txns, made, rpc, unlocked, handed, posted, crashes, unlocks>>

(* The handler of the timer is Wallet::Lock; it takes no error code. *)
TimerLocks ==
    /\ rpc = Idle /\ timer.due > 0
    /\ timer' = [timer EXCEPT !.due = @ - 1]
    /\ unlocked' = FALSE
    /\ UNCHANGED <<mem, disk, writes, after, txns, made, rpc, handed, posted, crashes, unlocks>>

----------------------------------------------------------------------------
WriteToDisk ==
    /\ writes # <<>>
    /\ disk' = Head(writes) /\ writes' = Tail(writes)
    /\ UNCHANGED <<mem, after, txns, made, rpc, unlocked, timer, handed, posted, crashes, unlocks>>

(* The end of an operation: an address is given, a transaction is posted,   *)
(* whose outputs all see.                                                   *)
Finish ==
    /\ writes = <<>> /\ after.do \in {"hand", "post"}
    /\ handed' = handed \cup ({after.key} \ {NoKey})
    /\ posted' = IF after.do = "post" THEN posted \cup {after.tx} ELSE posted
    /\ after' = Nothing
    /\ UNCHANGED <<mem, disk, writes, txns, made, rpc, unlocked, timer, crashes, unlocks>>

(* LoadWallet reads transactions, then plain keys, then encrypted ones; the *)
(* first of these makes it give up if there was a plain one (SetCrypted),   *)
(* and the constructor of the wallet goes on with what was read.            *)
Load(d) ==
    LET encrypted == d.crypted \cup d.twisted
        gaveUp == encrypted # {} /\ d.plain # {}
    IN  [txs |-> d.txs, spent |-> d.spent, placed |-> d.placed,
         pool |-> IF gaveUp THEN {} ELSE DOMAIN d.pool,
         defaultKey |-> IF gaveUp THEN NoKey ELSE d.defaultKey,
         kind |-> [k \in Keys |->
                     CASE k \in d.plain -> "loaded"
                       [] ~gaveUp /\ k \in d.crypted -> "crypted"
                       [] ~gaveUp /\ k \in d.twisted \ d.crypted -> "twisted"
                       [] OTHER -> "none"],
         useCrypto |-> ~gaveUp /\ encrypted # {}]

Restart ==
    /\ mem' = Load(disk) /\ writes' = <<>> /\ after' = Nothing
    /\ rpc' = Idle /\ unlocked' = FALSE /\ timer' = [armed |-> FALSE, due |-> 0]
    /\ UNCHANGED <<disk, txns, made, handed, posted, unlocks>>

(* The process ends, by an exception on the node thread or by anything else. *)
Exit == writes = <<>> /\ after.do = "exit" /\ Restart /\ UNCHANGED crashes

Crash == crashes < MaxCrashes /\ Restart /\ crashes' = crashes + 1

----------------------------------------------------------------------------
(* A wallet just created: its first default key, from a pool topped up. *)
Init ==
    LET n == TargetSize + 1
        pool == 2..n
        d == [txs |-> {}, spent |-> {}, placed |-> {}, pool |-> [i \in pool |-> i],
              defaultKey |-> 1, plain |-> 1..n, crypted |-> {}, twisted |-> {}]
    IN  /\ n <= MaxKeys
        /\ disk = d
        /\ mem = [Load(d) EXCEPT !.kind = [k \in Keys |-> IF k <= n THEN "fresh" ELSE "none"]]
        /\ made = n
        /\ writes = <<>> /\ after = Nothing
        /\ txns = << >> /\ rpc = Idle
        /\ unlocked = FALSE /\ timer = [armed |-> FALSE, due |-> 0]
        /\ handed = {1} /\ posted = {}
        /\ crashes = 0 /\ unlocks = 0

Next ==
    \/ GetNewAddress \/ KeypoolRefill \/ Create \/ Fail \/ CommitTransaction
    \/ Receive \/ Confirm
    \/ EncryptWallet \/ WalletPassphrase \/ ChangeWalletPassphrase \/ WalletLock
    \/ TimerExpires \/ TimerLocks
    \/ WriteToDisk \/ Finish \/ Exit \/ Crash

Spec == Init /\ [][Next]_vars

----------------------------------------------------------------------------
(* A transaction leaves the process only once the wallet on disk has it and *)
(* has its inputs marked spent: a restart cannot forget it and spend them   *)
(* again (CommitTransaction).                                               *)
PostedAreSaved ==
    \A t \in posted : t \in disk.txs /\ txns[t].ins \subseteq disk.spent

(* Two transactions the wallet posts never spend the same coin, whatever    *)
(* the node thread records in between and wherever the process ended.       *)
SentAreDisjoint ==
    \A t, u \in posted : t # u => txns[t].ins \cap txns[u].ins = {}

(* What is sent is neither forgotten nor spent again, across every end of   *)
(* the process between two writes (CommitTransaction).                      *)
SentAreSafe == PostedAreSaved /\ SentAreDisjoint

(* A key that others have seen is not in the pool, nor would a restart put  *)
(* it there: addresses and change never share a key (KeepKey, ReturnKey).   *)
KeysAreUsedOnce ==
    /\ handed \cap Range(disk.pool) = {}
    /\ rpc.key \notin handed

(* Every index of the pool in memory has its record, so that                *)
(* ReserveKeyFromKeyPool never throws "read failed", and no two of them     *)
(* give the same key: top-ups do not write over a reserved or a live one.   *)
PoolIsReadable ==
    LET d == IF writes = <<>> THEN disk ELSE Last(writes)
        live == mem.pool \cup ({rpc.index} \ {NoKey})
    IN  /\ live \subseteq DOMAIN d.pool
        /\ rpc.index \notin mem.pool
        /\ \A i, j \in live : i # j => d.pool[i] # d.pool[j]

(* The types, and that the pool gives every key once and can always give    *)
(* one, whatever was reserved when the process ended.                       *)
KeyPoolIsSound == TypeOK /\ KeysAreUsedOnce /\ PoolIsReadable

(* While the wallet is unlocked a wait of the timer, or its handler, is     *)
(* pending, so that it does not stay unlocked for ever (WalletPassphrase).  *)
UnlockedIsTimed == unlocked => timer.armed \/ timer.due > 0
=============================================================================
