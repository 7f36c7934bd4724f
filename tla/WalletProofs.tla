---------------------------- MODULE WalletProofs ----------------------------
(***************************************************************************)
(* Proofs about Wallet: what the wallet sends stays saved and is never      *)
(* spent twice, the key pool gives every key once and can always be read,   *)
(* and an unlocked wallet has its timer running, wherever the process ends. *)
(*                                                                          *)
(* An operation works on a wallet in memory and leaves a trail of states of *)
(* the disk.  The lemmas of the first part say of every operation that it   *)
(* takes a sound wallet to a sound one (OK), that no state of the disk on   *)
(* its way forgets anything (Reach), and that it leaves a key which is      *)
(* reserved meanwhile alone (Keeps).  The second part is the inductive      *)
(* invariant, in which Now is the wallet as it will be when all the writes  *)
(* are done.                                                                *)
(***************************************************************************)
EXTENDS Wallet, FiniteSetTheorems, FunctionTheorems, NaturalsInduction, WellFoundedInduction, TLAPS

(* The keys a pool on disk gives *)
Listed(d) == {d.pool[i] : i \in DOMAIN d.pool}

(* The fields of the disk and of the memory *)
IsDiskRecord(d) ==
    d = [txs |-> d.txs, spent |-> d.spent, placed |-> d.placed,
         pool |-> d.pool, defaultKey |-> d.defaultKey,
         plain |-> d.plain, crypted |-> d.crypted,
         twisted |-> d.twisted]

IsMemoryRecord(m) ==
    m = [txs |-> m.txs, spent |-> m.spent, placed |-> m.placed,
         pool |-> m.pool, defaultKey |-> m.defaultKey, kind |-> m.kind,
         useCrypto |-> m.useCrypto]

(* A state of the disk, where n keys were made: no two records of the pool  *)
(* give the same key.                                                       *)
IsDisk(d, n) ==
    /\ IsDiskRecord(d)
    /\ d.txs \subseteq Txns /\ d.spent \subseteq d.txs /\ d.placed \subseteq d.txs
    /\ d.defaultKey \in 1 .. n
    /\ d.plain \subseteq 1 .. n /\ d.crypted \subseteq 1 .. n /\ d.twisted \subseteq Keys
    /\ DOMAIN d.pool \subseteq 1 .. n
    /\ \A i \in DOMAIN d.pool : d.pool[i] \in 1 .. n
    /\ \A i, j \in DOMAIN d.pool : i # j => d.pool[i] # d.pool[j]

(* A memory, where n keys were made *)
IsMemory(m, n) ==
    /\ IsMemoryRecord(m)
    /\ m.pool \subseteq 1 .. n
    /\ m.defaultKey \in 0 .. n
    /\ m.kind \in [Keys -> Kinds]
    /\ m.useCrypto \in BOOLEAN

(* The disk has what the memory has, and a record for its whole pool. *)
Agree(m, d) ==
    /\ m.txs = d.txs /\ m.spent = d.spent /\ m.placed = d.placed
    /\ m.pool \subseteq DOMAIN d.pool

(* The states of the disk that w has written, and the last of them *)
Disks(w) == {w.disk} \cup {w.log[i] : i \in DOMAIN w.log}

(* The log ends with the disk. *)
IsLog(l, d) ==
    /\ l \in Seq({l[i] : i \in DOMAIN l})
    /\ l # <<>> => l[Len(l)] = d

(* The fields of a wallet *)
IsRecord(w) == w = [mem |-> w.mem, disk |-> w.disk, log |-> w.log, made |-> w.made]

(* A sound wallet *)
OK(w) ==
    /\ IsRecord(w)
    /\ w.made \in Nat
    /\ IsMemory(w.mem, w.made)
    /\ Agree(w.mem, w.disk)
    /\ IsLog(w.log, w.disk)
    /\ \A d \in Disks(w) : IsDisk(d, w.made) /\ d.txs \subseteq w.disk.txs

(* Disk d forgets no transaction and no mark of c, and of the first n keys  *)
(* it lists no more.                                                        *)
More(c, d, n) ==
    /\ c.txs \subseteq d.txs /\ c.spent \subseteq d.spent
    /\ \A k \in 1 .. n : k \in Listed(d) => k \in Listed(c)

(* From v to w nothing is forgotten, at any state of the disk on the way;   *)
(* of the transactions, only those of X may be new.                         *)
Reach(v, w, X) ==
    /\ v.made <= w.made
    /\ More(v.disk, w.disk, v.made)
    /\ \A d \in Disks(w) : d \in Disks(v) \/ More(v.disk, d, v.made)
    /\ w.log = <<>> => v.log = <<>> /\ w.disk = v.disk
    /\ w.mem.txs \subseteq v.mem.txs \cup X
    /\ w.mem.useCrypto = v.mem.useCrypto

(* Index r, reserved by SendMoney, still has its record, for key k, and is  *)
(* below some index of the pool: no top-up can take it again.               *)
Reserved(w, r, k) ==
    r # NoKey => /\ r \in DOMAIN w.disk.pool /\ w.disk.pool[r] = k
                 /\ r \notin w.mem.pool
                 /\ \E j \in w.mem.pool : r < j

(* Whatever was reserved in v is so in w. *)
Keeps(v, w) == \A r \in Nat, k \in Nat : Reserved(v, r, k) => Reserved(w, r, k)

----------------------------------------------------------------------------
(* Steps that lead from v to w and on to u lead from v to u. *)
LEMMA ReachOn ==
    ASSUME NEW u, NEW v, NEW w, NEW X, v.made \in Nat, w.made \in Nat, u.made \in Nat,
           Reach(v, w, X), Reach(w, u, X)
    PROVE  Reach(v, u, X)
<1>1. v.made <= u.made
  BY DEF Reach
<1>2. ASSUME NEW d, More(w.disk, d, w.made) PROVE More(v.disk, d, v.made)
  BY <1>2 DEF Reach, More
<1>3. More(v.disk, u.disk, v.made)
  BY <1>2 DEF Reach
<1>4. ASSUME NEW d \in Disks(u) PROVE d \in Disks(v) \/ More(v.disk, d, v.made)
  BY <1>2, <1>4 DEF Reach
<1> HIDE DEF More, Disks
<1> QED
  BY <1>1, <1>3, <1>4 DEF Reach

(* A wallet leads to itself. *)
LEMMA ReachSelf ==
    ASSUME NEW w, NEW X, OK(w) PROVE Reach(w, w, X)
BY DEF OK, Reach, More

(* The same for what is reserved *)
LEMMA KeepsOn ==
    ASSUME NEW u, NEW v, NEW w, Keeps(v, w), Keeps(w, u) PROVE Keeps(v, u)
BY DEF Keeps

(* A write changes the disk and the log. *)
LEMMA WriteIs ==
    ASSUME NEW w, NEW d, IsRecord(w)
    PROVE  Write(w, d) = [mem |-> w.mem, disk |-> d, log |-> Append(w.log, d), made |-> w.made]
<1> DEFINE u == [w EXCEPT !.disk = d]
<1>1. u = [mem |-> w.mem, disk |-> d, log |-> w.log, made |-> w.made]
  BY DEF IsRecord
<1> HIDE DEF u
<1>2. u.log = w.log
  BY <1>1
<1>3. [u EXCEPT !.log = Append(w.log, d)]
        = [mem |-> w.mem, disk |-> d, log |-> Append(w.log, d), made |-> w.made]
  BY <1>1
<1>4. Write(w, d) = [u EXCEPT !.log = Append(w.log, d)]
  BY <1>2 DEF Write, u
<1> QED
  BY <1>3, <1>4

(* The same, where the fields have names *)
LEMMA WriteOn ==
    ASSUME NEW a, NEW b, NEW c, NEW e, NEW d
    PROVE  Write([mem |-> a, disk |-> b, log |-> c, made |-> e], d)
             = [mem |-> a, disk |-> d, log |-> Append(c, d), made |-> e]
<1> DEFINE v == [mem |-> a, disk |-> b, log |-> c, made |-> e]
<1>1. v.mem = a /\ v.disk = b /\ v.log = c /\ v.made = e
  OBVIOUS
<1>2. IsRecord(v)
  BY DEF IsRecord
<1> HIDE DEF v
<1>3. Write(v, d) = [mem |-> a, disk |-> d, log |-> Append(c, d), made |-> e]
  BY <1>1, <1>2, WriteIs
<1> QED
  BY <1>3 DEF v

(* Changes of one field of the disk *)
LEMMA DiskIs ==
    ASSUME NEW d, IsDiskRecord(d), NEW x
    PROVE  /\ [d EXCEPT !.txs = x]
                = [txs |-> x, spent |-> d.spent, placed |-> d.placed,
                   pool |-> d.pool, defaultKey |-> d.defaultKey,
                   plain |-> d.plain, crypted |-> d.crypted,
                   twisted |-> d.twisted]
           /\ [d EXCEPT !.spent = x]
                = [txs |-> d.txs, spent |-> x, placed |-> d.placed,
                   pool |-> d.pool, defaultKey |-> d.defaultKey,
                   plain |-> d.plain, crypted |-> d.crypted,
                   twisted |-> d.twisted]
           /\ [d EXCEPT !.placed = x]
                = [txs |-> d.txs, spent |-> d.spent, placed |-> x,
                   pool |-> d.pool, defaultKey |-> d.defaultKey,
                   plain |-> d.plain, crypted |-> d.crypted,
                   twisted |-> d.twisted]
           /\ [d EXCEPT !.pool = x]
                = [txs |-> d.txs, spent |-> d.spent, placed |-> d.placed,
                   pool |-> x, defaultKey |-> d.defaultKey, plain |-> d.plain,
                   crypted |-> d.crypted, twisted |-> d.twisted]
           /\ [d EXCEPT !.defaultKey = x]
                = [txs |-> d.txs, spent |-> d.spent, placed |-> d.placed,
                   pool |-> d.pool, defaultKey |-> x, plain |-> d.plain,
                   crypted |-> d.crypted, twisted |-> d.twisted]
           /\ [d EXCEPT !.plain = x]
                = [txs |-> d.txs, spent |-> d.spent, placed |-> d.placed,
                   pool |-> d.pool, defaultKey |-> d.defaultKey, plain |-> x,
                   crypted |-> d.crypted, twisted |-> d.twisted]
           /\ [d EXCEPT !.crypted = x]
                = [txs |-> d.txs, spent |-> d.spent, placed |-> d.placed,
                   pool |-> d.pool, defaultKey |-> d.defaultKey,
                   plain |-> d.plain, crypted |-> x, twisted |-> d.twisted]
           /\ [d EXCEPT !.twisted = x]
                = [txs |-> d.txs, spent |-> d.spent, placed |-> d.placed,
                   pool |-> d.pool, defaultKey |-> d.defaultKey,
                   plain |-> d.plain, crypted |-> d.crypted, twisted |-> x]
<1>1. [d EXCEPT !.txs = x]
        = [txs |-> x, spent |-> d.spent, placed |-> d.placed,
           pool |-> d.pool, defaultKey |-> d.defaultKey,
           plain |-> d.plain, crypted |-> d.crypted,
           twisted |-> d.twisted]
  BY DEF IsDiskRecord
<1>2. [d EXCEPT !.spent = x]
        = [txs |-> d.txs, spent |-> x, placed |-> d.placed,
           pool |-> d.pool, defaultKey |-> d.defaultKey,
           plain |-> d.plain, crypted |-> d.crypted,
           twisted |-> d.twisted]
  BY DEF IsDiskRecord
<1>3. [d EXCEPT !.placed = x]
        = [txs |-> d.txs, spent |-> d.spent, placed |-> x,
           pool |-> d.pool, defaultKey |-> d.defaultKey,
           plain |-> d.plain, crypted |-> d.crypted,
           twisted |-> d.twisted]
  BY DEF IsDiskRecord
<1>4. [d EXCEPT !.pool = x]
        = [txs |-> d.txs, spent |-> d.spent, placed |-> d.placed,
           pool |-> x, defaultKey |-> d.defaultKey, plain |-> d.plain,
           crypted |-> d.crypted, twisted |-> d.twisted]
  BY DEF IsDiskRecord
<1>5. [d EXCEPT !.defaultKey = x]
        = [txs |-> d.txs, spent |-> d.spent, placed |-> d.placed,
           pool |-> d.pool, defaultKey |-> x, plain |-> d.plain,
           crypted |-> d.crypted, twisted |-> d.twisted]
  BY DEF IsDiskRecord
<1>6. [d EXCEPT !.plain = x]
        = [txs |-> d.txs, spent |-> d.spent, placed |-> d.placed,
           pool |-> d.pool, defaultKey |-> d.defaultKey, plain |-> x,
           crypted |-> d.crypted, twisted |-> d.twisted]
  BY DEF IsDiskRecord
<1>7. [d EXCEPT !.crypted = x]
        = [txs |-> d.txs, spent |-> d.spent, placed |-> d.placed,
           pool |-> d.pool, defaultKey |-> d.defaultKey,
           plain |-> d.plain, crypted |-> x, twisted |-> d.twisted]
  BY DEF IsDiskRecord
<1>8. [d EXCEPT !.twisted = x]
        = [txs |-> d.txs, spent |-> d.spent, placed |-> d.placed,
           pool |-> d.pool, defaultKey |-> d.defaultKey,
           plain |-> d.plain, crypted |-> d.crypted, twisted |-> x]
  BY DEF IsDiskRecord
<1> QED
  BY <1>1, <1>2, <1>3, <1>4, <1>5, <1>6, <1>7, <1>8

(* Changes of one field of the memory *)
LEMMA MemIs ==
    ASSUME NEW m, IsMemoryRecord(m), NEW x
    PROVE  /\ [m EXCEPT !.txs = x]
                = [txs |-> x, spent |-> m.spent, placed |-> m.placed,
                   pool |-> m.pool, defaultKey |-> m.defaultKey, kind |-> m.kind,
                   useCrypto |-> m.useCrypto]
           /\ [m EXCEPT !.spent = x]
                = [txs |-> m.txs, spent |-> x, placed |-> m.placed,
                   pool |-> m.pool, defaultKey |-> m.defaultKey, kind |-> m.kind,
                   useCrypto |-> m.useCrypto]
           /\ [m EXCEPT !.placed = x]
                = [txs |-> m.txs, spent |-> m.spent, placed |-> x,
                   pool |-> m.pool, defaultKey |-> m.defaultKey, kind |-> m.kind,
                   useCrypto |-> m.useCrypto]
           /\ [m EXCEPT !.pool = x]
                = [txs |-> m.txs, spent |-> m.spent, placed |-> m.placed,
                   pool |-> x, defaultKey |-> m.defaultKey, kind |-> m.kind,
                   useCrypto |-> m.useCrypto]
           /\ [m EXCEPT !.defaultKey = x]
                = [txs |-> m.txs, spent |-> m.spent, placed |-> m.placed,
                   pool |-> m.pool, defaultKey |-> x, kind |-> m.kind,
                   useCrypto |-> m.useCrypto]
           /\ [m EXCEPT !.kind = x]
                = [txs |-> m.txs, spent |-> m.spent, placed |-> m.placed,
                   pool |-> m.pool, defaultKey |-> m.defaultKey, kind |-> x,
                   useCrypto |-> m.useCrypto]
           /\ [m EXCEPT !.useCrypto = x]
                = [txs |-> m.txs, spent |-> m.spent, placed |-> m.placed,
                   pool |-> m.pool, defaultKey |-> m.defaultKey, kind |-> m.kind,
                   useCrypto |-> x]
<1>1. [m EXCEPT !.txs = x]
        = [txs |-> x, spent |-> m.spent, placed |-> m.placed,
           pool |-> m.pool, defaultKey |-> m.defaultKey, kind |-> m.kind,
           useCrypto |-> m.useCrypto]
  BY DEF IsMemoryRecord
<1>2. [m EXCEPT !.spent = x]
        = [txs |-> m.txs, spent |-> x, placed |-> m.placed,
           pool |-> m.pool, defaultKey |-> m.defaultKey, kind |-> m.kind,
           useCrypto |-> m.useCrypto]
  BY DEF IsMemoryRecord
<1>3. [m EXCEPT !.placed = x]
        = [txs |-> m.txs, spent |-> m.spent, placed |-> x,
           pool |-> m.pool, defaultKey |-> m.defaultKey, kind |-> m.kind,
           useCrypto |-> m.useCrypto]
  BY DEF IsMemoryRecord
<1>4. [m EXCEPT !.pool = x]
        = [txs |-> m.txs, spent |-> m.spent, placed |-> m.placed,
           pool |-> x, defaultKey |-> m.defaultKey, kind |-> m.kind,
           useCrypto |-> m.useCrypto]
  BY DEF IsMemoryRecord
<1>5. [m EXCEPT !.defaultKey = x]
        = [txs |-> m.txs, spent |-> m.spent, placed |-> m.placed,
           pool |-> m.pool, defaultKey |-> x, kind |-> m.kind,
           useCrypto |-> m.useCrypto]
  BY DEF IsMemoryRecord
<1>6. [m EXCEPT !.kind = x]
        = [txs |-> m.txs, spent |-> m.spent, placed |-> m.placed,
           pool |-> m.pool, defaultKey |-> m.defaultKey, kind |-> x,
           useCrypto |-> m.useCrypto]
  BY DEF IsMemoryRecord
<1>7. [m EXCEPT !.useCrypto = x]
        = [txs |-> m.txs, spent |-> m.spent, placed |-> m.placed,
           pool |-> m.pool, defaultKey |-> m.defaultKey, kind |-> m.kind,
           useCrypto |-> x]
  BY DEF IsMemoryRecord
<1> QED
  BY <1>1, <1>2, <1>3, <1>4, <1>5, <1>6, <1>7

(* Changes of the memory, with or without a new key *)
LEMMA MemoryIs ==
    ASSUME NEW w, NEW m, NEW n, IsRecord(w)
    PROVE  /\ [w EXCEPT !.mem = m]
                = [mem |-> m, disk |-> w.disk, log |-> w.log, made |-> w.made]
           /\ [w EXCEPT !.mem = m, !.made = n]
                = [mem |-> m, disk |-> w.disk, log |-> w.log, made |-> n]
<1> DEFINE u == [w EXCEPT !.mem = m]
<1>1. u = [mem |-> m, disk |-> w.disk, log |-> w.log, made |-> w.made]
  BY DEF IsRecord
<1> HIDE DEF u
<1>2. [u EXCEPT !.made = n] = [mem |-> m, disk |-> w.disk, log |-> w.log, made |-> n]
  BY <1>1
<1> QED
  BY <1>1, <1>2 DEF u

(* What is there to show of an operation that began with v, has come to w   *)
(* and, with another write, to u                                            *)
IsNext(v, w, u, X) ==
    /\ IsRecord(u) /\ u.log = Append(w.log, u.disk) /\ u.made \in Nat /\ u.made >= w.made
    /\ IsMemory(u.mem, u.made) /\ IsDisk(u.disk, u.made) /\ Agree(u.mem, u.disk)
    /\ More(v.disk, u.disk, v.made) /\ w.disk.txs \subseteq u.disk.txs
    /\ u.mem.txs \subseteq v.mem.txs \cup X /\ u.mem.useCrypto = w.mem.useCrypto

(* A write that is so leaves a sound wallet and forgets nothing. *)
LEMMA Written ==
    ASSUME NEW v, NEW w, NEW u, NEW X, OK(v), OK(w), Reach(v, w, X), IsNext(v, w, u, X)
    PROVE  OK(u) /\ Reach(v, u, X)
<1> USE DEF IsNext
<1> DEFINE m == u.mem
           d == u.disk
           n == u.made
<1>1. u.mem = m /\ u.disk = d /\ u.log = Append(w.log, d) /\ u.made = n
  OBVIOUS
<1> HIDE DEF m, d, n
<1> DEFINE L == {w.log[i] : i \in DOMAIN w.log}
<1>2. w.log \in Seq(L) /\ w.made \in Nat
  BY DEF OK, IsLog
<1>3. /\ u.log \in Seq(L \cup {d}) /\ u.log # <<>> /\ u.log[Len(u.log)] = d
      /\ Len(u.log) = Len(w.log) + 1 /\ Len(w.log) \in Nat
      /\ \A i \in 1 .. Len(w.log) : u.log[i] = w.log[i]
      /\ DOMAIN u.log = 1 .. Len(w.log) + 1 /\ DOMAIN w.log = 1 .. Len(w.log)
  <2> HIDE DEF L
  <2>1. w.log \in Seq(L \cup {d}) /\ d \in L \cup {d}
    BY <1>2
  <2>2. Append(w.log, d) \in Seq(L \cup {d})
    BY <2>1
  <2>3. Len(w.log) \in Nat /\ DOMAIN w.log = 1 .. Len(w.log)
    BY <1>2
  <2>4. Len(Append(w.log, d)) = Len(w.log) + 1
    BY <2>1
  <2>5. Append(w.log, d)[Len(w.log) + 1] = d
    BY <2>1
  <2>6. \A i \in 1 .. Len(w.log) : Append(w.log, d)[i] = w.log[i]
    BY <2>1
  <2>7. DOMAIN Append(w.log, d) = 1 .. Len(w.log) + 1
    BY <2>2, <2>4
  <2>8. Append(w.log, d) # <<>>
    <3>1. Len(w.log) + 1 # 0 /\ Len(<<>>) = 0
      BY <2>3
    <3> QED
      BY <2>4, <3>1, Zenon
  <2>9. u.log = Append(w.log, d)
    BY <1>1
  <2>10. Append(w.log, d)[Len(Append(w.log, d))] = d
    BY <2>4, <2>5, Zenon
  <2> QED
    BY <2>2, <2>3, <2>4, <2>6, <2>7, <2>8, <2>9, <2>10, Zenon
<1>4. {u.log[i] : i \in DOMAIN u.log} = L \cup {d}
  <2>1. ASSUME NEW i \in DOMAIN u.log PROVE u.log[i] \in L \cup {d}
    <3>1. CASE i = Len(w.log) + 1
      BY <1>3, <3>1
    <3>2. CASE i # Len(w.log) + 1
      <4>1. i \in 1 .. Len(w.log)
        BY <1>3, <3>2
      <4> QED
        BY <1>3, <4>1
    <3> QED
      BY <3>1, <3>2
  <2>2. ASSUME NEW c \in L PROVE c \in {u.log[i] : i \in DOMAIN u.log}
    <3>1. PICK i \in DOMAIN w.log : c = w.log[i]
      OBVIOUS
    <3>2. i \in DOMAIN u.log /\ u.log[i] = c
      BY <1>3, <3>1
    <3> QED
      BY <3>2
  <2>3. Len(u.log) \in DOMAIN u.log
    BY <1>3
  <2>4. d \in {u.log[i] : i \in DOMAIN u.log}
    BY <1>3, <2>3
  <2> HIDE DEF L
  <2> QED
    BY <2>1, <2>2, <2>4
<1>5. IsLog(u.log, u.disk)
  BY <1>1, <1>3, <1>4 DEF IsLog
<1>6. Disks(u) = L \cup {d} /\ L \subseteq Disks(w)
  BY <1>1, <1>4 DEF Disks
<1>7. ASSUME NEW c, IsDisk(c, w.made) PROVE IsDisk(c, u.made)
  <2>1. 1 .. w.made \subseteq 1 .. u.made
    BY <1>2
  <2> QED
    BY <1>7, <2>1 DEF IsDisk
<1>8. \A c \in Disks(u) : IsDisk(c, u.made) /\ c.txs \subseteq u.disk.txs
  BY <1>1, <1>6, <1>7 DEF OK
<1>9. OK(u)
  BY <1>5, <1>8 DEF OK
<1>10. \A c \in Disks(u) : c \in Disks(v) \/ More(v.disk, c, v.made)
  BY <1>1, <1>6 DEF Reach
<1>11. v.made <= u.made
  BY <1>2 DEF Reach, OK
<1>12. u.mem.useCrypto = v.mem.useCrypto
  BY DEF Reach
<1>13. Reach(v, u, X)
  <2> HIDE DEF More, Disks
  <2> QED
    BY <1>1, <1>3, <1>10, <1>11, <1>12 DEF Reach
<1> QED
  BY <1>9, <1>13

(* What is there to show of an operation on the memory alone *)
LEMMA Changed ==
    ASSUME NEW w, NEW u, NEW X, OK(w),
           IsRecord(u), u.disk = w.disk, u.log = w.log, u.made = w.made,
           IsMemory(u.mem, u.made), Agree(u.mem, u.disk),
           u.mem.txs = w.mem.txs, u.mem.useCrypto = w.mem.useCrypto
    PROVE  OK(u) /\ Reach(w, u, X)
<1>1. Disks(u) = Disks(w)
  BY DEF Disks
<1>2. OK(u)
  BY <1>1 DEF OK
<1>3. More(w.disk, w.disk, w.made)
  BY DEF More
<1>4. Reach(w, u, X)
  BY <1>1, <1>3 DEF Reach, OK
<1> QED
  BY <1>2, <1>4

----------------------------------------------------------------------------
(* The key pool *)

(* Every nonempty set of natural numbers has a least element. *)
LEMMA LeastElement ==
    ASSUME NEW T, T \subseteq Nat, T # {}
    PROVE  \E x \in T : \A y \in T : x <= y
<1>1. IsWellFoundedOn(OpToRel(<, Nat), Nat)
  BY NatLessThanWellFounded
<1>2. PICK x \in T : \A y \in T : ~(<<y, x>> \in OpToRel(<, Nat))
  BY <1>1, WFMin
<1>3. ASSUME NEW y \in T PROVE x <= y
  <2>1. ~(y < x)
    BY <1>2 DEF OpToRel
  <2> QED
    BY <2>1
<1> QED
  BY <1>3

(* A finite set of numbers has a largest and a smallest element. *)
LEMMA Bounds ==
    ASSUME NEW n \in Nat, NEW S \in SUBSET (1 .. n), S # {}
    PROVE  /\ Max(S) \in S /\ \A x \in S : x <= Max(S)
           /\ Min(S) \in S /\ \A x \in S : Min(S) <= x
<1>1. \E x \in S : \A y \in S : x <= y
  <2>1. S \subseteq Nat
    OBVIOUS
  <2> QED
    BY <2>1, LeastElement
<1>2. \E x \in S : \A y \in S : x >= y
  <2> DEFINE R == {n - x : x \in S}
  <2>1. R \subseteq Nat /\ R # {}
    <3>1. ASSUME NEW x \in S PROVE n - x \in Nat
      OBVIOUS
    <3>2. PICK x \in S : TRUE
      OBVIOUS
    <3> QED
      BY <3>1, <3>2
  <2>2. PICK z \in R : \A y \in R : z <= y
    <3> HIDE DEF R
    <3> QED
      BY <2>1, LeastElement
  <2>3. PICK x \in S : z = n - x
    BY <2>2
  <2>4. ASSUME NEW y \in S PROVE x >= y
    <3>1. n - y \in R
      OBVIOUS
    <3>2. n - x <= n - y
      BY <2>2, <2>3, <3>1
    <3> QED
      BY <3>2
  <2> QED
    BY <2>4
<1>3. Max(S) \in S /\ \A x \in S : Max(S) >= x
  BY <1>2 DEF Max
<1>4. Min(S) \in S /\ \A x \in S : Min(S) <= x
  BY <1>1 DEF Min
<1>5. \A x \in S : x \in Int
  OBVIOUS
<1> QED
  BY <1>3, <1>4, <1>5

(* generateNewKey makes one key more, and leaves the pool alone. *)
LEMMA Generated ==
    ASSUME NEW w, OK(w), NEW X
    PROVE  LET g == GenerateNewKey(w) IN
           /\ OK(g) /\ Reach(w, g, X)
           /\ g.made = w.made + 1
           /\ g.mem.pool = w.mem.pool /\ g.disk.pool = w.disk.pool
<1> DEFINE k == w.made + 1
           g == GenerateNewKey(w)
           kd == IF w.mem.useCrypto THEN "crypted" ELSE "fresh"
           m == [txs |-> w.mem.txs, spent |-> w.mem.spent, placed |-> w.mem.placed,
                 pool |-> w.mem.pool, defaultKey |-> w.mem.defaultKey,
                 kind |-> [w.mem.kind EXCEPT ![k] = kd], useCrypto |-> w.mem.useCrypto]
           d == [txs |-> w.disk.txs, spent |-> w.disk.spent, placed |-> w.disk.placed,
                 pool |-> w.disk.pool, defaultKey |-> w.disk.defaultKey,
                 plain |-> IF w.mem.useCrypto THEN w.disk.plain ELSE w.disk.plain \cup {k},
                 crypted |-> IF w.mem.useCrypto THEN w.disk.crypted \cup {k} ELSE w.disk.crypted,
                 twisted |-> w.disk.twisted]
<1>1. /\ IsRecord(w)
      /\ w.made \in Nat /\ k \in Nat /\ k >= w.made
      /\ IsMemory(w.mem, w.made) /\ IsDisk(w.disk, w.made) /\ Agree(w.mem, w.disk)
  BY DEF OK, Disks
<1>2. g = [mem |-> m, disk |-> d, log |-> Append(w.log, d), made |-> k]
  <2>1. /\ w.mem = [txs |-> w.mem.txs, spent |-> w.mem.spent, placed |-> w.mem.placed,
                    pool |-> w.mem.pool, defaultKey |-> w.mem.defaultKey,
                    kind |-> w.mem.kind, useCrypto |-> w.mem.useCrypto]
        /\ w.disk = [txs |-> w.disk.txs, spent |-> w.disk.spent, placed |-> w.disk.placed,
                     pool |-> w.disk.pool, defaultKey |-> w.disk.defaultKey,
                     plain |-> w.disk.plain, crypted |-> w.disk.crypted,
                     twisted |-> w.disk.twisted]
    BY <1>1 DEF IsMemory, IsMemoryRecord, IsDisk, IsDiskRecord
  <2>2. [w.mem EXCEPT !.kind[k] = kd] = m
    BY <2>1
  <2>3. CASE w.mem.useCrypto
    <3>1. [w.disk EXCEPT !.crypted = @ \cup {k}] = d
      <4> DEFINE x == w.disk.crypted \cup {k}
                 e == [txs |-> w.disk.txs, spent |-> w.disk.spent, placed |-> w.disk.placed,
                       pool |-> w.disk.pool, defaultKey |-> w.disk.defaultKey,
                       plain |-> w.disk.plain, crypted |-> x, twisted |-> w.disk.twisted]
      <4>1. d = e
        BY <2>3
      <4> HIDE DEF x, d
      <4>2. [w.disk EXCEPT !.crypted = x] = e
        BY <1>1, DiskIs DEF IsDisk
      <4> HIDE DEF e
      <4> QED
        BY <4>1, <4>2, Zenon DEF x
    <3>2. [w EXCEPT !.mem = [@ EXCEPT !.kind[k] = "crypted"], !.made = k]
              = [mem |-> m, disk |-> w.disk, log |-> w.log, made |-> k]
      <4>1. kd = "crypted"
        BY <2>3
      <4> HIDE DEF m, kd, k
      <4>2. [w.mem EXCEPT !.kind[k] = "crypted"] = m
        BY <2>2, <4>1, Zenon
      <4> QED
        BY <1>1, <4>2, MemoryIs
    <3> HIDE DEF m, d
    <3>3. g = Write([mem |-> m, disk |-> w.disk, log |-> w.log, made |-> k], d)
      BY <2>3, <3>1, <3>2 DEF GenerateNewKey
    <3> HIDE DEF k, g
    <3> QED
      BY <3>3, WriteOn
  <2>4. CASE ~w.mem.useCrypto
    <3>1. [w.disk EXCEPT !.plain = @ \cup {k}] = d
      <4> DEFINE x == w.disk.plain \cup {k}
                 e == [txs |-> w.disk.txs, spent |-> w.disk.spent, placed |-> w.disk.placed,
                       pool |-> w.disk.pool, defaultKey |-> w.disk.defaultKey,
                       plain |-> x, crypted |-> w.disk.crypted, twisted |-> w.disk.twisted]
      <4>1. d = e
        BY <2>4
      <4> HIDE DEF x, d
      <4>2. [w.disk EXCEPT !.plain = x] = e
        BY <1>1, DiskIs DEF IsDisk
      <4> HIDE DEF e
      <4> QED
        BY <4>1, <4>2, Zenon DEF x
    <3>2. [w EXCEPT !.mem = [@ EXCEPT !.kind[k] = "fresh"], !.made = k]
              = [mem |-> m, disk |-> w.disk, log |-> w.log, made |-> k]
      <4>1. kd = "fresh"
        BY <2>4
      <4> HIDE DEF m, kd, k
      <4>2. [w.mem EXCEPT !.kind[k] = "fresh"] = m
        BY <2>2, <4>1, Zenon
      <4> QED
        BY <1>1, <4>2, MemoryIs
    <3> HIDE DEF m, d
    <3>3. g = Write([mem |-> m, disk |-> w.disk, log |-> w.log, made |-> k], d)
      BY <2>4, <3>1, <3>2 DEF GenerateNewKey
    <3> HIDE DEF k, g
    <3> QED
      BY <3>3, WriteOn
  <2> QED
    BY <2>3, <2>4
<1>3. IsMemory(m, k)
  <2>1. kd \in Kinds
    BY DEF Kinds
  <2>2. [w.mem.kind EXCEPT ![k] = kd] \in [Keys -> Kinds]
    BY <1>1, <2>1 DEF IsMemory
  <2> QED
    BY <1>1, <2>2 DEF IsMemory, IsMemoryRecord
<1>4. IsDisk(d, k)
  BY <1>1 DEF IsDisk, IsDiskRecord
<1>5. Agree(m, d)
  BY <1>1 DEF Agree
<1>6. More(w.disk, d, w.made)
  BY DEF More, Listed
<1>7. m.txs \subseteq w.mem.txs \cup X /\ m.useCrypto = w.mem.useCrypto
  OBVIOUS
<1>8. g.made = k /\ g.mem = m /\ g.disk = d /\ g.log = Append(w.log, d) /\ IsRecord(g)
  <2> HIDE DEF m, d, g, k
  <2> QED
    BY <1>2 DEF IsRecord
<1>9. OK(g) /\ Reach(w, g, X)
  <2> HIDE DEF m, d, g, k
  <2>1. Reach(w, w, X)
    BY ReachSelf
  <2>2. IsNext(w, w, g, X)
    BY <1>1, <1>3, <1>4, <1>5, <1>6, <1>7, <1>8 DEF IsNext, More
  <2> QED
    BY <2>1, <2>2, Written
<1>10. g.made = w.made + 1 /\ g.mem.pool = w.mem.pool /\ g.disk.pool = w.disk.pool
  <2>1. m.pool = w.mem.pool /\ d.pool = w.disk.pool
    OBVIOUS
  <2> QED
    BY <1>8, <2>1, Zenon
<1> QED
  BY <1>9, <1>10

(* A new pool in memory *)
LEMMA PoolIs ==
    ASSUME NEW w, NEW n, OK(w), NEW S
    PROVE  LET m == [txs |-> w.mem.txs, spent |-> w.mem.spent, placed |-> w.mem.placed,
                     pool |-> S, defaultKey |-> w.mem.defaultKey,
                     kind |-> w.mem.kind, useCrypto |-> w.mem.useCrypto]
           IN  /\ [w EXCEPT !.mem.pool = S]
                    = [mem |-> m, disk |-> w.disk, log |-> w.log, made |-> w.made]
               /\ S \subseteq 1 .. w.made => IsMemory(m, w.made)
<1> DEFINE m == [txs |-> w.mem.txs, spent |-> w.mem.spent, placed |-> w.mem.placed,
                 pool |-> S, defaultKey |-> w.mem.defaultKey,
                 kind |-> w.mem.kind, useCrypto |-> w.mem.useCrypto]
<1>1. IsRecord(w) /\ IsMemory(w.mem, w.made)
  BY DEF OK
<1>2. [w.mem EXCEPT !.pool = S] = m
  BY <1>1 DEF IsMemory, IsMemoryRecord
<1>3. [w EXCEPT !.mem = m] = [mem |-> m, disk |-> w.disk, log |-> w.log, made |-> w.made]
  <2> HIDE DEF m
  <2> QED
    BY <1>1, MemoryIs
<1>4. [w EXCEPT !.mem.pool = S] = [w EXCEPT !.mem = m]
  <2> HIDE DEF m
  <2> QED
    BY <1>2
<1>5. S \subseteq 1 .. w.made => IsMemory(m, w.made)
  BY <1>1 DEF IsMemory, IsMemoryRecord
<1> QED
  BY <1>3, <1>4, <1>5

(* A key is added to the pool at the index above all that it has; what is   *)
(* reserved has an index below and is not written over.                     *)
LEMMA PoolKeyAdded ==
    ASSUME NEW w, OK(w), NEW X
    PROVE  LET u == AddPoolKey(w) IN
           /\ OK(u) /\ Reach(w, u, X) /\ Keeps(w, u)
           /\ \E i \in Nat : i \notin w.mem.pool /\ u.mem.pool = w.mem.pool \cup {i}
<1> DEFINE nEnd == IF w.mem.pool = {} THEN 1 ELSE Max(w.mem.pool) + 1
           g == GenerateNewKey(w)
           n == g.made
           f == [j \in DOMAIN g.disk.pool \cup {nEnd} |-> IF j = nEnd THEN n ELSE g.disk.pool[j]]
           m == [txs |-> g.mem.txs, spent |-> g.mem.spent, placed |-> g.mem.placed,
                 pool |-> g.mem.pool \cup {nEnd}, defaultKey |-> g.mem.defaultKey,
                 kind |-> g.mem.kind, useCrypto |-> g.mem.useCrypto]
           d == [txs |-> g.disk.txs, spent |-> g.disk.spent, placed |-> g.disk.placed, pool |-> f,
                 defaultKey |-> g.disk.defaultKey, plain |-> g.disk.plain,
                 crypted |-> g.disk.crypted, twisted |-> g.disk.twisted]
           u == AddPoolKey(w)
<1>1. /\ OK(g) /\ Reach(w, g, X) /\ n = w.made + 1 /\ w.made \in Nat /\ n \in Nat
      /\ g.mem.pool = w.mem.pool /\ g.disk.pool = w.disk.pool
  BY Generated DEF OK
<1>2. /\ w.mem.pool \subseteq 1 .. w.made
      /\ DOMAIN w.disk.pool \subseteq 1 .. w.made
      /\ w.mem.pool \subseteq DOMAIN w.disk.pool
      /\ \A i \in DOMAIN w.disk.pool : w.disk.pool[i] \in 1 .. w.made
      /\ \A i, j \in DOMAIN w.disk.pool : i # j => w.disk.pool[i] # w.disk.pool[j]
  BY DEF OK, IsMemory, IsDisk, Agree, Disks
<1>3. nEnd \in 1 .. n /\ \A x \in w.mem.pool : x < nEnd
  <2> HIDE DEF g
  <2>1. CASE w.mem.pool = {}
    BY <1>1, <2>1
  <2>2. CASE w.mem.pool # {}
    <3>1. Max(w.mem.pool) \in w.mem.pool /\ \A x \in w.mem.pool : x <= Max(w.mem.pool)
      BY <1>1, <1>2, <2>2, Bounds
    <3>2. Max(w.mem.pool) \in 1 .. w.made
      BY <1>2, <3>1
    <3>3. nEnd = Max(w.mem.pool) + 1
      BY <2>2
    <3> HIDE DEF nEnd
    <3>4. ASSUME NEW x \in w.mem.pool PROVE x < nEnd
      <4>1. x \in 1 .. w.made /\ x <= Max(w.mem.pool)
        BY <1>2, <3>1
      <4> QED
        BY <3>2, <3>3, <4>1
    <3> QED
      BY <1>1, <3>2, <3>3, <3>4
  <2> QED
    BY <2>1, <2>2
<1> HIDE DEF nEnd
<1>4. /\ DOMAIN f = DOMAIN w.disk.pool \cup {nEnd}
      /\ f[nEnd] = n
      /\ \A j \in DOMAIN w.disk.pool : j # nEnd => f[j] = w.disk.pool[j]
  BY <1>1
<1>5. u = [mem |-> m, disk |-> d, log |-> Append(g.log, d), made |-> n]
  <2>1. IsDisk(g.disk, n)
    BY <1>1 DEF OK, Disks
  <2>2. [g EXCEPT !.mem.pool = @ \cup {nEnd}]
            = [mem |-> m, disk |-> g.disk, log |-> g.log, made |-> n]
    <3> HIDE DEF g
    <3> QED
      BY <1>1, PoolIs
  <2>3. [g.disk EXCEPT !.pool = f] = d
    <3> HIDE DEF g, f
    <3> QED
      BY <2>1, DiskIs DEF IsDisk
  <2>4. u = WritePool([g EXCEPT !.mem.pool = @ \cup {nEnd}], nEnd, n)
    BY DEF AddPoolKey, nEnd
  <2> DEFINE v == [mem |-> m, disk |-> g.disk, log |-> g.log, made |-> n]
  <2>5. v.disk = g.disk
    OBVIOUS
  <2>6. u = WritePool(v, nEnd, n)
    BY <2>2, <2>4
  <2>7. u = Write(v, d)
    <3> HIDE DEF g, m, d, v, u, n
    <3> QED
      BY <2>3, <2>5, <2>6 DEF WritePool
  <2> HIDE DEF g, m, d, u, n
  <2> QED
    BY <2>7, WriteOn
<1>6. IsMemory(m, n)
  <2>1. g.mem.pool \cup {nEnd} \subseteq 1 .. g.made
    BY <1>1, <1>2, <1>3
  <2> HIDE DEF g
  <2> QED
    BY <1>1, <2>1, PoolIs
<1>7. /\ DOMAIN f \subseteq 1 .. n
      /\ \A i \in DOMAIN f : f[i] \in 1 .. n
      /\ \A i, j \in DOMAIN f : i # j => f[i] # f[j]
  <2> HIDE DEF g, f, n
  <2>1. DOMAIN f \subseteq 1 .. n
    BY <1>1, <1>2, <1>3, <1>4
  <2>2. ASSUME NEW i \in DOMAIN f, i # nEnd PROVE f[i] \in 1 .. w.made /\ f[i] # n
    BY <1>1, <1>2, <1>4, <2>2
  <2>3. \A i \in DOMAIN f : f[i] \in 1 .. n
    BY <1>1, <1>4, <2>2
  <2>4. ASSUME NEW i \in DOMAIN f, NEW j \in DOMAIN f, i # j PROVE f[i] # f[j]
    <3>1. CASE i = nEnd
      BY <1>4, <2>2, <2>4, <3>1
    <3>2. CASE j = nEnd
      BY <1>4, <2>2, <2>4, <3>2
    <3>3. CASE i # nEnd /\ j # nEnd
      BY <1>2, <1>4, <2>4, <3>3
    <3> QED
      BY <3>1, <3>2, <3>3
  <2> QED
    BY <2>1, <2>3, <2>4
<1>8. IsDisk(d, n)
  <2>1. IsDisk(g.disk, n)
    BY <1>1 DEF OK, Disks
  <2> HIDE DEF g, f, n
  <2> QED
    BY <1>7, <2>1 DEF IsDisk, IsDiskRecord
<1>9. Agree(m, d)
  <2>1. Agree(g.mem, g.disk)
    BY <1>1 DEF OK
  <2>2. g.mem.pool \cup {nEnd} \subseteq DOMAIN f
    <3> HIDE DEF g, f
    <3> QED
      BY <1>1, <1>2, <1>4
  <2> HIDE DEF g, f
  <2> QED
    BY <2>1, <2>2 DEF Agree
<1>10. /\ d.txs = g.disk.txs /\ d.spent = g.disk.spent /\ d.pool = f
       /\ m.pool = w.mem.pool \cup {nEnd} /\ m.txs = g.mem.txs /\ m.useCrypto = g.mem.useCrypto
  BY <1>1
<1>11. More(w.disk, d, w.made)
  <2> HIDE DEF g, m, d, f, n
  <2>1. w.disk.txs \subseteq d.txs /\ w.disk.spent \subseteq d.spent
    BY <1>1, <1>10 DEF Reach, More
  <2>2. ASSUME NEW k \in 1 .. w.made, k \in Listed(d) PROVE k \in Listed(w.disk)
    <3>1. PICK j \in DOMAIN f : k = f[j]
      BY <1>10, <2>2 DEF Listed
    <3>2. j # nEnd
      BY <1>1, <1>4, <3>1
    <3> QED
      BY <1>4, <3>1, <3>2 DEF Listed
  <2> QED
    BY <2>1, <2>2 DEF More
<1>12. m.txs \subseteq w.mem.txs \cup X
  <2> HIDE DEF g, m, d
  <2> QED
    BY <1>1, <1>10 DEF Reach
<1>13. u.mem = m /\ u.disk = d /\ u.made = n /\ u.log = Append(g.log, d) /\ IsRecord(u)
  <2> HIDE DEF g, m, d, f, u, n
  <2> QED
    BY <1>5 DEF IsRecord
<1>14. OK(u) /\ Reach(w, u, X)
  <2> HIDE DEF g, m, d, f, u
  <2>1. n \in Nat /\ n >= g.made
    BY <1>1
  <2> HIDE DEF n
  <2>2. IsNext(w, g, u, X)
    BY <1>1, <1>6, <1>8, <1>9, <1>10, <1>11, <1>12, <1>13, <2>1 DEF IsNext
  <2> QED
    BY <1>1, <2>2, Written
<1>15. nEnd \in Nat /\ nEnd \notin w.mem.pool /\ u.mem.pool = w.mem.pool \cup {nEnd}
  <2>1. u.mem.pool = w.mem.pool \cup {nEnd}
    <3> HIDE DEF g, m, d, f, u
    <3> QED
      BY <1>10, <1>13
  <2>2. nEnd \in Nat /\ nEnd \notin w.mem.pool
    <3> HIDE DEF g, m, d, f, u, n
    <3> QED
      BY <1>1, <1>2, <1>3
  <2> QED
    BY <2>1, <2>2
<1>16. ASSUME NEW r \in Nat, NEW k \in Nat, Reserved(w, r, k), r # NoKey PROVE Reserved(u, r, k)
  <2>1. /\ r \in DOMAIN w.disk.pool /\ w.disk.pool[r] = k
        /\ r \notin w.mem.pool
    BY <1>16 DEF Reserved
  <2>2. PICK j \in w.mem.pool : r < j
    BY <1>16 DEF Reserved
  <2> HIDE DEF g, m, d, f, u, n
  <2>3. r # nEnd
    BY <1>1, <1>2, <1>3, <2>2
  <2>4. u.disk.pool = f
    BY <1>10, <1>13
  <2> QED
    BY <1>4, <1>15, <2>1, <2>2, <2>3, <2>4 DEF Reserved
<1>17. Keeps(w, u)
  <2> HIDE DEF u
  <2> QED
    BY <1>16 DEF Keeps, Reserved
<1> HIDE DEF u
<1> QED
  BY <1>14, <1>15, <1>17 DEF u

(* What ToppedUp computes *)
LEMMA ToppedUpDef ==
    ASSUME NEW w
    PROVE  LET t == ToppedUp(w) IN
           t[0] = w /\ \A j \in 1 .. TargetSize + 1 : t[j] = TopUpTo(t[j - 1], j)
<1> DEFINE D == 0 .. TargetSize + 1
           Step(f, i) == IF i = 0 THEN w ELSE TopUpTo(f[i - 1], i)
           Defined(n) == \E f : f = [i \in 0 .. n |-> Step(f, i)]
<1>1. ASSUME NEW n \in Nat, n > 0 => Defined(n - 1)
      PROVE  Defined(n)
  <2>1. CASE n = 0
    <3> DEFINE f == [i \in 0 .. n |-> w]
    <3>1. f = [i \in 0 .. n |-> Step(f, i)]
      BY <2>1
    <3> QED
      BY <3>1
  <2>2. CASE n > 0
    <3>1. PICK f : f = [i \in 0 .. n - 1 |-> Step(f, i)]
      BY <1>1, <2>2
    <3> DEFINE g == [i \in 0 .. n |-> Step(f, i)]
    <3>2. ASSUME NEW i \in 0 .. n, i # 0
          PROVE  g[i - 1] = f[i - 1]
      <4>1. i - 1 \in 0 .. n - 1 /\ i - 1 \in 0 .. n
        BY <3>2
      <4> QED
        BY <3>1, <4>1
    <3>3. g = [i \in 0 .. n |-> Step(g, i)]
      BY <3>2
    <3> QED
      BY <3>3
  <2> HIDE DEF Defined
  <2> QED
    BY <2>1, <2>2
<1>2. \A n \in Nat : Defined(n)
  <2> DEFINE T == {n \in Nat : ~Defined(n)}
  <2> HIDE DEF Defined
  <2>1. SUFFICES ASSUME T # {} PROVE FALSE
    OBVIOUS
  <2>2. PICK n \in T : \A k \in T : n <= k
    BY <2>1, LeastElement
  <2>3. n > 0 => Defined(n - 1)
    BY <2>2
  <2> QED
    BY <1>1, <2>2, <2>3
<1>3. \E f : f = [i \in D |-> Step(f, i)]
  <2>1. TargetSize + 1 \in Nat
    BY WalletAssumption
  <2>2. Defined(TargetSize + 1)
    BY <1>2, <2>1
  <2> QED
    BY <2>2
<1>4. ToppedUp(w) = [i \in D |-> Step(ToppedUp(w), i)]
  BY <1>3 DEF ToppedUp
<1> DEFINE t == ToppedUp(w)
<1>5. ASSUME NEW i \in D PROVE t[i] = Step(t, i)
  BY <1>4
<1> HIDE DEF t
<1>6. t[0] = w
  <2>1. 0 \in D
    BY WalletAssumption
  <2> QED
    BY <1>5, <2>1
<1>7. ASSUME NEW j \in 1 .. TargetSize + 1 PROVE t[j] = TopUpTo(t[j - 1], j)
  <2>1. j \in D /\ j # 0
    BY WalletAssumption
  <2> QED
    BY <1>5, <2>1
<1> QED
  BY <1>6, <1>7 DEF t

(* A pool is finite. *)
LEMMA PoolIsFinite ==
    ASSUME NEW w, OK(w)
    PROVE  IsFiniteSet(w.mem.pool) /\ Cardinality(w.mem.pool) \in Nat
<1>1. w.mem.pool \subseteq 1 .. w.made /\ w.made \in Nat
  BY DEF OK, IsMemory
<1>2. IsFiniteSet(1 .. w.made)
  BY <1>1, FS_Interval
<1>3. IsFiniteSet(w.mem.pool)
  BY <1>1, <1>2, FS_Subset
<1> QED
  BY <1>3, FS_CardinalityType

(* One pass of the loop: the pool is not smaller than the pass asks for. *)
LEMMA ToppedUpTo ==
    ASSUME NEW w, OK(w), NEW X, NEW n \in Nat, n > 0,
           ~IsLocked => Cardinality(w.mem.pool) >= n - 1
    PROVE  LET u == TopUpTo(w, n) IN
           /\ OK(u) /\ Reach(w, u, X) /\ Keeps(w, u)
           /\ ~IsLocked => Cardinality(u.mem.pool) >= n
<1> DEFINE u == TopUpTo(w, n)
           a == AddPoolKey(w)
<1>1. IsFiniteSet(w.mem.pool) /\ Cardinality(w.mem.pool) \in Nat
  BY PoolIsFinite
<1>2. CASE Lacks(w, n)
  <2>1. u = a
    BY <1>2 DEF TopUpTo
  <2>2. OK(a) /\ Reach(w, a, X) /\ Keeps(w, a)
    BY PoolKeyAdded
  <2>3. PICK i \in Nat : i \notin w.mem.pool /\ a.mem.pool = w.mem.pool \cup {i}
    BY PoolKeyAdded
  <2>4. Cardinality(a.mem.pool) = Cardinality(w.mem.pool) + 1
    BY <1>1, <2>3, FS_AddElement
  <2>5. ~IsLocked => Cardinality(a.mem.pool) >= n
    <3> HIDE DEF a
    <3> QED
      BY <1>1, <2>4
  <2> HIDE DEF a, u
  <2> QED
    BY <2>1, <2>2, <2>5 DEF u
<1>3. CASE ~Lacks(w, n)
  <2>1. u = w
    BY <1>3 DEF TopUpTo
  <2>2. Reach(w, w, X) /\ Keeps(w, w)
    BY ReachSelf DEF Keeps
  <2>3. ~IsLocked => Cardinality(w.mem.pool) >= n
    BY <1>1, <1>3 DEF Lacks
  <2> HIDE DEF u
  <2> QED
    BY <2>1, <2>2, <2>3 DEF u
<1> QED
  BY <1>2, <1>3

(* TopUpKeyPool: unless the wallet is locked the pool has two keys at       *)
(* least, the target being positive.                                        *)
LEMMA PoolToppedUp ==
    ASSUME NEW w, OK(w), NEW X
    PROVE  LET u == TopUpKeyPool(w) IN
           /\ OK(u) /\ Reach(w, u, X) /\ Keeps(w, u)
           /\ ~IsLocked => \A i : \E j \in u.mem.pool : j # i
<1> DEFINE t == ToppedUp(w)
           K == TargetSize + 1
           Good(n) == /\ OK(t[n]) /\ Reach(w, t[n], X) /\ Keeps(w, t[n])
                      /\ ~IsLocked => Cardinality(t[n].mem.pool) >= n
<1>1. t[0] = w /\ \A j \in 1 .. K : t[j] = TopUpTo(t[j - 1], j)
  BY ToppedUpDef
<1>2. K \in Nat /\ K >= 2
  BY WalletAssumption
<1> HIDE DEF t, K
<1>3. Good(0)
  <2>1. Cardinality(w.mem.pool) \in Nat
    BY PoolIsFinite
  <2>2. Reach(w, w, X) /\ Keeps(w, w)
    BY ReachSelf DEF Keeps
  <2> QED
    BY <1>1, <2>1, <2>2
<1>4. ASSUME NEW n \in 1 .. K, Good(n - 1) PROVE Good(n)
  <2> DEFINE v == t[n - 1]
             u == t[n]
  <2>1. u = TopUpTo(v, n) /\ n \in Nat /\ n > 0
    BY <1>1
  <2>2. /\ OK(v) /\ Reach(w, v, X) /\ Keeps(w, v)
        /\ ~IsLocked => Cardinality(v.mem.pool) >= n - 1
    BY <1>4
  <2> HIDE DEF v, u
  <2>3. /\ OK(u) /\ Reach(v, u, X) /\ Keeps(v, u)
        /\ ~IsLocked => Cardinality(u.mem.pool) >= n
    BY <2>1, <2>2, ToppedUpTo
  <2>4. Reach(w, u, X)
    BY <2>2, <2>3, ReachOn DEF OK
  <2>5. Keeps(w, u)
    BY <2>2, <2>3, KeepsOn
  <2> QED
    BY <2>3, <2>4, <2>5 DEF u
<1>5. \A n \in 0 .. K : Good(n)
  <2> DEFINE T == {n \in 0 .. K : ~Good(n)}
  <2> HIDE DEF Good
  <2>1. SUFFICES ASSUME T # {} PROVE FALSE
    OBVIOUS
  <2>2. T \subseteq Nat
    BY <1>2
  <2>3. PICK n \in T : \A k \in T : n <= k
    <3> HIDE DEF T
    <3> QED
      BY <2>1, <2>2, LeastElement
  <2>4. n # 0
    BY <1>3, <2>3
  <2>5. n \in 1 .. K /\ n - 1 \in 0 .. K
    BY <1>2, <2>3, <2>4
  <2>6. n - 1 \notin T
    BY <1>2, <2>3
  <2>7. Good(n - 1)
    BY <2>5, <2>6
  <2> QED
    BY <1>4, <2>3, <2>5, <2>7
<1> DEFINE u == t[K]
<1>6. Good(K)
  BY <1>2, <1>5
<1>7. /\ OK(u) /\ Reach(w, u, X) /\ Keeps(w, u)
      /\ ~IsLocked => Cardinality(u.mem.pool) >= 2
  <2>1. ~IsLocked => Cardinality(u.mem.pool) >= K
    BY <1>6
  <2>2. OK(u)
    BY <1>6
  <2>3. Cardinality(u.mem.pool) \in Nat
    BY <2>2, PoolIsFinite
  <2>4. ~IsLocked => Cardinality(u.mem.pool) >= 2
    <3> HIDE DEF u
    <3> QED
      BY <1>2, <2>1, <2>3
  <2> QED
    BY <1>6, <2>4
<1> HIDE DEF u
<1>8. ASSUME ~IsLocked, NEW i PROVE \E j \in u.mem.pool : j # i
  <2>1. SUFFICES ASSUME \A j \in u.mem.pool : j = i PROVE FALSE
    OBVIOUS
  <2>2. u.mem.pool \subseteq {i}
    BY <2>1
  <2>3. IsFiniteSet({i}) /\ Cardinality({i}) = 1
    BY FS_Singleton
  <2>4. Cardinality(u.mem.pool) <= 1 /\ Cardinality(u.mem.pool) \in Nat
    BY <2>2, <2>3, FS_Subset, FS_CardinalityType
  <2> QED
    BY <1>7, <1>8, <2>4
<1>9. u = TopUpKeyPool(w)
  BY DEF u, t, K, TopUpKeyPool
<1> QED
  BY <1>7, <1>8, <1>9

(* ReserveKeyFromKeyPool, after the top-up: the index that is taken has its *)
(* record, and if the wallet is not locked one above it stays in the pool.  *)
LEMMA ReservedFrom ==
    ASSUME NEW t, OK(t), NEW X, ~IsLocked => \A i : \E j \in t.mem.pool : j # i
    PROVE  LET r == ReserveFrom(t) IN
           /\ r = [w |-> r.w, index |-> r.index, key |-> r.key, throws |-> r.throws]
           /\ OK(r.w) /\ Reach(t, r.w, X) /\ (~IsLocked => Keeps(t, r.w))
           /\ r.index \in 0 .. r.w.made /\ r.key \in 0 .. r.w.made
           /\ r.index = NoKey => r.key = NoKey
           /\ r.index # NoKey => /\ r.index \in DOMAIN r.w.disk.pool
                                 /\ r.w.disk.pool[r.index] = r.key
                                 /\ r.index \in t.mem.pool /\ r.index \notin r.w.mem.pool
           /\ ~IsLocked => Reserved(r.w, r.index, r.key)
<1> DEFINE r == ReserveFrom(t)
           i == IF t.mem.pool = {} THEN NoKey ELSE Min(t.mem.pool)
           k == IF i = NoKey THEN NoKey ELSE t.disk.pool[i]
           u == [t EXCEPT !.mem.pool = @ \ {i}]
           S == t.mem.pool \ {i}
           m == [txs |-> t.mem.txs, spent |-> t.mem.spent, placed |-> t.mem.placed,
                 pool |-> S, defaultKey |-> t.mem.defaultKey,
                 kind |-> t.mem.kind, useCrypto |-> t.mem.useCrypto]
<1>1. r.w = u /\ r.index = i /\ r.key = k
      /\ r = [w |-> r.w, index |-> r.index, key |-> r.key, throws |-> r.throws]
  BY DEF ReserveFrom
<1>2. /\ t.made \in Nat /\ t.mem.pool \subseteq 1 .. t.made
      /\ t.mem.pool \subseteq DOMAIN t.disk.pool
      /\ DOMAIN t.disk.pool \subseteq 1 .. t.made
      /\ \A j \in DOMAIN t.disk.pool : t.disk.pool[j] \in 1 .. t.made
      /\ IsMemory(t.mem, t.made) /\ Agree(t.mem, t.disk)
  BY DEF OK, IsMemory, IsDisk, Agree, Disks
<1>3. /\ t.mem.pool = {} => i = NoKey
      /\ t.mem.pool # {} => i \in t.mem.pool /\ \A x \in t.mem.pool : i <= x
  BY <1>2, Bounds
<1>4. i \in 0 .. t.made /\ k \in 0 .. t.made /\ (i = NoKey => k = NoKey)
      /\ (i # NoKey => i \in t.mem.pool /\ k = t.disk.pool[i])
  <2>1. i = NoKey => k = NoKey
    OBVIOUS
  <2>2. i # NoKey => i \in t.mem.pool /\ k = t.disk.pool[i]
    BY <1>3
  <2> HIDE DEF i, k
  <2> QED
    BY <1>2, <2>1, <2>2 DEF NoKey
<1> HIDE DEF i, k
<1>5. u = [mem |-> m, disk |-> t.disk, log |-> t.log, made |-> t.made] /\ IsMemory(m, t.made)
  <2>1. S \subseteq 1 .. t.made
    BY <1>2
  <2>2. u = [t EXCEPT !.mem.pool = S]
    OBVIOUS
  <2> HIDE DEF S, u
  <2> QED
    BY <2>1, <2>2, PoolIs
<1>6. /\ u.mem = m /\ u.disk = t.disk /\ u.log = t.log /\ u.made = t.made /\ IsRecord(u)
      /\ m.pool = S /\ m.txs = t.mem.txs /\ m.useCrypto = t.mem.useCrypto
  <2>1. m.pool = S /\ m.txs = t.mem.txs /\ m.useCrypto = t.mem.useCrypto
    OBVIOUS
  <2> HIDE DEF u, m
  <2> QED
    BY <1>5, <2>1 DEF IsRecord
<1>7. Agree(m, t.disk)
  BY <1>2 DEF Agree
<1>8. OK(u) /\ Reach(t, u, X)
  <2> HIDE DEF u, m
  <2> QED
    BY <1>5, <1>6, <1>7, Changed
<1> HIDE DEF u, m
<1>9. ASSUME ~IsLocked, NEW q \in Nat, NEW j \in t.mem.pool, q < j PROVE \E x \in S : q < x
  <2>1. PICK x \in t.mem.pool : x # i
    BY <1>9
  <2>2. CASE j = i
    <3>1. i <= x /\ x \in Nat
      BY <1>2, <1>3, <2>1
    <3>2. q < x
      BY <1>2, <1>4, <1>9, <2>2, <3>1
    <3> QED
      BY <2>1, <3>2
  <2>3. CASE j # i
    BY <1>9, <2>3
  <2> QED
    BY <2>2, <2>3
<1>10. ASSUME ~IsLocked, NEW q \in Nat, NEW p \in Nat, Reserved(t, q, p), q # NoKey
       PROVE  Reserved(u, q, p)
  <2>1. /\ q \in DOMAIN t.disk.pool /\ t.disk.pool[q] = p /\ q \notin t.mem.pool
        /\ \E j \in t.mem.pool : q < j
    BY <1>10 DEF Reserved
  <2>2. \E x \in S : q < x
    BY <1>9, <1>10, <2>1
  <2> QED
    BY <1>6, <2>1, <2>2 DEF Reserved
<1>11. ~IsLocked => Keeps(t, u)
  BY <1>10 DEF Keeps, Reserved
<1>12. ASSUME ~IsLocked, i # NoKey PROVE Reserved(u, i, k)
  <2>1. PICK x \in t.mem.pool : x # i
    BY <1>12
  <2>2. i <= x /\ x \in Nat /\ i \in Nat
    BY <1>2, <1>3, <1>4, <2>1
  <2>3. i < x /\ x \in S
    BY <2>1, <2>2
  <2> QED
    BY <1>2, <1>4, <1>6, <1>12, <2>3 DEF Reserved
<1>13. ~IsLocked => Reserved(u, i, k)
  BY <1>12 DEF Reserved
<1>14. i # NoKey => i \in DOMAIN u.disk.pool /\ u.disk.pool[i] = k
                    /\ i \in t.mem.pool /\ i \notin u.mem.pool
  BY <1>2, <1>4, <1>6
<1> HIDE DEF r
<1>15. i \in 0 .. u.made /\ k \in 0 .. u.made
  BY <1>4, <1>6
<1> QED
  BY <1>1, <1>4, <1>8, <1>11, <1>13, <1>14, <1>15 DEF r

(* The record of a key that is kept leaves the disk, and with it the key. *)
LEMMA KeptKey ==
    ASSUME NEW w, OK(w), NEW X, NEW i \in Nat,
           i # NoKey => i \in DOMAIN w.disk.pool /\ i \notin w.mem.pool
    PROVE  LET u == KeepKey(w, i) IN
           /\ OK(u) /\ Reach(w, u, X) /\ u.made = w.made
           /\ i # NoKey => w.disk.pool[i] \notin Listed(u.disk)
           /\ \A q \in Nat, p \in Nat : q # i /\ Reserved(w, q, p) => Reserved(u, q, p)
           /\ \A k : k \in Listed(u.disk) => k \in Listed(w.disk)
<1> DEFINE u == KeepKey(w, i)
<1>1. CASE i = NoKey
  <2>1. u = w
    BY <1>1 DEF KeepKey
  <2>2. Reach(w, w, X)
    BY ReachSelf
  <2> HIDE DEF u
  <2> QED
    BY <1>1, <2>1, <2>2 DEF u
<1>2. CASE i # NoKey
  <2> DEFINE f == [j \in DOMAIN w.disk.pool \ {i} |-> w.disk.pool[j]]
             d == [txs |-> w.disk.txs, spent |-> w.disk.spent, placed |-> w.disk.placed, pool |-> f,
                   defaultKey |-> w.disk.defaultKey, plain |-> w.disk.plain,
                   crypted |-> w.disk.crypted, twisted |-> w.disk.twisted]
  <2>1. IsDisk(w.disk, w.made) /\ IsRecord(w) /\ IsMemory(w.mem, w.made) /\ Agree(w.mem, w.disk)
        /\ w.made \in Nat
    BY DEF OK, Disks
  <2>2. [w.disk EXCEPT !.pool = f] = d
    <3> HIDE DEF f
    <3> QED
      BY <2>1, DiskIs DEF IsDisk
  <2>3. u = Write(w, d)
    <3>1. u = Write(w, [w.disk EXCEPT !.pool = f])
      BY <1>2 DEF KeepKey
    <3> HIDE DEF d, u, f
    <3> QED
      BY <2>2, <3>1
  <2>4. u = [mem |-> w.mem, disk |-> d, log |-> Append(w.log, d), made |-> w.made]
    <3> HIDE DEF d, u
    <3> QED
      BY <2>1, <2>3, WriteIs
  <2>5. u.mem = w.mem /\ u.disk = d /\ u.log = Append(w.log, u.disk) /\ u.made = w.made /\ IsRecord(u)
    <3> HIDE DEF d, u
    <3> QED
      BY <2>4 DEF IsRecord
  <2>6. DOMAIN f = DOMAIN w.disk.pool \ {i} /\ \A j \in DOMAIN f : f[j] = w.disk.pool[j]
    OBVIOUS
  <2>7. /\ d.pool = f /\ d.txs = w.disk.txs /\ d.spent = w.disk.spent /\ d.placed = w.disk.placed
    OBVIOUS
  <2>8. IsDisk(d, w.made)
    <3> HIDE DEF f
    <3> QED
      BY <2>1, <2>6 DEF IsDisk, IsDiskRecord
  <2> HIDE DEF f, d, u
  <2>9. Agree(w.mem, d)
    BY <1>2, <2>1, <2>6, <2>7 DEF Agree
  <2>10. More(w.disk, d, w.made)
    BY <2>6, <2>7 DEF More, Listed
  <2>11. Reach(w, w, X)
    BY ReachSelf
  <2>12. OK(u) /\ Reach(w, u, X)
    <3>1. IsNext(w, w, u, X)
      BY <2>1, <2>5, <2>8, <2>9, <2>10 DEF IsNext, More
    <3> QED
      BY <2>11, <3>1, Written
  <2>13. w.disk.pool[i] \notin Listed(d)
    BY <1>2, <2>1, <2>6, <2>7 DEF Listed, IsDisk
  <2>14. ASSUME NEW q \in Nat, NEW p \in Nat, q # i, Reserved(w, q, p) PROVE Reserved(u, q, p)
    BY <2>5, <2>6, <2>7, <2>14 DEF Reserved
  <2>15. \A k : k \in Listed(d) => k \in Listed(w.disk)
    BY <2>6, <2>7 DEF Listed
  <2> QED
    BY <2>5, <2>12, <2>13, <2>14, <2>15 DEF u
<1> QED
  BY <1>1, <1>2

(* Reserve is ReserveFrom after the top-up. *)
LEMMA ReserveIs ==
    ASSUME NEW w PROVE Reserve(w) = ReserveFrom(TopUpKeyPool(w))
BY DEF Reserve, With

(* GetKeyFromPool is Reserve and then KeepReserved. *)
LEMMA GetKeyIs ==
    ASSUME NEW w PROVE GetKeyFromPool(w) = KeepReserved(Reserve(w))
BY DEF GetKeyFromPool, With

(* ReserveKeyFromKeyPool *)
LEMMA KeyReserved ==
    ASSUME NEW w, OK(w), NEW X
    PROVE  LET r == Reserve(w) IN
           /\ r = [w |-> r.w, index |-> r.index, key |-> r.key, throws |-> r.throws]
           /\ OK(r.w) /\ Reach(w, r.w, X) /\ (~IsLocked => Keeps(w, r.w))
           /\ r.index \in 0 .. r.w.made /\ r.key \in 0 .. r.w.made
           /\ r.index = NoKey => r.key = NoKey
           /\ r.index # NoKey => /\ r.index \in DOMAIN r.w.disk.pool
                                 /\ r.w.disk.pool[r.index] = r.key
                                 /\ r.index \notin r.w.mem.pool
           /\ ~IsLocked => Reserved(r.w, r.index, r.key)
           /\ \A q \in Nat, p \in Nat : ~IsLocked /\ Reserved(w, q, p) => q = NoKey \/ q # r.index
<1> DEFINE t == TopUpKeyPool(w)
           r == Reserve(w)
<1>1. /\ OK(t) /\ Reach(w, t, X) /\ Keeps(w, t)
      /\ ~IsLocked => \A i : \E j \in t.mem.pool : j # i
  BY PoolToppedUp
<1>2. r = ReserveFrom(t)
  BY ReserveIs
<1> HIDE DEF t, r
<1>3. /\ r = [w |-> r.w, index |-> r.index, key |-> r.key, throws |-> r.throws]
      /\ OK(r.w) /\ Reach(t, r.w, X) /\ (~IsLocked => Keeps(t, r.w))
      /\ r.index \in 0 .. r.w.made /\ r.key \in 0 .. r.w.made
      /\ r.index = NoKey => r.key = NoKey
      /\ r.index # NoKey => /\ r.index \in DOMAIN r.w.disk.pool
                            /\ r.w.disk.pool[r.index] = r.key
                            /\ r.index \in t.mem.pool /\ r.index \notin r.w.mem.pool
      /\ ~IsLocked => Reserved(r.w, r.index, r.key)
  BY <1>1, <1>2, ReservedFrom
<1>4. w.made \in Nat /\ t.made \in Nat /\ r.w.made \in Nat
  BY <1>1, <1>3 DEF OK
<1>5. Reach(w, r.w, X)
  BY <1>1, <1>3, <1>4, ReachOn
<1>6. ~IsLocked => Keeps(w, r.w)
  BY <1>1, <1>3, KeepsOn
<1>7. ASSUME NEW q \in Nat, NEW p \in Nat, Reserved(w, q, p), q # NoKey PROVE q # r.index
  <2>1. Reserved(t, q, p)
    BY <1>1, <1>7 DEF Keeps
  <2> QED
    BY <1>3, <1>7, <2>1 DEF Reserved
<1> QED
  BY <1>3, <1>5, <1>6, <1>7 DEF r

(* GetKeyFromPool: the key that it gives is listed no more. *)
LEMMA KeyGot ==
    ASSUME NEW w, OK(w), NEW X
    PROVE  LET g == GetKeyFromPool(w) IN
           /\ OK(g.w) /\ Reach(w, g.w, X) /\ (~IsLocked => Keeps(w, g.w))
           /\ g.key \in 0 .. g.w.made
           /\ ~g.throws => g.key \notin Listed(g.w.disk)
<1> DEFINE r == Reserve(w)
           g == GetKeyFromPool(w)
<1>1. /\ r = [w |-> r.w, index |-> r.index, key |-> r.key, throws |-> r.throws]
      /\ OK(r.w) /\ Reach(w, r.w, X) /\ (~IsLocked => Keeps(w, r.w))
      /\ r.index \in 0 .. r.w.made /\ r.key \in 0 .. r.w.made
      /\ r.index = NoKey => r.key = NoKey
      /\ r.index # NoKey => /\ r.index \in DOMAIN r.w.disk.pool
                            /\ r.w.disk.pool[r.index] = r.key
                            /\ r.index \notin r.w.mem.pool
      /\ \A q \in Nat, p \in Nat : ~IsLocked /\ Reserved(w, q, p) => q = NoKey \/ q # r.index
  BY KeyReserved
<1>2. g = KeepReserved(r)
  BY GetKeyIs
<1> HIDE DEF g, r
<1>3. CASE r.throws
  <2>1. g = r
    BY <1>2, <1>3 DEF KeepReserved
  <2> QED
    BY <1>1, <1>3, <2>1 DEF g
<1>4. CASE ~r.throws
  <2> DEFINE u == KeepKey(r.w, r.index)
  <2>1. g = [r EXCEPT !.w = u]
    BY <1>2, <1>4 DEF KeepReserved
  <2>2. r.index \in Nat /\ r.w.made \in Nat
    BY <1>1 DEF OK
  <2>3. /\ OK(u) /\ Reach(r.w, u, X) /\ u.made = r.w.made
        /\ r.index # NoKey => r.w.disk.pool[r.index] \notin Listed(u.disk)
        /\ \A q \in Nat, p \in Nat : q # r.index /\ Reserved(r.w, q, p) => Reserved(u, q, p)
    BY <1>1, <2>2, KeptKey
  <2> HIDE DEF u
  <2>4. g.w = u /\ g.key = r.key
    BY <1>1, <2>1
  <2>5. Reach(w, u, X)
    BY <1>1, <2>3, ReachOn DEF OK
  <2>6. ASSUME ~IsLocked, NEW q \in Nat, NEW p \in Nat, Reserved(w, q, p) PROVE Reserved(u, q, p)
    <3>1. CASE q = NoKey
      BY <3>1 DEF Reserved
    <3>2. CASE q # NoKey
      <4>1. q # r.index
        BY <1>1, <2>6, <3>2
      <4>2. Reserved(r.w, q, p)
        BY <1>1, <2>6 DEF Keeps
      <4> QED
        BY <2>3, <4>1, <4>2
    <3> QED
      BY <3>1, <3>2
  <2>7. r.key \notin Listed(u.disk)
    <3>1. CASE r.index # NoKey
      BY <1>1, <2>3, <3>1
    <3>2. CASE r.index = NoKey
      <4>1. IsDisk(u.disk, u.made) /\ u.made \in Nat
        BY <2>3 DEF OK, Disks
      <4>2. r.key = 0
        BY <1>1, <3>2 DEF NoKey
      <4> QED
        BY <4>1, <4>2 DEF IsDisk, Listed
    <3> QED
      BY <3>1, <3>2
  <2>8. ~IsLocked => Keeps(w, u)
    BY <2>6 DEF Keeps
  <2>9. r.key \in 0 .. u.made
    BY <1>1, <2>3
  <2> QED
    BY <2>3, <2>4, <2>5, <2>7, <2>8, <2>9 DEF g
<1> QED
  BY <1>3, <1>4

----------------------------------------------------------------------------
(* The transactions *)

(* A change that leaves both pools alone keeps what is reserved. *)
LEMMA SamePools ==
    ASSUME NEW w, NEW u, u.mem.pool = w.mem.pool, u.disk.pool = w.disk.pool
    PROVE  Keeps(w, u) /\ Listed(u.disk) = Listed(w.disk)
BY DEF Keeps, Reserved, Listed

(* SetDefaultKey *)
LEMMA DefaultKeySet ==
    ASSUME NEW w, OK(w), NEW X, NEW k \in 0 .. w.made
    PROVE  LET u == SetDefaultKey(w, k) IN
           /\ OK(u) /\ Reach(w, u, X) /\ Keeps(w, u) /\ Listed(u.disk) = Listed(w.disk)
           /\ u.made = w.made
<1> DEFINE u == SetDefaultKey(w, k)
<1>1. CASE k = NoKey
  <2>1. u = w
    BY <1>1 DEF SetDefaultKey
  <2>2. Reach(w, w, X) /\ Keeps(w, w)
    BY ReachSelf DEF Keeps
  <2> HIDE DEF u
  <2> QED
    BY <2>1, <2>2 DEF u
<1>2. CASE k # NoKey
  <2> DEFINE m == [txs |-> w.mem.txs, spent |-> w.mem.spent, placed |-> w.mem.placed,
                   pool |-> w.mem.pool, defaultKey |-> k,
                   kind |-> w.mem.kind, useCrypto |-> w.mem.useCrypto]
             d == [txs |-> w.disk.txs, spent |-> w.disk.spent, placed |-> w.disk.placed,
                   pool |-> w.disk.pool, defaultKey |-> k, plain |-> w.disk.plain,
                   crypted |-> w.disk.crypted, twisted |-> w.disk.twisted]
  <2>1. /\ IsDisk(w.disk, w.made) /\ IsRecord(w) /\ IsMemory(w.mem, w.made)
        /\ Agree(w.mem, w.disk) /\ w.made \in Nat
    BY DEF OK, Disks
  <2>2. [w.mem EXCEPT !.defaultKey = k] = m
    BY <2>1 DEF IsMemory, IsMemoryRecord
  <2>3. [w.disk EXCEPT !.defaultKey = k] = d
    BY <2>1 DEF IsDisk, IsDiskRecord
  <2>4. IsMemory(m, w.made)
    BY <2>1 DEF IsMemory, IsMemoryRecord
  <2>5. IsDisk(d, w.made)
    BY <1>2, <2>1 DEF IsDisk, IsDiskRecord, NoKey
  <2>6. Agree(m, d)
    BY <2>1 DEF Agree
  <2>7. More(w.disk, d, w.made)
    BY DEF More, Listed
  <2>8. /\ m.pool = w.mem.pool /\ d.pool = w.disk.pool /\ m.txs = w.mem.txs
        /\ m.useCrypto = w.mem.useCrypto
    OBVIOUS
  <2>9. u = Write([w EXCEPT !.mem.defaultKey = k], [w.disk EXCEPT !.defaultKey = k])
    BY <1>2 DEF SetDefaultKey
  <2> HIDE DEF m, d, u
  <2>10. u = [mem |-> m, disk |-> d, log |-> Append(w.log, d), made |-> w.made]
    <3>1. [w EXCEPT !.mem.defaultKey = k] = [w EXCEPT !.mem = m]
      BY <2>2
    <3>2. [w EXCEPT !.mem = m] = [mem |-> m, disk |-> w.disk, log |-> w.log, made |-> w.made]
      BY <2>1, MemoryIs
    <3> QED
      BY <2>3, <2>9, <3>1, <3>2, WriteOn
  <2>11. u.mem = m /\ u.disk = d /\ u.made = w.made /\ u.log = Append(w.log, d) /\ IsRecord(u)
    BY <2>10 DEF IsRecord
  <2>12. Reach(w, w, X)
    BY ReachSelf
  <2>13. OK(u) /\ Reach(w, u, X)
    <3>1. IsNext(w, w, u, X)
      BY <2>1, <2>4, <2>5, <2>6, <2>7, <2>8, <2>11 DEF IsNext, More
    <3> QED
      BY <2>12, <3>1, Written
  <2>14. Keeps(w, u) /\ Listed(u.disk) = Listed(w.disk)
    BY <2>8, <2>11, SamePools
  <2> QED
    BY <2>11, <2>13, <2>14 DEF u
<1> QED
  BY <1>1, <1>2

(* The record of a transaction *)
LEMMA RecordKept ==
    ASSUME NEW w, OK(w), NEW X, NEW t \in X \cap Txns, NEW inBlock
    PROVE  LET u == Record(w, t, inBlock) IN
           /\ OK(u) /\ Reach(w, u, X) /\ Keeps(w, u) /\ Listed(u.disk) = Listed(w.disk)
           /\ t \in u.disk.txs /\ u.made = w.made
<1> DEFINE u == Record(w, t, inBlock)
<1>1. CASE t \in w.mem.txs /\ (inBlock => t \in w.mem.placed)
  <2>1. u = w
    BY <1>1 DEF Record
  <2>2. Reach(w, w, X) /\ Keeps(w, w) /\ t \in w.disk.txs
    BY <1>1, ReachSelf DEF Keeps, OK, Agree
  <2> HIDE DEF u
  <2> QED
    BY <2>1, <2>2 DEF u
<1>2. CASE ~(t \in w.mem.txs /\ (inBlock => t \in w.mem.placed))
  <2> DEFINE p == IF inBlock THEN {t} ELSE {}
             m == [txs |-> w.mem.txs \cup {t}, spent |-> w.mem.spent,
                   placed |-> w.mem.placed \cup p,
                   pool |-> w.mem.pool, defaultKey |-> w.mem.defaultKey,
                   kind |-> w.mem.kind, useCrypto |-> w.mem.useCrypto]
             d == [txs |-> w.disk.txs \cup {t}, spent |-> w.disk.spent,
                   placed |-> w.disk.placed \cup p,
                   pool |-> w.disk.pool, defaultKey |-> w.disk.defaultKey, plain |-> w.disk.plain,
                   crypted |-> w.disk.crypted, twisted |-> w.disk.twisted]
  <2>1. /\ IsDisk(w.disk, w.made) /\ IsRecord(w) /\ IsMemory(w.mem, w.made)
        /\ Agree(w.mem, w.disk) /\ w.made \in Nat
    BY DEF OK, Disks
  <2>2. p \subseteq {t}
    OBVIOUS
  <2>3. [w.mem EXCEPT !.txs = @ \cup {t}, !.placed = @ \cup p] = m
    <3> DEFINE x == w.mem.txs \cup {t}
               y == w.mem.placed \cup p
               c == [w.mem EXCEPT !.txs = x]
    <3> HIDE DEF x, y
    <3>1. c = [txs |-> x, spent |-> w.mem.spent, placed |-> w.mem.placed,
               pool |-> w.mem.pool, defaultKey |-> w.mem.defaultKey,
               kind |-> w.mem.kind, useCrypto |-> w.mem.useCrypto]
      BY <2>1, MemIs DEF IsMemory
    <3> HIDE DEF c
    <3>2. /\ c.txs = x /\ c.spent = w.mem.spent /\ c.placed = w.mem.placed
          /\ c.pool = w.mem.pool /\ c.defaultKey = w.mem.defaultKey
          /\ c.kind = w.mem.kind /\ c.useCrypto = w.mem.useCrypto
      BY <3>1
    <3>3. IsMemoryRecord(c)
      BY <3>1, <3>2 DEF IsMemoryRecord
    <3>4. [c EXCEPT !.placed = y]
             = [txs |-> c.txs, spent |-> c.spent, placed |-> y, pool |-> c.pool,
                defaultKey |-> c.defaultKey, kind |-> c.kind, useCrypto |-> c.useCrypto]
      BY <3>3, MemIs
    <3>5. [c EXCEPT !.placed = y] = m
      BY <3>2, <3>4 DEF x, y
    <3>6. [w.mem EXCEPT !.txs = @ \cup {t}, !.placed = @ \cup p] = [c EXCEPT !.placed = c.placed \cup p]
      BY DEF c, x
    <3> HIDE DEF m
    <3> QED
      BY <3>2, <3>5, <3>6 DEF y
  <2>4. [w.disk EXCEPT !.txs = @ \cup {t}, !.placed = @ \cup p] = d
    <3> DEFINE x == w.disk.txs \cup {t}
               y == w.disk.placed \cup p
               c == [w.disk EXCEPT !.txs = x]
    <3> HIDE DEF x, y
    <3>1. c = [txs |-> x, spent |-> w.disk.spent, placed |-> w.disk.placed,
               pool |-> w.disk.pool, defaultKey |-> w.disk.defaultKey,
               plain |-> w.disk.plain, crypted |-> w.disk.crypted, twisted |-> w.disk.twisted]
      BY <2>1, DiskIs DEF IsDisk
    <3> HIDE DEF c
    <3>2. /\ c.txs = x /\ c.spent = w.disk.spent /\ c.placed = w.disk.placed
          /\ c.pool = w.disk.pool /\ c.defaultKey = w.disk.defaultKey
          /\ c.plain = w.disk.plain /\ c.crypted = w.disk.crypted /\ c.twisted = w.disk.twisted
      BY <3>1
    <3>3. IsDiskRecord(c)
      BY <3>1, <3>2 DEF IsDiskRecord
    <3>4. [c EXCEPT !.placed = y]
             = [txs |-> c.txs, spent |-> c.spent, placed |-> y, pool |-> c.pool,
                defaultKey |-> c.defaultKey, plain |-> c.plain, crypted |-> c.crypted,
                twisted |-> c.twisted]
      BY <3>3, DiskIs
    <3>5. [c EXCEPT !.placed = y] = d
      BY <3>2, <3>4 DEF x, y
    <3>6. [w.disk EXCEPT !.txs = @ \cup {t}, !.placed = @ \cup p] = [c EXCEPT !.placed = c.placed \cup p]
      BY DEF c, x
    <3> HIDE DEF d
    <3> QED
      BY <3>2, <3>5, <3>6 DEF y
  <2> HIDE DEF p
  <2>5. IsMemory(m, w.made)
    BY <2>1 DEF IsMemory, IsMemoryRecord
  <2>6. IsDisk(d, w.made)
    BY <2>1, <2>2 DEF IsDisk, IsDiskRecord
  <2>7. Agree(m, d)
    BY <2>1 DEF Agree
  <2>8. More(w.disk, d, w.made)
    BY DEF More, Listed
  <2>9. /\ m.pool = w.mem.pool /\ d.pool = w.disk.pool /\ m.txs \subseteq w.mem.txs \cup X
        /\ m.useCrypto = w.mem.useCrypto /\ t \in d.txs
    OBVIOUS
  <2>10. u = Write([w EXCEPT !.mem = m], d)
    <3> DEFINE mm == [w.mem EXCEPT !.txs = @ \cup {t}, !.placed = @ \cup p]
               dd == [w.disk EXCEPT !.txs = @ \cup {t}, !.placed = @ \cup p]
    <3>1. u = Write([w EXCEPT !.mem = mm], dd)
      BY <1>2 DEF Record, p
    <3>2. mm = m /\ dd = d
      BY <2>3, <2>4
    <3> HIDE DEF mm, dd, m, d, u
    <3> QED
      BY <3>1, <3>2
  <2> HIDE DEF m, d, u
  <2>11. u = [mem |-> m, disk |-> d, log |-> Append(w.log, d), made |-> w.made]
    <3>1. [w EXCEPT !.mem = m] = [mem |-> m, disk |-> w.disk, log |-> w.log, made |-> w.made]
      BY <2>1, MemoryIs
    <3> QED
      BY <2>10, <3>1, WriteOn
  <2>12. u.mem = m /\ u.disk = d /\ u.made = w.made /\ u.log = Append(w.log, d) /\ IsRecord(u)
    BY <2>11 DEF IsRecord
  <2>13. Reach(w, w, X)
    BY ReachSelf
  <2>14. OK(u) /\ Reach(w, u, X)
    <3>1. IsNext(w, w, u, X)
      BY <2>1, <2>5, <2>6, <2>7, <2>8, <2>9, <2>12 DEF IsNext, More
    <3> QED
      BY <2>13, <3>1, Written
  <2>15. Keeps(w, u) /\ Listed(u.disk) = Listed(w.disk)
    BY <2>9, <2>12, SamePools
  <2>16. t \in u.disk.txs
    BY <2>9, <2>12
  <2> QED
    BY <2>12, <2>14, <2>15, <2>16 DEF u
<1> QED
  BY <1>1, <1>2

(* MarkSpent of a coin of the wallet *)
LEMMA CoinMarked ==
    ASSUME NEW w, OK(w), NEW X, NEW t \in w.mem.txs
    PROVE  LET u == MarkSpent(w, t) IN
           /\ OK(u) /\ Reach(w, u, X) /\ Keeps(w, u) /\ Listed(u.disk) = Listed(w.disk)
           /\ t \in u.disk.spent /\ u.mem.txs = w.mem.txs /\ u.made = w.made
<1> DEFINE u == MarkSpent(w, t)
           x == w.mem.spent \cup {t}
           y == w.disk.spent \cup {t}
           m == [txs |-> w.mem.txs, spent |-> x, placed |-> w.mem.placed,
                 pool |-> w.mem.pool, defaultKey |-> w.mem.defaultKey,
                 kind |-> w.mem.kind, useCrypto |-> w.mem.useCrypto]
           d == [txs |-> w.disk.txs, spent |-> y, placed |-> w.disk.placed,
                 pool |-> w.disk.pool, defaultKey |-> w.disk.defaultKey, plain |-> w.disk.plain,
                 crypted |-> w.disk.crypted, twisted |-> w.disk.twisted]
<1>1. /\ IsDisk(w.disk, w.made) /\ IsRecord(w) /\ IsMemory(w.mem, w.made)
      /\ Agree(w.mem, w.disk) /\ w.made \in Nat
  BY DEF OK, Disks
<1>2. u = Write([w EXCEPT !.mem.spent = x], [w.disk EXCEPT !.spent = y])
  BY DEF MarkSpent
<1>3. x = y /\ t \in y /\ w.disk.spent \subseteq y /\ y \subseteq w.disk.txs
  BY <1>1 DEF Agree, IsDisk
<1> HIDE DEF x, y
<1>4. [w.mem EXCEPT !.spent = x] = m /\ [w.disk EXCEPT !.spent = y] = d
  <2>1. [w.mem EXCEPT !.spent = x] = m
    BY <1>1, MemIs DEF IsMemory
  <2>2. [w.disk EXCEPT !.spent = y] = d
    BY <1>1, DiskIs DEF IsDisk
  <2> QED
    BY <2>1, <2>2
<1>5. IsMemory(m, w.made)
  BY <1>1 DEF IsMemory, IsMemoryRecord
<1>6. IsDisk(d, w.made)
  BY <1>1, <1>3 DEF IsDisk, IsDiskRecord
<1>7. Agree(m, d)
  BY <1>1, <1>3 DEF Agree
<1>8. More(w.disk, d, w.made)
  BY <1>3 DEF More, Listed
<1>9. /\ m.pool = w.mem.pool /\ d.pool = w.disk.pool /\ m.txs = w.mem.txs
      /\ m.useCrypto = w.mem.useCrypto /\ d.spent = y
  OBVIOUS
<1> HIDE DEF m, d, u
<1>10. u = [mem |-> m, disk |-> d, log |-> Append(w.log, d), made |-> w.made]
  <2>1. [w EXCEPT !.mem.spent = x] = [w EXCEPT !.mem = m]
    BY <1>4
  <2>2. [w EXCEPT !.mem = m] = [mem |-> m, disk |-> w.disk, log |-> w.log, made |-> w.made]
    BY <1>1, MemoryIs
  <2> QED
    BY <1>2, <1>4, <2>1, <2>2, WriteOn
<1>11. u.mem = m /\ u.disk = d /\ u.made = w.made /\ u.log = Append(w.log, d) /\ IsRecord(u)
  BY <1>10 DEF IsRecord
<1>12. OK(u) /\ Reach(w, u, X)
  <2>1. Reach(w, w, X)
    BY ReachSelf
  <2>2. IsNext(w, w, u, X)
    BY <1>1, <1>5, <1>6, <1>7, <1>8, <1>9, <1>11 DEF IsNext, More
  <2> QED
    BY <2>1, <2>2, Written
<1>13. Keeps(w, u) /\ Listed(u.disk) = Listed(w.disk)
  BY <1>9, <1>11, SamePools
<1>14. t \in u.disk.spent /\ u.mem.txs = w.mem.txs
  BY <1>3, <1>9, <1>11
<1> QED
  BY <1>11, <1>12, <1>13, <1>14 DEF u

(* What a loop over coins leaves alone *)
Marking(v, w, X) ==
    /\ OK(w) /\ Reach(v, w, X) /\ Keeps(v, w) /\ Listed(w.disk) = Listed(v.disk)
    /\ w.mem.txs = v.mem.txs /\ w.made = v.made

(* It leaves it alone from one coin to the next. *)
LEMMA MarkingOn ==
    ASSUME NEW u, NEW v, NEW w, NEW X, OK(v), Marking(v, w, X), Marking(w, u, X)
    PROVE  Marking(v, u, X)
<1>1. v.made \in Nat /\ w.made \in Nat /\ u.made \in Nat
  BY DEF Marking, OK
<1>2. Reach(v, u, X)
  BY <1>1, ReachOn DEF Marking
<1>3. Keeps(v, u)
  BY KeepsOn DEF Marking
<1> QED
  BY <1>2, <1>3 DEF Marking

(* It leaves it alone if it does nothing. *)
LEMMA MarkingSelf ==
    ASSUME NEW w, NEW X, OK(w) PROVE Marking(w, w, X)
BY ReachSelf DEF Marking, Keeps

(* What MarkedAll computes *)
LEMMA MarkedAllDef ==
    ASSUME NEW w, NEW order, Len(order) \in Nat
    PROVE  LET t == MarkedAll(w, order) IN
           t[0] = w /\ \A j \in 1 .. Len(order) : t[j] = MarkSpent(t[j - 1], order[j])
<1> DEFINE D == 0 .. Len(order)
           Step(f, i) == IF i = 0 THEN w ELSE MarkSpent(f[i - 1], order[i])
           Defined(n) == \E f : f = [i \in 0 .. n |-> Step(f, i)]
<1>1. ASSUME NEW n \in Nat, n > 0 => Defined(n - 1)
      PROVE  Defined(n)
  <2>1. CASE n = 0
    <3> DEFINE f == [i \in 0 .. n |-> w]
    <3>1. f = [i \in 0 .. n |-> Step(f, i)]
      BY <2>1
    <3> QED
      BY <3>1
  <2>2. CASE n > 0
    <3>1. PICK f : f = [i \in 0 .. n - 1 |-> Step(f, i)]
      BY <1>1, <2>2
    <3> DEFINE g == [i \in 0 .. n |-> Step(f, i)]
    <3>2. ASSUME NEW i \in 0 .. n, i # 0
          PROVE  g[i - 1] = f[i - 1]
      <4>1. i - 1 \in 0 .. n - 1 /\ i - 1 \in 0 .. n
        BY <3>2
      <4> QED
        BY <3>1, <4>1
    <3>3. g = [i \in 0 .. n |-> Step(g, i)]
      BY <3>2
    <3> QED
      BY <3>3
  <2> HIDE DEF Defined
  <2> QED
    BY <2>1, <2>2
<1>2. \A n \in Nat : Defined(n)
  <2> DEFINE T == {n \in Nat : ~Defined(n)}
  <2> HIDE DEF Defined
  <2>1. SUFFICES ASSUME T # {} PROVE FALSE
    OBVIOUS
  <2>2. PICK n \in T : \A k \in T : n <= k
    BY <2>1, LeastElement
  <2>3. n > 0 => Defined(n - 1)
    BY <2>2
  <2> QED
    BY <1>1, <2>2, <2>3
<1>3. \E f : f = [i \in D |-> Step(f, i)]
  <2>1. Len(order) \in Nat
    BY WalletAssumption
  <2>2. Defined(Len(order))
    BY <1>2, <2>1
  <2> QED
    BY <2>2
<1>4. MarkedAll(w, order) = [i \in D |-> Step(MarkedAll(w, order), i)]
  BY <1>3 DEF MarkedAll
<1> DEFINE t == MarkedAll(w, order)
<1>5. ASSUME NEW i \in D PROVE t[i] = Step(t, i)
  BY <1>4
<1> HIDE DEF t
<1>6. t[0] = w
  <2>1. 0 \in D
    BY WalletAssumption
  <2> QED
    BY <1>5, <2>1
<1>7. ASSUME NEW j \in 1 .. Len(order) PROVE t[j] = MarkSpent(t[j - 1], order[j])
  <2>1. j \in D /\ j # 0
    BY WalletAssumption
  <2> QED
    BY <1>5, <2>1
<1> QED
  BY <1>6, <1>7 DEF t

(* The loop of CommitTransaction: every coin of the order is marked. *)
LEMMA AllMarked ==
    ASSUME NEW w, OK(w), NEW X, NEW order, Len(order) \in Nat,
           \A i \in 1 .. Len(order) : order[i] \in w.mem.txs
    PROVE  LET u == MarkedAll(w, order)[Len(order)] IN
           /\ Marking(w, u, X)
           /\ \A i \in 1 .. Len(order) : order[i] \in u.disk.spent
<1> DEFINE t == MarkedAll(w, order)
           K == Len(order)
           Good(n) == /\ Marking(w, t[n], X)
                      /\ \A i \in 1 .. n : order[i] \in t[n].disk.spent
<1>1. t[0] = w /\ \A j \in 1 .. K : t[j] = MarkSpent(t[j - 1], order[j])
  BY MarkedAllDef
<1>2. K \in Nat /\ \A i \in 1 .. K : order[i] \in w.mem.txs
  OBVIOUS
<1> HIDE DEF t, K
<1>3. Good(0)
  BY <1>1, MarkingSelf
<1>4. ASSUME NEW n \in 1 .. K, Good(n - 1) PROVE Good(n)
  <2> DEFINE v == t[n - 1]
             u == t[n]
             c == order[n]
  <2>1. u = MarkSpent(v, c)
    BY <1>1
  <2>2. Marking(w, v, X) /\ \A i \in 1 .. n - 1 : order[i] \in v.disk.spent
    BY <1>4
  <2>3. c \in v.mem.txs
    BY <1>2, <2>2 DEF Marking
  <2> HIDE DEF v, u, c
  <2>4. /\ OK(v)
        /\ OK(u) /\ Reach(v, u, X) /\ Keeps(v, u) /\ Listed(u.disk) = Listed(v.disk)
        /\ c \in u.disk.spent /\ u.mem.txs = v.mem.txs /\ u.made = v.made
    BY <2>1, <2>2, <2>3, CoinMarked DEF Marking
  <2>5. Marking(v, u, X)
    BY <2>4 DEF Marking
  <2>6. Marking(w, u, X)
    BY <2>2, <2>5, MarkingOn
  <2>7. v.disk.spent \subseteq u.disk.spent
    BY <2>4 DEF Reach, More
  <2>8. ASSUME NEW i \in 1 .. n PROVE order[i] \in u.disk.spent
    <3>1. CASE i = n
      BY <2>4, <3>1 DEF c
    <3>2. CASE i # n
      <4>1. i \in 1 .. n - 1
        BY <3>2
      <4> QED
        BY <2>2, <2>7, <4>1
    <3> QED
      BY <3>1, <3>2
  <2> QED
    BY <2>6, <2>8 DEF u
<1>5. \A n \in 0 .. K : Good(n)
  <2> DEFINE T == {n \in 0 .. K : ~Good(n)}
  <2> HIDE DEF Good
  <2>1. SUFFICES ASSUME T # {} PROVE FALSE
    OBVIOUS
  <2>2. T \subseteq Nat
    BY <1>2
  <2>3. PICK n \in T : \A k \in T : n <= k
    <3> HIDE DEF T
    <3> QED
      BY <2>1, <2>2, LeastElement
  <2>4. n # 0
    BY <1>3, <2>3
  <2>5. n \in 1 .. K /\ n - 1 \in 0 .. K
    BY <1>2, <2>3, <2>4
  <2>6. n - 1 \notin T
    BY <1>2, <2>3
  <2>7. Good(n - 1)
    BY <2>5, <2>6
  <2> QED
    BY <1>4, <2>3, <2>5, <2>7
<1>6. Good(K)
  BY <1>2, <1>5
<1> QED
  BY <1>6 DEF t, K

(* One input in WalletUpdateSpent *)
LEMMA SpentUpdated ==
    ASSUME NEW w, OK(w), NEW X, NEW t
    PROVE  Marking(w, UpdateSpent(w, t), X)
<1>1. CASE t \in w.mem.txs \ w.mem.spent /\ IsMine(w.mem, t)
  <2> DEFINE u == MarkSpent(w, t)
  <2>1. UpdateSpent(w, t) = u
    BY <1>1 DEF UpdateSpent
  <2>2. /\ OK(u) /\ Reach(w, u, X) /\ Keeps(w, u) /\ Listed(u.disk) = Listed(w.disk)
        /\ u.mem.txs = w.mem.txs /\ u.made = w.made
    BY <1>1, CoinMarked
  <2> HIDE DEF u
  <2> QED
    BY <2>1, <2>2 DEF Marking
<1>2. CASE ~(t \in w.mem.txs \ w.mem.spent /\ IsMine(w.mem, t))
  <2>1. UpdateSpent(w, t) = w
    BY <1>2 DEF UpdateSpent
  <2> QED
    BY <2>1, MarkingSelf
<1> QED
  BY <1>1, <1>2

(* What UpdatedAll computes *)
LEMMA UpdatedAllDef ==
    ASSUME NEW w, NEW order, Len(order) \in Nat
    PROVE  LET t == UpdatedAll(w, order) IN
           t[0] = w /\ \A j \in 1 .. Len(order) : t[j] = UpdateSpent(t[j - 1], order[j])
<1> DEFINE D == 0 .. Len(order)
           Step(f, i) == IF i = 0 THEN w ELSE UpdateSpent(f[i - 1], order[i])
           Defined(n) == \E f : f = [i \in 0 .. n |-> Step(f, i)]
<1>1. ASSUME NEW n \in Nat, n > 0 => Defined(n - 1)
      PROVE  Defined(n)
  <2>1. CASE n = 0
    <3> DEFINE f == [i \in 0 .. n |-> w]
    <3>1. f = [i \in 0 .. n |-> Step(f, i)]
      BY <2>1
    <3> QED
      BY <3>1
  <2>2. CASE n > 0
    <3>1. PICK f : f = [i \in 0 .. n - 1 |-> Step(f, i)]
      BY <1>1, <2>2
    <3> DEFINE g == [i \in 0 .. n |-> Step(f, i)]
    <3>2. ASSUME NEW i \in 0 .. n, i # 0
          PROVE  g[i - 1] = f[i - 1]
      <4>1. i - 1 \in 0 .. n - 1 /\ i - 1 \in 0 .. n
        BY <3>2
      <4> QED
        BY <3>1, <4>1
    <3>3. g = [i \in 0 .. n |-> Step(g, i)]
      BY <3>2
    <3> QED
      BY <3>3
  <2> HIDE DEF Defined
  <2> QED
    BY <2>1, <2>2
<1>2. \A n \in Nat : Defined(n)
  <2> DEFINE T == {n \in Nat : ~Defined(n)}
  <2> HIDE DEF Defined
  <2>1. SUFFICES ASSUME T # {} PROVE FALSE
    OBVIOUS
  <2>2. PICK n \in T : \A k \in T : n <= k
    BY <2>1, LeastElement
  <2>3. n > 0 => Defined(n - 1)
    BY <2>2
  <2> QED
    BY <1>1, <2>2, <2>3
<1>3. \E f : f = [i \in D |-> Step(f, i)]
  <2>1. Len(order) \in Nat
    BY WalletAssumption
  <2>2. Defined(Len(order))
    BY <1>2, <2>1
  <2> QED
    BY <2>2
<1>4. UpdatedAll(w, order) = [i \in D |-> Step(UpdatedAll(w, order), i)]
  BY <1>3 DEF UpdatedAll
<1> DEFINE t == UpdatedAll(w, order)
<1>5. ASSUME NEW i \in D PROVE t[i] = Step(t, i)
  BY <1>4
<1> HIDE DEF t
<1>6. t[0] = w
  <2>1. 0 \in D
    BY WalletAssumption
  <2> QED
    BY <1>5, <2>1
<1>7. ASSUME NEW j \in 1 .. Len(order) PROVE t[j] = UpdateSpent(t[j - 1], order[j])
  <2>1. j \in D /\ j # 0
    BY WalletAssumption
  <2> QED
    BY <1>5, <2>1
<1> QED
  BY <1>6, <1>7 DEF t

(* WalletUpdateSpent *)
LEMMA WalletUpdated ==
    ASSUME NEW w, OK(w), NEW X, NEW order, Len(order) \in Nat
    PROVE  Marking(w, WalletUpdateSpent(w, order), X)
<1> DEFINE t == UpdatedAll(w, order)
           K == Len(order)
           Good(n) == Marking(w, t[n], X)
<1>1. t[0] = w /\ \A j \in 1 .. K : t[j] = UpdateSpent(t[j - 1], order[j])
  BY UpdatedAllDef
<1>2. K \in Nat
  OBVIOUS
<1> HIDE DEF t, K
<1>3. Good(0)
  BY <1>1, MarkingSelf
<1>4. ASSUME NEW n \in 1 .. K, Good(n - 1) PROVE Good(n)
  <2> DEFINE v == t[n - 1]
             u == t[n]
  <2>1. u = UpdateSpent(v, order[n])
    BY <1>1
  <2>2. Marking(w, v, X)
    BY <1>4
  <2> HIDE DEF v, u
  <2>3. Marking(v, u, X)
    BY <2>1, <2>2, SpentUpdated DEF Marking
  <2>4. Marking(w, u, X)
    BY <2>2, <2>3, MarkingOn
  <2> QED
    BY <2>4 DEF u
<1>5. \A n \in 0 .. K : Good(n)
  <2> DEFINE T == {n \in 0 .. K : ~Good(n)}
  <2> HIDE DEF Good
  <2>1. SUFFICES ASSUME T # {} PROVE FALSE
    OBVIOUS
  <2>2. T \subseteq Nat
    BY <1>2
  <2>3. PICK n \in T : \A k \in T : n <= k
    <3> HIDE DEF T
    <3> QED
      BY <2>1, <2>2, LeastElement
  <2>4. n # 0
    BY <1>3, <2>3
  <2>5. n \in 1 .. K /\ n - 1 \in 0 .. K
    BY <1>2, <2>3, <2>4
  <2>6. n - 1 \notin T
    BY <1>2, <2>3
  <2>7. Good(n - 1)
    BY <2>5, <2>6
  <2> QED
    BY <1>4, <2>3, <2>5, <2>7
<1>6. Good(K)
  BY <1>2, <1>5
<1> QED
  BY <1>6 DEF t, K, WalletUpdateSpent

(* No pool lists NoKey. *)
LEMMA NoKeyUnlisted ==
    ASSUME NEW w, OK(w) PROVE NoKey \notin Listed(w.disk) /\ NoKey \in 0 .. w.made
<1>1. IsDisk(w.disk, w.made) /\ w.made \in Nat
  BY DEF OK, Disks
<1> QED
  BY <1>1 DEF IsDisk, Listed, NoKey

(* What an operation of the node thread or of CommitTransaction leaves *)
Added(v, a, X) ==
    /\ OK(a.w) /\ Reach(v, a.w, X) /\ (~IsLocked => Keeps(v, a.w))
    /\ a.key \in 0 .. a.w.made /\ a.key \notin Listed(a.w.disk)

(* A loop over coins at the end does not change that. *)
LEMMA AddedOn ==
    ASSUME NEW v, NEW w, NEW u, NEW X, NEW k, NEW thr, OK(v), OK(w), Reach(v, w, X),
           ~IsLocked => Keeps(v, w), Marking(w, u, X), k \in 0 .. w.made, k \notin Listed(w.disk)
    PROVE  Added(v, [w |-> u, key |-> k, throws |-> thr], X)
<1> DEFINE a == [w |-> u, key |-> k, throws |-> thr]
<1>1. a.w = u /\ a.key = k
  OBVIOUS
<1> HIDE DEF a
<1>2. Reach(v, u, X)
  BY ReachOn DEF OK, Marking
<1>3. ~IsLocked => Keeps(v, u)
  BY KeepsOn DEF Marking
<1>4. OK(u) /\ k \in 0 .. u.made /\ k \notin Listed(u.disk)
  BY DEF Marking
<1>5. Added(v, a, X)
  BY <1>1, <1>2, <1>3, <1>4 DEF Added
<1> QED
  BY <1>5 DEF a

(* AddToWallet *)
LEMMA WalletAdded ==
    ASSUME NEW w, OK(w), NEW X, NEW t \in X \cap Txns, NEW x, NEW order, Len(order) \in Nat,
           NEW inBlock
    PROVE  LET a == AddToWallet(w, t, x, order, inBlock) IN
           Added(w, a, X) /\ t \in a.w.disk.txs
<1> DEFINE a == AddToWallet(w, t, x, order, inBlock)
           WithKey(g) ==
              IF g.throws THEN [w |-> g.w, key |-> NoKey, throws |-> TRUE]
              ELSE [w |-> WalletUpdateSpent(SetDefaultKey(g.w, g.key), order),
                    key |-> g.key, throws |-> FALSE]
           Recorded(r) ==
              IF x.byHash /\ x.key # NoKey /\ x.key = r.mem.defaultKey
              THEN With(GetKeyFromPool(r), WithKey)
              ELSE [w |-> WalletUpdateSpent(r, order), key |-> NoKey, throws |-> FALSE]
           r == Record(w, t, inBlock)
           g == GetKeyFromPool(r)
<1>1. a = With(r, Recorded)
  BY DEF AddToWallet
<1>2. a = Recorded(r)
  <2> HIDE DEF r, Recorded
  <2> QED
    BY <1>1 DEF With
<1>3. /\ OK(r) /\ Reach(w, r, X) /\ Keeps(w, r) /\ t \in r.disk.txs
  BY RecordKept
<1>4. CASE ~(x.byHash /\ x.key # NoKey /\ x.key = r.mem.defaultKey)
  <2> DEFINE u == WalletUpdateSpent(r, order)
  <2>1. a = [w |-> u, key |-> NoKey, throws |-> FALSE]
    <3> HIDE DEF r, a
    <3> QED
      BY <1>2, <1>4
  <2> HIDE DEF r, a
  <2>2. Marking(r, u, X)
    BY <1>3, WalletUpdated
  <2> HIDE DEF u
  <2>3. Added(w, a, X)
    BY <1>3, <2>1, <2>2, AddedOn, NoKeyUnlisted
  <2>4. t \in u.disk.txs
    BY <1>3, <2>2 DEF Marking, Reach, More
  <2>5. a.w = u
    BY <2>1
  <2> QED
    BY <2>3, <2>4, <2>5 DEF a
<1>5. CASE x.byHash /\ x.key # NoKey /\ x.key = r.mem.defaultKey
  <2>1. a = WithKey(g)
    <3>1. a = With(g, WithKey)
      <4> HIDE DEF r, a, WithKey
      <4> QED
        BY <1>2, <1>5
    <3> HIDE DEF r, a, WithKey, g
    <3> QED
      BY <3>1 DEF With
  <2> HIDE DEF r, a
  <2>2. /\ OK(g.w) /\ Reach(r, g.w, X) /\ (~IsLocked => Keeps(r, g.w))
        /\ g.key \in 0 .. g.w.made
        /\ ~g.throws => g.key \notin Listed(g.w.disk)
    BY <1>3, KeyGot
  <2> HIDE DEF g
  <2>3. Reach(w, g.w, X)
    BY <1>3, <2>2, ReachOn DEF OK
  <2>4. ~IsLocked => Keeps(w, g.w)
    BY <1>3, <2>2, KeepsOn
  <2>5. t \in g.w.disk.txs
    BY <1>3, <2>2 DEF Reach, More
  <2>6. CASE g.throws
    <3>1. a = [w |-> g.w, key |-> NoKey, throws |-> TRUE]
      BY <2>1, <2>6
    <3>2. Added(w, a, X)
      BY <2>2, <2>3, <2>4, <3>1, AddedOn, NoKeyUnlisted, MarkingSelf
    <3>3. a.w = g.w
      BY <3>1
    <3> QED
      BY <2>5, <3>2, <3>3 DEF a
  <2>7. CASE ~g.throws
    <3> DEFINE s == SetDefaultKey(g.w, g.key)
               u == WalletUpdateSpent(s, order)
    <3>1. a = [w |-> u, key |-> g.key, throws |-> FALSE]
      BY <2>1, <2>7
    <3>2. /\ OK(s) /\ Reach(g.w, s, X) /\ Keeps(g.w, s) /\ Listed(s.disk) = Listed(g.w.disk)
          /\ s.made = g.w.made
      BY <2>2, DefaultKeySet
    <3> HIDE DEF s
    <3>3. Marking(s, u, X)
      BY <3>2, WalletUpdated
    <3> HIDE DEF u
    <3>4. Reach(w, s, X)
      BY <2>2, <2>3, <3>2, ReachOn DEF OK
    <3>5. ~IsLocked => Keeps(w, s)
      BY <2>4, <3>2, KeepsOn
    <3>6. g.key \in 0 .. s.made /\ g.key \notin Listed(s.disk)
      BY <2>2, <2>7, <3>2
    <3>7. Added(w, a, X)
      BY <3>1, <3>2, <3>3, <3>4, <3>5, <3>6, AddedOn
    <3>8. t \in u.disk.txs
      BY <2>5, <3>2, <3>3 DEF Marking, Reach, More
    <3>9. a.w = u
      BY <3>1
    <3> QED
      BY <3>7, <3>8, <3>9 DEF a
  <2> QED
    BY <2>6, <2>7
<1> QED
  BY <1>4, <1>5

(* transactionAccepted and blockAccepted *)
LEMMA NodeAccepted ==
    ASSUME OK(Current), NEW X, NEW t \in X \cap Txns, NEW x, NEW order, Len(order) \in Nat,
           NEW inBlock
    PROVE  Added(Current, Accepted(t, x, order, inBlock), X)
<1> DEFINE a == Accepted(t, x, order, inBlock)
           c == t \in mem.txs \/ (x.key # NoKey /\ Had(mem, x.key))
                \/ \E u \in x.ins \cap mem.txs : IsMine(mem, u)
<1>1. CASE c
  <2>1. a = AddToWallet(Current, t, x, order, inBlock)
    BY <1>1 DEF Accepted
  <2> HIDE DEF a
  <2> QED
    BY <2>1, WalletAdded DEF a
<1>2. CASE ~c
  <2> DEFINE v == Current
             u == WalletUpdateSpent(v, order)
  <2>1. a = [w |-> u, key |-> NoKey, throws |-> FALSE]
    BY <1>2 DEF Accepted
  <2>2. Marking(v, u, X)
    BY WalletUpdated
  <2>3. OK(v) /\ Reach(v, v, X) /\ Keeps(v, v)
    BY ReachSelf DEF Keeps
  <2> HIDE DEF a, u, v
  <2>4. Added(v, a, X)
    BY <2>1, <2>2, <2>3, AddedOn, NoKeyUnlisted
  <2> QED
    BY <2>4 DEF a, v
<1> QED
  BY <1>1, <1>2

----------------------------------------------------------------------------
(* The inductive invariant *)

(* The wallet as it will be when what is queued is written *)
Now == [mem |-> mem, disk |-> IF writes = <<>> THEN disk ELSE Last(writes),
        log |-> writes, made |-> made]

(* Memory, disk and the states in between are sound. *)
Sound == /\ OK(Now) /\ IsDisk(disk, made)
         /\ made \in 1 .. MaxKeys

(* What others have seen is saved in every state of the disk there is or    *)
(* will be: transactions and the marks of their coins, and keys, which no   *)
(* pool lists.                                                              *)
Saved ==
    /\ handed \subseteq 1 .. made
    /\ posted \subseteq Sends \cap DOMAIN txns
    /\ \A d \in Disks(Now) \cup {disk} :
          /\ posted \subseteq d.txs /\ \A t \in posted : txns[t].ins \subseteq d.spent
          /\ handed \cap Listed(d) = {}

(* The transactions there are *)
Known ==
    /\ DOMAIN txns \subseteq Txns /\ IsFiniteSet(DOMAIN txns)
    /\ \A t \in DOMAIN txns : txns[t].ins \subseteq DOMAIN txns /\ txns[t].key \in 0 .. made
    /\ mem.txs \subseteq DOMAIN txns /\ disk.txs \subseteq mem.txs

(* A transaction under way spends nothing that was posted, and its key is   *)
(* reserved; the wallet stays unlocked.                                     *)
Pending ==
    /\ rpc = [pc |-> rpc.pc, ins |-> rpc.ins, index |-> rpc.index, key |-> rpc.key]
    /\ rpc.pc \in {"idle", "created", "failed"}
    /\ rpc.pc = "idle" => rpc = Idle
    /\ rpc.pc # "idle" => ~IsLocked
    /\ rpc.ins \subseteq mem.txs
    /\ rpc.index \in 0 .. made /\ rpc.key \in 0 .. made /\ (rpc.index = NoKey => rpc.key = NoKey)
    /\ Reserved(Now, rpc.index, rpc.key)
    /\ rpc.pc = "created" => /\ after.do # "post"
                             /\ \A t \in posted : rpc.ins \cap txns[t].ins = {}

(* What follows the last write: a key that no pool lists is given, or a     *)
(* transaction is posted that will be saved and spends nothing posted.      *)
Ahead ==
    /\ after = [do |-> after.do, key |-> after.key, tx |-> after.tx]
    /\ after.do \in {"nothing", "hand", "post", "exit"}
    /\ after.do = "nothing" => after = Nothing
    /\ after.do \in {"hand", "post"} =>
          after.key \in 0 .. made /\ after.key \notin Listed(Now.disk)
    /\ after.do = "post" =>
          /\ after.tx \in (Sends \cap DOMAIN txns) \ posted
          /\ after.tx \in Now.disk.txs /\ txns[after.tx].ins \subseteq Now.disk.spent
          /\ \A t \in posted : txns[after.tx].ins \cap txns[t].ins = {}

(* The timer *)
Timed ==
    /\ unlocked \in BOOLEAN /\ (unlocked => mem.useCrypto)
    /\ timer = [armed |-> timer.armed, due |-> timer.due]
    /\ timer.armed \in BOOLEAN /\ timer.due \in Nat /\ unlocks \in Nat /\ unlocks <= MaxUnlocks
    /\ timer.due + (IF timer.armed THEN 1 ELSE 0) <= unlocks
    /\ UnlockedIsTimed

WInv == Sound /\ Saved /\ SentAreDisjoint /\ Known /\ Pending /\ Ahead /\ Timed

----------------------------------------------------------------------------
(* When no operation is under way, the wallet is as it is. *)
LEMMA NowIsCurrent ==
    ASSUME Free
    PROVE  Now = Current /\ writes = <<>> /\ after = Nothing /\ Now.disk = disk /\ Now.mem = mem
           /\ Now.made = made /\ Now.log = <<>>
BY DEF Free, Now, Current

(* What Do does *)
LEMMA DoIs ==
    ASSUME NEW w, NEW then, Do(w, then)
    PROVE  w.made <= MaxKeys /\ mem' = w.mem /\ made' = w.made /\ writes' = w.log /\ after' = then
BY DEF Do

(* An operation that leads from the wallet, v, to w: what it leaves is      *)
(* sound, and what others have seen is saved at every state of the disk.    *)
LEMMA Operation ==
    ASSUME WInv, Free, NEW v, NEW w, NEW then, NEW X,
           OK(v), v.disk = disk, v.log = <<>>, v.made = made, v.mem.txs = mem.txs,
           OK(w), Reach(v, w, X), Do(w, then), UNCHANGED <<disk, handed, posted>>,
           DOMAIN txns \subseteq DOMAIN txns', \A t \in posted : txns'[t] = txns[t]
    PROVE  /\ Sound' /\ Saved' /\ SentAreDisjoint'
           /\ Now' = w /\ after' = then /\ made <= made' /\ made' = w.made /\ mem' = w.mem
           /\ mem.txs \subseteq mem'.txs /\ mem'.txs \subseteq mem.txs \cup X
           /\ disk'.txs \subseteq mem'.txs
           /\ mem'.useCrypto = v.mem.useCrypto
           /\ Now'.disk = w.disk /\ Now'.mem = w.mem /\ Now'.made = w.made
<1>1. w.made <= MaxKeys /\ mem' = w.mem /\ made' = w.made /\ writes' = w.log /\ after' = then
  BY DoIs
<1>2. IsRecord(w) /\ w.made \in Nat /\ IsLog(w.log, w.disk) /\ Agree(w.mem, w.disk)
  BY DEF OK
<1>3. made \in 1 .. MaxKeys /\ made <= w.made /\ w.made \in 1 .. MaxKeys /\ MaxKeys \in Nat
  BY <1>1, <1>2, WalletAssumption DEF WInv, Sound, Reach
<1>4. (IF writes' = <<>> THEN disk' ELSE Last(writes')) = w.disk
  <2>1. CASE w.log = <<>>
    BY <1>1, <2>1 DEF Reach
  <2>2. CASE w.log # <<>>
    <3>1. Last(w.log) = w.disk
      BY <1>2, <2>2 DEF IsLog, Last
    <3> QED
      BY <1>1, <2>2, <3>1
  <2> QED
    BY <2>1, <2>2
<1>5. Now' = w
  <2>1. Now' = [mem |-> mem', disk |-> w.disk, log |-> writes', made |-> made']
    BY <1>4 DEF Now
  <2>2. Now' = [mem |-> w.mem, disk |-> w.disk, log |-> w.log, made |-> w.made]
    BY <1>1, <2>1
  <2> QED
    BY <1>2, <2>2 DEF IsRecord
<1>6. OK(Now')
  BY <1>5
<1>7. IsDisk(disk', made')
  <2>1. IsDisk(disk, made)
    BY DEF WInv, Sound
  <2>2. IsDisk(disk, w.made)
    BY <1>2, <1>3, <2>1 DEF IsDisk
  <2> QED
    BY <1>1, <2>2
<1>8. Sound'
  BY <1>1, <1>3, <1>6, <1>7 DEF Sound
<1>9. ASSUME NEW d \in Disks(w) PROVE d = disk \/ More(disk, d, made)
  <2>1. Disks(v) = {disk}
    <3>1. DOMAIN <<>> = {}
      OBVIOUS
    <3> QED
      BY <3>1 DEF Disks
  <2> QED
    BY <1>9, <2>1 DEF Reach
<1>10. /\ handed \subseteq 1 .. made /\ posted \subseteq Sends \cap DOMAIN txns
       /\ posted \subseteq disk.txs /\ \A t \in posted : txns[t].ins \subseteq disk.spent
       /\ handed \cap Listed(disk) = {}
  BY DEF WInv, Saved
<1>11. ASSUME NEW d \in Disks(w) \cup {disk}
       PROVE  /\ posted \subseteq d.txs /\ \A t \in posted : txns[t].ins \subseteq d.spent
              /\ handed \cap Listed(d) = {}
  <2>1. CASE d = disk
    BY <1>10, <2>1
  <2>2. CASE More(disk, d, made)
    <3>1. /\ disk.txs \subseteq d.txs /\ disk.spent \subseteq d.spent
          /\ \A k \in 1 .. made : k \in Listed(d) => k \in Listed(disk)
      BY <2>2 DEF More
    <3> QED
      BY <1>10, <3>1
  <2> QED
    BY <1>9, <2>1, <2>2
<1>12. Saved'
  <2>1. handed' \subseteq 1 .. made'
    BY <1>1, <1>3, <1>10
  <2>2. posted' \subseteq Sends \cap DOMAIN txns'
    BY <1>10
  <2>3. ASSUME NEW d \in Disks(Now') \cup {disk'}
        PROVE  /\ posted' \subseteq d.txs /\ \A t \in posted' : txns'[t].ins \subseteq d.spent
               /\ handed' \cap Listed(d) = {}
    BY <1>5, <1>11
  <2> QED
    BY <2>1, <2>2, <2>3 DEF Saved
<1>13. SentAreDisjoint'
  BY DEF WInv, SentAreDisjoint
<1>14. /\ mem.txs \subseteq mem'.txs /\ mem'.txs \subseteq mem.txs \cup X
       /\ disk'.txs \subseteq mem'.txs
  <2>1. disk.txs \subseteq w.mem.txs
    BY <1>2 DEF Reach, More, Agree
  <2>2. v.mem.txs = disk.txs
    BY DEF OK, Agree
  <2> QED
    BY <1>1, <2>1, <2>2 DEF Reach
<1>15. mem'.useCrypto = v.mem.useCrypto
  BY <1>1 DEF Reach
<1> QED
  BY <1>1, <1>3, <1>5, <1>8, <1>12, <1>13, <1>14, <1>15

(* The same for an operation that starts with the wallet as it is *)
LEMMA FromCurrent ==
    ASSUME WInv, Free
    PROVE  /\ OK(Current) /\ Current.disk = disk /\ Current.log = <<>> /\ Current.made = made
           /\ Current.mem = mem
BY NowIsCurrent DEF WInv, Sound, Current

(* A transaction under way is not disturbed by an operation of the node. *)
LEMMA PendingKept ==
    ASSUME WInv, Free, UNCHANGED <<rpc, unlocked, posted>>, after'.do # "post",
           made \in Nat, made' \in Nat, made <= made', mem.txs \subseteq mem'.txs,
           mem'.useCrypto = mem.useCrypto, ~IsLocked => Keeps(Current, Now'),
           \A t \in posted : txns'[t] = txns[t]
    PROVE  Pending'
<1>1. Pending
  BY DEF WInv
<1>2. IsLocked' <=> IsLocked
  BY DEF IsLocked
<1>3. Reserved(Now', rpc.index, rpc.key)
  <2>1. CASE rpc.pc = "idle"
    <3>1. rpc.index = NoKey
      BY <1>1, <2>1 DEF Pending, Idle
    <3> QED
      BY <3>1 DEF Reserved
  <2>2. CASE rpc.pc # "idle"
    <3>1. Keeps(Current, Now') /\ Reserved(Current, rpc.index, rpc.key)
      BY <1>1, <2>2, NowIsCurrent DEF Pending
    <3>2. rpc.index \in Nat /\ rpc.key \in Nat
      BY <1>1 DEF Pending
    <3> QED
      BY <3>1, <3>2 DEF Keeps
  <2> QED
    BY <2>1, <2>2
<1>4. rpc.ins \subseteq mem'.txs /\ rpc.index \in 0 .. made' /\ rpc.key \in 0 .. made'
  BY <1>1 DEF Pending
<1> QED
  BY <1>1, <1>2, <1>3, <1>4 DEF Pending

(* The transactions stay what they are. *)
LEMMA KnownKept ==
    ASSUME WInv, UNCHANGED txns, made' \in Nat, made <= made', mem'.txs \subseteq mem.txs,
           disk'.txs \subseteq mem'.txs
    PROVE  Known'
<1>1. Known /\ made \in Nat
  BY WalletAssumption DEF WInv, Sound
<1>2. ASSUME NEW t \in DOMAIN txns PROVE txns[t].key \in 0 .. made'
  BY <1>1 DEF Known
<1> QED
  BY <1>1, <1>2 DEF Known

(* The timer and the lock are not touched. *)
LEMMA TimedKept ==
    ASSUME WInv, UNCHANGED <<unlocked, timer, unlocks>>, mem'.useCrypto = mem.useCrypto
    PROVE  Timed'
BY DEF WInv, Timed, UnlockedIsTimed

(* What follows a write, field by field *)
LEMMA AfterIs ==
    ASSUME NEW r, r = [do |-> r.do, key |-> r.key, tx |-> r.tx], NEW x
    PROVE  /\ [r EXCEPT !.do = x] = [do |-> x, key |-> r.key, tx |-> r.tx]
           /\ [r EXCEPT !.key = x] = [do |-> r.do, key |-> x, tx |-> r.tx]
OBVIOUS

(* Nothing follows, or the process ends, or a key is given. *)
LEMMA AheadOf ==
    ASSUME \/ after' = Nothing
           \/ after' = [Nothing EXCEPT !.do = "exit"]
           \/ \E k : /\ after' = [Nothing EXCEPT !.do = "hand", !.key = k]
                     /\ k \in 0 .. made' /\ k \notin Listed(Now'.disk)
    PROVE  Ahead' /\ after'.do # "post"
<1>1. CASE after' = Nothing
  <2>1. /\ after'.do = "nothing"
        /\ after' = [do |-> after'.do, key |-> after'.key, tx |-> after'.tx]
    BY <1>1 DEF Nothing
  <2> QED
    BY <1>1, <2>1 DEF Ahead
<1>2. CASE after' = [Nothing EXCEPT !.do = "exit"]
  <2>1. after' = [do |-> "exit", key |-> NoKey, tx |-> "none"]
    BY <1>2 DEF Nothing
  <2>2. /\ after'.do = "exit"
        /\ after' = [do |-> after'.do, key |-> after'.key, tx |-> after'.tx]
    BY <2>1
  <2> QED
    BY <2>2 DEF Ahead
<1>3. ASSUME NEW k, after' = [Nothing EXCEPT !.do = "hand", !.key = k],
             k \in 0 .. made', k \notin Listed(Now'.disk)
      PROVE  Ahead' /\ after'.do # "post"
  <2>1. after' = [do |-> "hand", key |-> k, tx |-> "none"]
    <3> DEFINE e == Nothing
               h == "hand"
               n == [e EXCEPT !.do = h]
    <3>1. e.tx = "none" /\ e = [do |-> e.do, key |-> e.key, tx |-> e.tx]
      BY DEF Nothing
    <3> HIDE DEF e, h
    <3>2. n = [do |-> h, key |-> e.key, tx |-> e.tx]
      BY <3>1, AfterIs
    <3> HIDE DEF n
    <3>3. n.do = h /\ n.tx = e.tx /\ n = [do |-> n.do, key |-> n.key, tx |-> n.tx]
      BY <3>2
    <3>4. [n EXCEPT !.key = k] = [do |-> n.do, key |-> k, tx |-> n.tx]
      BY <3>3, AfterIs
    <3>5. after' = [n EXCEPT !.key = k]
      BY <1>3 DEF n, e, h
    <3>6. after' = [do |-> h, key |-> k, tx |-> e.tx]
      BY <3>3, <3>4, <3>5
    <3> QED
      BY <3>1, <3>6 DEF h
  <2>2. /\ after'.do = "hand" /\ after'.key = k
        /\ after' = [do |-> after'.do, key |-> after'.key, tx |-> after'.tx]
    BY <2>1
  <2> QED
    BY <1>3, <2>2 DEF Ahead
<1> QED
  BY <1>1, <1>2, <1>3

----------------------------------------------------------------------------
(* Every step preserves the invariant. *)

(* Of the facts about constants and the sizes that every step needs *)
LEMMA Sizes ==
    ASSUME WInv PROVE made \in Nat /\ made \in 1 .. MaxKeys /\ MaxKeys \in Nat /\ TargetSize \in Nat
BY WalletAssumption DEF WInv, Sound

(* GetNewAddress *)
LEMMA GetNewAddressInv ==
    ASSUME WInv, GetNewAddress PROVE WInv'
<1> DEFINE v == Current
           g == GetKeyFromPool(v)
           then == IF g.throws \/ g.index = NoKey THEN Nothing
                   ELSE [Nothing EXCEPT !.do = "hand", !.key = g.key]
<1>1. Free /\ Do(g.w, then)
      /\ UNCHANGED <<disk, txns, rpc, unlocked, timer, handed, posted, crashes, unlocks>>
  BY DEF GetNewAddress
<1>2. OK(v) /\ v.disk = disk /\ v.log = <<>> /\ v.made = made /\ v.mem = mem
  BY <1>1, FromCurrent
<1>3. /\ OK(g.w) /\ Reach(v, g.w, {}) /\ (~IsLocked => Keeps(v, g.w))
      /\ g.key \in 0 .. g.w.made
      /\ ~g.throws => g.key \notin Listed(g.w.disk)
  BY <1>2, KeyGot
<1>4. then = Nothing \/ (~g.throws /\ then = [Nothing EXCEPT !.do = "hand", !.key = g.key])
  OBVIOUS
<1>0. Current = v
  OBVIOUS
<1> HIDE DEF g, v, then
<1>5. /\ Sound' /\ Saved' /\ SentAreDisjoint'
      /\ Now' = g.w /\ after' = then /\ made <= made' /\ made' = g.w.made
      /\ mem.txs \subseteq mem'.txs /\ mem'.txs \subseteq mem.txs
      /\ disk'.txs \subseteq mem'.txs /\ mem'.useCrypto = mem.useCrypto
      /\ Now'.disk = g.w.disk
  BY <1>1, <1>2, <1>3, Operation
<1>6. Ahead' /\ after'.do # "post"
  BY <1>3, <1>4, <1>5, AheadOf
<1>7. made \in Nat /\ made' \in Nat
  BY <1>3, <1>5, Sizes DEF OK
<1>8. Known' /\ Timed'
  BY <1>1, <1>5, <1>7, KnownKept, TimedKept
<1>9. Pending'
  BY <1>0, <1>1, <1>3, <1>5, <1>6, <1>7, PendingKept
<1> QED
  BY <1>5, <1>6, <1>8, <1>9 DEF WInv

(* KeypoolRefill *)
LEMMA KeypoolRefillInv ==
    ASSUME WInv, KeypoolRefill PROVE WInv'
<1> DEFINE v == Current
           u == TopUpKeyPool(v)
<1>1. Free /\ Do(u, Nothing)
      /\ UNCHANGED <<disk, txns, rpc, unlocked, timer, handed, posted, crashes, unlocks>>
  BY DEF KeypoolRefill
<1>2. OK(v) /\ v.disk = disk /\ v.log = <<>> /\ v.made = made /\ v.mem = mem
  BY <1>1, FromCurrent
<1>3. OK(u) /\ Reach(v, u, {}) /\ Keeps(v, u)
  BY <1>2, PoolToppedUp
<1>0. Current = v
  OBVIOUS
<1> HIDE DEF u, v
<1>5. /\ Sound' /\ Saved' /\ SentAreDisjoint'
      /\ Now' = u /\ after' = Nothing /\ made <= made' /\ made' = u.made
      /\ mem.txs \subseteq mem'.txs /\ mem'.txs \subseteq mem.txs
      /\ disk'.txs \subseteq mem'.txs /\ mem'.useCrypto = mem.useCrypto
  BY <1>1, <1>2, <1>3, Operation
<1>6. Ahead' /\ after'.do # "post"
  BY <1>5, AheadOf
<1>7. made \in Nat /\ made' \in Nat
  BY <1>3, <1>5, Sizes DEF OK
<1>8. Known' /\ Timed'
  BY <1>1, <1>5, <1>7, KnownKept, TimedKept
<1>9. Pending'
  BY <1>0, <1>1, <1>3, <1>5, <1>6, <1>7, PendingKept
<1> QED
  BY <1>5, <1>6, <1>8, <1>9 DEF WInv

(* An order of a finite set has its elements and no others. *)
LEMMA OrderIs ==
    ASSUME NEW S, IsFiniteSet(S), NEW order \in SetToSeqs(S)
    PROVE  /\ Len(order) \in Nat
           /\ \A i \in 1 .. Len(order) : order[i] \in S
           /\ \A c \in S : \E i \in 1 .. Len(order) : order[i] = c
<1> DEFINE n == Cardinality(S)
           D == 1 .. n
<1>1. n \in Nat
  BY FS_CardinalityType
<1>2. order \in [D -> S] /\ \A i, j \in D : i # j => order[i] # order[j]
  BY DEF SetToSeqs
<1>3. IsFiniteSet(D) /\ Cardinality(D) = n
  <2> HIDE DEF n
  <2>1. IsFiniteSet(1 .. n) /\ Cardinality(1 .. n) = IF 1 > n THEN 0 ELSE n - 1 + 1
    BY <1>1, FS_Interval
  <2> QED
    BY <1>1, <2>1
<1>4. order \in Injection(D, S)
  <2> HIDE DEF n, D
  <2> QED
    BY <1>2 DEF Injection, IsInjective
<1>5. order \in Surjection(D, S)
  <2> HIDE DEF D
  <2> QED
    BY <1>3, <1>4, FS_Injection
<1> HIDE DEF n
<1>6. Len(order) = n /\ order \in Seq(S)
  BY <1>1, <1>2
<1>7. \A c \in S : \E i \in D : order[i] = c
  <2> HIDE DEF D
  <2> QED
    BY <1>5 DEF Surjection
<1> QED
  BY <1>1, <1>2, <1>6, <1>7

(* The transactions there are, and one more *)
LEMMA KnownGrows ==
    ASSUME WInv, NEW t \in Txns, NEW x, x.ins \subseteq DOMAIN txns, x.key \in 0 .. made,
           DOMAIN txns' = DOMAIN txns \cup {t}, txns'[t] = x,
           \A u \in DOMAIN txns : txns'[u] = txns[u],
           made \in Nat, made' \in Nat, made <= made',
           mem'.txs \subseteq mem.txs \cup {t}, disk'.txs \subseteq mem'.txs
    PROVE  Known'
<1>1. Known
  BY DEF WInv
<1>2. DOMAIN txns' \subseteq Txns /\ IsFiniteSet(DOMAIN txns')
  BY <1>1, FS_AddElement DEF Known
<1>3. ASSUME NEW u \in DOMAIN txns'
      PROVE  txns'[u].ins \subseteq DOMAIN txns' /\ txns'[u].key \in 0 .. made'
  <2>1. CASE u = t
    BY <2>1
  <2>2. CASE u # t
    <3>1. u \in DOMAIN txns /\ txns'[u] = txns[u]
      BY <2>2
    <3>2. txns[u].ins \subseteq DOMAIN txns /\ txns[u].key \in 0 .. made
      BY <1>1, <3>1 DEF Known
    <3> QED
      BY <3>1, <3>2
  <2> QED
    BY <2>1, <2>2
<1>4. mem'.txs \subseteq DOMAIN txns' /\ disk'.txs \subseteq mem'.txs
  BY <1>1 DEF Known
<1> QED
  BY <1>2, <1>3, <1>4 DEF Known

(* A call of the node thread, for transaction t, which is x *)
LEMMA NotifyInv ==
    ASSUME WInv, NEW t \in Txns, NEW x, NEW inBlock, x.ins \subseteq DOMAIN txns,
           x.key \in 0 .. made, t \in DOMAIN txns => x = txns[t], Notify(t, x, inBlock)
    PROVE  WInv'
<1> DEFINE v == Current
<1>1. Free /\ txns' = [u \in DOMAIN txns \cup {t} |-> IF u = t THEN x ELSE txns[u]]
      /\ UNCHANGED <<disk, rpc, unlocked, timer, handed, posted, crashes, unlocks>>
  BY DEF Notify
<1>2. PICK order \in SetToSeqs(x.ins) : \E a \in {Accepted(t, x, order, inBlock)} :
           Do(a.w, IF a.throws THEN [Nothing EXCEPT !.do = "exit"]
                   ELSE IF a.key = NoKey THEN Nothing
                   ELSE [Nothing EXCEPT !.do = "hand", !.key = a.key])
  BY DEF Notify
<1> DEFINE a == Accepted(t, x, order, inBlock)
           then == IF a.throws THEN [Nothing EXCEPT !.do = "exit"]
                   ELSE IF a.key = NoKey THEN Nothing
                   ELSE [Nothing EXCEPT !.do = "hand", !.key = a.key]
<1>3. Do(a.w, then)
  BY <1>2
<1>4. \/ then = Nothing
      \/ then = [Nothing EXCEPT !.do = "exit"]
      \/ then = [Nothing EXCEPT !.do = "hand", !.key = a.key]
  OBVIOUS
<1>5. OK(v) /\ v.disk = disk /\ v.log = <<>> /\ v.made = made /\ v.mem = mem
  BY <1>1, FromCurrent
<1>6. Len(order) \in Nat
  <2>1. IsFiniteSet(x.ins)
    BY FS_Subset DEF WInv, Known
  <2> QED
    BY <2>1, OrderIs
<1>7. Added(v, a, {t})
  BY <1>5, <1>6, NodeAccepted
<1>8. Current = v
  OBVIOUS
<1> HIDE DEF a, v, then
<1>9. OK(a.w) /\ Reach(v, a.w, {t}) /\ (~IsLocked => Keeps(v, a.w))
      /\ a.key \in 0 .. a.w.made /\ a.key \notin Listed(a.w.disk)
  BY <1>7 DEF Added
<1>10. /\ DOMAIN txns' = DOMAIN txns \cup {t} /\ txns'[t] = x
       /\ \A u \in DOMAIN txns : txns'[u] = txns[u]
  BY <1>1
<1>11. posted \subseteq DOMAIN txns
  BY DEF WInv, Saved
<1>12. /\ Sound' /\ Saved' /\ SentAreDisjoint'
       /\ Now' = a.w /\ after' = then /\ made <= made' /\ made' = a.w.made
       /\ mem.txs \subseteq mem'.txs /\ mem'.txs \subseteq mem.txs \cup {t}
       /\ disk'.txs \subseteq mem'.txs /\ mem'.useCrypto = mem.useCrypto
       /\ Now'.disk = a.w.disk
  BY <1>1, <1>3, <1>5, <1>9, <1>10, <1>11, Operation
<1>13. Ahead' /\ after'.do # "post"
  BY <1>4, <1>9, <1>12, AheadOf
<1>14. made \in Nat /\ made' \in Nat
  BY <1>9, <1>12, Sizes DEF OK
<1>15. Timed'
  BY <1>1, <1>12, TimedKept
<1>16. Pending'
  BY <1>1, <1>8, <1>9, <1>10, <1>11, <1>12, <1>13, <1>14, PendingKept
<1>17. Known'
  BY <1>10, <1>12, <1>14, KnownGrows
<1> QED
  BY <1>12, <1>13, <1>15, <1>16, <1>17 DEF WInv

(* Receive *)
LEMMA ReceiveInv ==
    ASSUME WInv, Receive PROVE WInv'
<1>1. PICK t \in Pays \ DOMAIN txns, inBlock \in BOOLEAN :
         \/ \E k \in handed, byHash \in BOOLEAN :
               Notify(t, [ins |-> {}, key |-> k, byHash |-> byHash], inBlock)
         \/ \E u \in mem.txs :
               Notify(t, [ins |-> {u}, key |-> NoKey, byHash |-> TRUE], inBlock)
  BY DEF Receive
<1>2. t \in Txns
  BY DEF Txns
<1>3. ASSUME NEW k \in handed, NEW byHash \in BOOLEAN,
             Notify(t, [ins |-> {}, key |-> k, byHash |-> byHash], inBlock)
      PROVE  WInv'
  <2> DEFINE x == [ins |-> {}, key |-> k, byHash |-> byHash]
  <2>1. x.ins \subseteq DOMAIN txns
    OBVIOUS
  <2>2. x.key \in 0 .. made
    <3>1. k \in 1 .. made /\ made \in Nat
      BY Sizes DEF WInv, Saved
    <3> QED
      BY <3>1
  <2> HIDE DEF x
  <2>3. Notify(t, x, inBlock)
    BY <1>3 DEF x
  <2> QED
    BY <1>2, <2>1, <2>2, <2>3, NotifyInv
<1>4. ASSUME NEW u \in mem.txs,
             Notify(t, [ins |-> {u}, key |-> NoKey, byHash |-> TRUE], inBlock)
      PROVE  WInv'
  <2> DEFINE x == [ins |-> {u}, key |-> NoKey, byHash |-> TRUE]
  <2>1. x.ins \subseteq DOMAIN txns
    BY DEF WInv, Known
  <2>2. x.key \in 0 .. made
    BY Sizes DEF NoKey
  <2> HIDE DEF x
  <2>3. Notify(t, x, inBlock)
    BY <1>4 DEF x
  <2> QED
    BY <1>2, <2>1, <2>2, <2>3, NotifyInv
<1> QED
  BY <1>1, <1>3, <1>4

(* Confirm *)
LEMMA ConfirmInv ==
    ASSUME WInv, Confirm PROVE WInv'
<1>1. PICK t \in (Pays \cap DOMAIN txns) \cup posted, inBlock \in BOOLEAN :
         Notify(t, txns[t], inBlock)
  BY DEF Confirm
<1>2. t \in DOMAIN txns /\ t \in Txns
  BY DEF WInv, Saved, Known
<1>3. txns[t].ins \subseteq DOMAIN txns /\ txns[t].key \in 0 .. made
  BY <1>2 DEF WInv, Known
<1> QED
  BY <1>1, <1>2, <1>3, NotifyInv


(* The coins of a transaction that is created are the wallet's, and not     *)
(* those of one that was posted.                                            *)
LEMMA CoinsAreUnspent ==
    ASSUME WInv, Free, NEW ins \in SUBSET Spendable
    PROVE  ins \subseteq mem.txs /\ \A t \in posted : ins \cap txns[t].ins = {}
<1>1. mem.spent = disk.spent
  BY FromCurrent DEF OK, Agree
<1>2. ASSUME NEW t \in posted PROVE txns[t].ins \subseteq disk.spent
  BY DEF WInv, Saved
<1> QED
  BY <1>1, <1>2 DEF Spendable

(* What is there to show of Create, for a wallet that becomes w             *)
LEMMA Created ==
    ASSUME WInv, Free, ~IsLocked, NEW w, NEW ins \in SUBSET Spendable, NEW pc \in {"created", "failed"},
           NEW i \in 0 .. w.made, NEW k \in 0 .. w.made, i = NoKey => k = NoKey,
           OK(w), Reach(Current, w, {}), Reserved(w, i, k), Do(w, Nothing),
           rpc' = [pc |-> pc, ins |-> ins, index |-> i, key |-> k],
           UNCHANGED <<disk, txns, unlocked, timer, handed, posted, crashes, unlocks>>
    PROVE  WInv'
<1> DEFINE v == Current
<1>1. OK(v) /\ v.disk = disk /\ v.log = <<>> /\ v.made = made /\ v.mem = mem
  BY FromCurrent
<1>2. Reach(v, w, {})
  OBVIOUS
<1> HIDE DEF v
<1>3. /\ Sound' /\ Saved' /\ SentAreDisjoint'
      /\ Now' = w /\ after' = Nothing /\ made <= made' /\ made' = w.made
      /\ mem.txs \subseteq mem'.txs /\ mem'.txs \subseteq mem.txs
      /\ disk'.txs \subseteq mem'.txs /\ mem'.useCrypto = mem.useCrypto
  BY <1>1, <1>2, Operation
<1>4. Ahead' /\ after'.do # "post"
  BY <1>3, AheadOf
<1>5. made \in Nat /\ made' \in Nat
  BY <1>3, Sizes DEF OK
<1>6. Known' /\ Timed'
  BY <1>3, <1>5, KnownKept, TimedKept
<1>7. Pending'
  <2>1. /\ rpc'.pc = pc /\ rpc'.ins = ins /\ rpc'.index = i /\ rpc'.key = k
        /\ rpc' = [pc |-> rpc'.pc, ins |-> rpc'.ins, index |-> rpc'.index, key |-> rpc'.key]
    OBVIOUS
  <2>2. ~IsLocked'
    BY <1>3 DEF IsLocked
  <2>3. ins \subseteq mem.txs /\ \A t \in posted : ins \cap txns[t].ins = {}
    BY CoinsAreUnspent
  <2>4. rpc'.pc \in {"idle", "created", "failed"} /\ rpc'.pc # "idle"
    BY <2>1
  <2>5. rpc'.index \in 0 .. made' /\ rpc'.key \in 0 .. made' /\ (rpc'.index = NoKey => rpc'.key = NoKey)
    BY <1>3, <2>1
  <2>6. rpc'.ins \subseteq mem'.txs /\ \A t \in posted' : rpc'.ins \cap txns'[t].ins = {}
    BY <1>3, <2>1, <2>3
  <2>7. Reserved(Now', rpc'.index, rpc'.key)
    BY <1>3, <2>1
  <2> HIDE DEF IsLocked, Now
  <2> QED
    BY <1>4, <2>1, <2>2, <2>4, <2>5, <2>6, <2>7 DEF Pending
<1> QED
  BY <1>3, <1>4, <1>6, <1>7 DEF WInv

(* Create *)
LEMMA CreateInv ==
    ASSUME WInv, Create PROVE WInv'
<1>1. Free /\ ~IsLocked /\ UNCHANGED <<disk, txns, unlocked, timer, handed, posted, crashes, unlocks>>
  BY DEF Create
<1>2. PICK ins \in (SUBSET Spendable) \ {{}}, change \in BOOLEAN, fails \in BOOLEAN :
         IF change
         THEN LET r == Reserve(Current)
              IN  /\ Do(r.w, Nothing)
                  /\ rpc' = [pc |-> IF fails \/ r.throws THEN "failed" ELSE "created",
                             ins |-> ins, index |-> r.index, key |-> r.key]
         ELSE /\ Do(Current, Nothing)
              /\ rpc' = [Idle EXCEPT !.pc = "created", !.ins = ins]
  BY DEF Create
<1>3. ins \in SUBSET Spendable
  BY <1>2
<1>4. OK(Current) /\ Current.made = made
  BY <1>1, FromCurrent
<1>5. CASE change
  <2> DEFINE v == Current
             r == Reserve(v)
             pc == IF fails \/ r.throws THEN "failed" ELSE "created"
  <2>1. /\ OK(r.w) /\ Reach(v, r.w, {}) /\ Reserved(r.w, r.index, r.key)
        /\ r.index \in 0 .. r.w.made /\ r.key \in 0 .. r.w.made /\ (r.index = NoKey => r.key = NoKey)
    BY <1>1, <1>4, KeyReserved
  <2>2. Do(r.w, Nothing) /\ rpc' = [pc |-> pc, ins |-> ins, index |-> r.index, key |-> r.key]
    BY <1>2, <1>5
  <2>3. pc \in {"created", "failed"}
    OBVIOUS
  <2>4. v = Current
    OBVIOUS
  <2> HIDE DEF r, v, pc
  <2> QED
    BY <1>1, <1>3, <2>1, <2>2, <2>3, <2>4, Created
<1>6. CASE ~change
  <2>1. Do(Current, Nothing) /\ rpc' = [Idle EXCEPT !.pc = "created", !.ins = ins]
    BY <1>2, <1>6
  <2>2. rpc' = [pc |-> "created", ins |-> ins, index |-> NoKey, key |-> NoKey]
    <3> DEFINE h == "created"
               c == [Idle EXCEPT !.pc = h]
    <3>1. Idle.index = NoKey /\ Idle.key = NoKey
          /\ Idle = [pc |-> Idle.pc, ins |-> Idle.ins, index |-> Idle.index, key |-> Idle.key]
      BY DEF Idle
    <3>2. rpc' = [c EXCEPT !.ins = ins]
      BY <2>1
    <3> HIDE DEF h
    <3>3. c = [pc |-> h, ins |-> Idle.ins, index |-> Idle.index, key |-> Idle.key]
      BY <3>1
    <3> HIDE DEF c
    <3>4. [c EXCEPT !.ins = ins] = [pc |-> h, ins |-> ins, index |-> Idle.index, key |-> Idle.key]
      BY <3>3
    <3>5. rpc' = [pc |-> h, ins |-> ins, index |-> NoKey, key |-> NoKey]
      BY <3>1, <3>2, <3>4
    <3> QED
      BY <3>5 DEF h
  <2>3. Reach(Current, Current, {}) /\ Reserved(Current, NoKey, NoKey)
    BY <1>4, ReachSelf DEF Reserved
  <2>4. NoKey \in 0 .. Current.made
    BY <1>4, Sizes DEF NoKey
  <2>5. "created" \in {"created", "failed"}
    OBVIOUS
  <2> QED
    BY <1>1, <1>3, <1>4, <2>1, <2>2, <2>3, <2>4, <2>5, Created
<1> QED
  BY <1>2, <1>5, <1>6

(* Idle is nothing under way. *)
LEMMA IdleIs ==
    ASSUME WInv, rpc' = Idle, made' \in Nat PROVE Pending'
<1>1. /\ rpc'.pc = "idle" /\ rpc'.ins = {} /\ rpc'.index = NoKey /\ rpc'.key = NoKey
      /\ rpc' = [pc |-> rpc'.pc, ins |-> rpc'.ins, index |-> rpc'.index, key |-> rpc'.key]
  BY DEF Idle
<1>2. Reserved(Now', rpc'.index, rpc'.key)
  BY <1>1 DEF Reserved
<1>3. rpc'.index \in 0 .. made' /\ rpc'.key \in 0 .. made'
  BY <1>1 DEF NoKey
<1> HIDE DEF Now
<1> QED
  BY <1>1, <1>2, <1>3 DEF Pending

(* Fail *)
LEMMA FailInv ==
    ASSUME WInv, Fail PROVE WInv'
<1> DEFINE v == Current
           w == ReturnKey(v, rpc.index)
<1>1. Free /\ Do(w, Nothing) /\ rpc' = Idle
      /\ UNCHANGED <<disk, txns, unlocked, timer, handed, posted, crashes, unlocks>>
  BY DEF Fail
<1>2. OK(v) /\ v.disk = disk /\ v.log = <<>> /\ v.made = made /\ v.mem = mem
  BY <1>1, FromCurrent
<1>3. Reserved(v, rpc.index, rpc.key) /\ rpc.index \in 0 .. v.made
  BY <1>1, <1>2, NowIsCurrent DEF WInv, Pending
<1>4. OK(w) /\ Reach(v, w, {})
  <2>1. CASE rpc.index = NoKey
    <3>1. w = v
      BY <2>1 DEF ReturnKey
    <3> HIDE DEF v, w
    <3> QED
      BY <1>2, <3>1, ReachSelf
  <2>2. CASE rpc.index # NoKey
    <3> DEFINE S == v.mem.pool \cup {rpc.index}
               m == [txs |-> v.mem.txs, spent |-> v.mem.spent, placed |-> v.mem.placed,
                     pool |-> S, defaultKey |-> v.mem.defaultKey,
                     kind |-> v.mem.kind, useCrypto |-> v.mem.useCrypto]
    <3>1. w = [v EXCEPT !.mem.pool = S]
      BY <2>2 DEF ReturnKey
    <3>2. v.made \in Nat /\ v.mem.pool \subseteq 1 .. v.made /\ Agree(v.mem, v.disk)
      BY <1>2 DEF OK, IsMemory
    <3>3. S \subseteq 1 .. v.made
      BY <1>3, <2>2, <3>2 DEF NoKey
    <3>4. S \subseteq DOMAIN v.disk.pool
      BY <1>3, <2>2, <3>2 DEF Reserved, Agree
    <3> HIDE DEF v, w, S
    <3>5. w = [mem |-> m, disk |-> v.disk, log |-> v.log, made |-> v.made] /\ IsMemory(m, v.made)
      BY <1>2, <3>1, <3>3, PoolIs
    <3>6. /\ m.txs = v.mem.txs /\ m.spent = v.mem.spent /\ m.placed = v.mem.placed /\ m.pool = S
          /\ m.useCrypto = v.mem.useCrypto
      OBVIOUS
    <3> HIDE DEF m
    <3>7. IsRecord(w) /\ w.mem = m /\ w.disk = v.disk /\ w.log = v.log /\ w.made = v.made
      BY <3>5 DEF IsRecord
    <3>8. Agree(m, v.disk)
      BY <3>2, <3>4, <3>6 DEF Agree
    <3> QED
      BY <1>2, <3>5, <3>6, <3>7, <3>8, Changed
  <2> QED
    BY <2>1, <2>2
<1> HIDE DEF v, w
<1>5. /\ Sound' /\ Saved' /\ SentAreDisjoint'
      /\ Now' = w /\ after' = Nothing /\ made <= made' /\ made' = w.made
      /\ mem.txs \subseteq mem'.txs /\ mem'.txs \subseteq mem.txs
      /\ disk'.txs \subseteq mem'.txs /\ mem'.useCrypto = mem.useCrypto
  BY <1>1, <1>2, <1>4, Operation
<1>6. Ahead'
  BY <1>5, AheadOf
<1>7. made \in Nat /\ made' \in Nat
  BY <1>4, <1>5, Sizes DEF OK
<1>8. Known' /\ Timed' /\ Pending'
  BY <1>1, <1>5, <1>7, KnownKept, TimedKept, IdleIs
<1> QED
  BY <1>5, <1>6, <1>8 DEF WInv

(* What CommitTransaction makes of a wallet v, for transaction t, which is  *)
(* x: t is saved, its coins are marked, and its key is in no pool.          *)
LEMMA Committed ==
    ASSUME NEW v, OK(v), NEW t \in Txns, NEW x, NEW i \in Nat, NEW k \in 0 .. v.made,
           i # NoKey => i \in DOMAIN v.disk.pool /\ i \notin v.mem.pool /\ v.disk.pool[i] = k,
           i = NoKey => k = NoKey,
           NEW order, Len(order) \in Nat, \A j \in 1 .. Len(order) : order[j] \in v.mem.txs
    PROVE  LET a == AddToWallet(KeepKey(v, i), t, x, order, FALSE)
               m == MarkedAll(a.w, order)[Len(order)]
           IN  /\ OK(m) /\ Reach(v, m, {t})
               /\ t \in m.disk.txs /\ \A j \in 1 .. Len(order) : order[j] \in m.disk.spent
               /\ k \notin Listed(m.disk)
<1> DEFINE c == KeepKey(v, i)
           a == AddToWallet(c, t, x, order, FALSE)
           b == a.w
           m == MarkedAll(b, order)[Len(order)]
<1>1. /\ OK(c) /\ Reach(v, c, {t}) /\ c.made = v.made
      /\ i # NoKey => k \notin Listed(c.disk)
  <2>1. i # NoKey => i \in DOMAIN v.disk.pool /\ i \notin v.mem.pool
    OBVIOUS
  <2>2. /\ OK(c) /\ Reach(v, c, {t}) /\ c.made = v.made
        /\ i # NoKey => v.disk.pool[i] \notin Listed(c.disk)
    BY <2>1, KeptKey
  <2> HIDE DEF c
  <2> QED
    BY <2>2
<1> HIDE DEF c
<1>2. Added(c, a, {t}) /\ t \in a.w.disk.txs
  <2>1. t \in {t} \cap Txns
    OBVIOUS
  <2> QED
    BY <1>1, <2>1, WalletAdded
<1> HIDE DEF a
<1>3. OK(b) /\ Reach(c, b, {t}) /\ t \in b.disk.txs
  BY <1>2 DEF Added
<1> HIDE DEF b
<1>4. v.made \in Nat /\ b.made \in Nat /\ c.made \in Nat
  BY <1>1, <1>3 DEF OK
<1>5. Reach(v, b, {t})
  BY <1>1, <1>3, <1>4, ReachOn
<1>6. v.mem.txs \subseteq b.mem.txs
  <2>1. v.mem.txs = v.disk.txs /\ b.mem.txs = b.disk.txs
    BY <1>3 DEF OK, Agree
  <2>2. v.disk.txs \subseteq b.disk.txs
    BY <1>5 DEF Reach, More
  <2> QED
    BY <2>1, <2>2
<1>7. Marking(b, m, {t}) /\ \A j \in 1 .. Len(order) : order[j] \in m.disk.spent
  BY <1>3, <1>6, AllMarked
<1> HIDE DEF m
<1>8. OK(m) /\ Reach(b, m, {t}) /\ Listed(m.disk) = Listed(b.disk)
  BY <1>7 DEF Marking
<1>9. m.made \in Nat
  BY <1>8 DEF OK
<1>10. Reach(v, m, {t})
  BY <1>4, <1>5, <1>8, <1>9, ReachOn
<1>11. t \in m.disk.txs
  BY <1>3, <1>8 DEF Reach, More
<1>12. k \notin Listed(m.disk)
  <2>1. CASE i = NoKey
    BY <1>8, <2>1, NoKeyUnlisted
  <2>2. CASE i # NoKey
    <3>1. IsDisk(v.disk, v.made)
      BY DEF OK, Disks
    <3>2. k \in 1 .. c.made
      BY <1>1, <2>2, <3>1 DEF IsDisk
    <3>3. k \in Listed(b.disk) => k \in Listed(c.disk)
      BY <1>3, <3>2 DEF Reach, More
    <3> QED
      BY <1>1, <1>8, <2>2, <3>3
  <2> QED
    BY <2>1, <2>2
<1>13. /\ OK(m) /\ Reach(v, m, {t})
       /\ t \in m.disk.txs /\ \A j \in 1 .. Len(order) : order[j] \in m.disk.spent
       /\ k \notin Listed(m.disk)
  BY <1>7, <1>8, <1>10, <1>11, <1>12
<1> QED
  BY <1>13 DEF m, b, a, c

(* CommitTransaction *)
LEMMA CommitTransactionInv ==
    ASSUME WInv, CommitTransaction PROVE WInv'
<1> DEFINE v == Current
           x == [ins |-> rpc.ins, key |-> rpc.key, byHash |-> TRUE]
<1>1. Free /\ rpc.pc = "created" /\ rpc' = Idle
      /\ UNCHANGED <<disk, unlocked, timer, handed, posted, crashes, unlocks>>
  BY DEF CommitTransaction
<1>2. PICK t \in Sends \ DOMAIN txns, order \in SetToSeqs(rpc.ins) :
       LET a == AddToWallet(KeepKey(v, rpc.index), t, x, order, FALSE)
           m == MarkedAll(a.w, order)[Len(order)]
       IN  /\ txns' = [u \in DOMAIN txns \cup {t} |-> IF u = t THEN x ELSE txns[u]]
           /\ Do(m, [do |-> "post", key |-> rpc.key, tx |-> t])
  BY DEF CommitTransaction
<1> DEFINE a == AddToWallet(KeepKey(v, rpc.index), t, x, order, FALSE)
           m == MarkedAll(a.w, order)[Len(order)]
           then == [do |-> "post", key |-> rpc.key, tx |-> t]
<1>3. Do(m, then) /\ txns' = [u \in DOMAIN txns \cup {t} |-> IF u = t THEN x ELSE txns[u]]
  BY <1>2
<1>4. OK(v) /\ v.disk = disk /\ v.log = <<>> /\ v.made = made /\ v.mem = mem
  BY <1>1, FromCurrent
<1>5. /\ rpc.ins \subseteq mem.txs /\ rpc.index \in 0 .. made /\ rpc.key \in 0 .. made
      /\ rpc.index = NoKey => rpc.key = NoKey
      /\ Reserved(v, rpc.index, rpc.key)
      /\ \A u \in posted : rpc.ins \cap txns[u].ins = {}
  BY <1>1, NowIsCurrent DEF WInv, Pending
<1>6. mem.txs \subseteq DOMAIN txns /\ IsFiniteSet(DOMAIN txns)
  BY DEF WInv, Known
<1>7. IsFiniteSet(rpc.ins)
  BY <1>5, <1>6, FS_Subset
<1>8. /\ Len(order) \in Nat /\ \A j \in 1 .. Len(order) : order[j] \in rpc.ins
      /\ \A c \in rpc.ins : \E j \in 1 .. Len(order) : order[j] = c
  BY <1>7, OrderIs
<1>9. t \in Txns
  BY DEF Txns
<1>10. x.ins = rpc.ins /\ x.key = rpc.key
  OBVIOUS
<1>11. then.do = "post" /\ then.key = rpc.key /\ then.tx = t
       /\ then = [do |-> then.do, key |-> then.key, tx |-> then.tx]
  OBVIOUS
<1> HIDE DEF v, x, then
<1>12. /\ OK(m) /\ Reach(v, m, {t})
       /\ t \in m.disk.txs /\ \A j \in 1 .. Len(order) : order[j] \in m.disk.spent
       /\ rpc.key \notin Listed(m.disk)
  <2>1. rpc.index # NoKey => rpc.index \in DOMAIN v.disk.pool /\ rpc.index \notin v.mem.pool
                             /\ v.disk.pool[rpc.index] = rpc.key
    BY <1>5 DEF Reserved
  <2>2. rpc.index \in Nat /\ rpc.key \in 0 .. v.made
    BY <1>4, <1>5
  <2>3. \A j \in 1 .. Len(order) : order[j] \in v.mem.txs
    BY <1>4, <1>5, <1>8
  <2> QED
    BY <1>4, <1>5, <1>8, <1>9, <2>1, <2>2, <2>3, Committed
<1> HIDE DEF a, m
<1>13. /\ DOMAIN txns' = DOMAIN txns \cup {t} /\ txns'[t] = x
       /\ \A u \in DOMAIN txns : txns'[u] = txns[u]
  BY <1>3
<1>14. posted \subseteq DOMAIN txns
  BY DEF WInv, Saved
<1>15. /\ Sound' /\ Saved' /\ SentAreDisjoint'
       /\ Now' = m /\ after' = then /\ made <= made' /\ made' = m.made
       /\ mem.txs \subseteq mem'.txs /\ mem'.txs \subseteq mem.txs \cup {t}
       /\ disk'.txs \subseteq mem'.txs /\ mem'.useCrypto = mem.useCrypto
       /\ Now'.disk = m.disk
  BY <1>1, <1>3, <1>4, <1>12, <1>13, <1>14, Operation
<1>16. made \in Nat /\ made' \in Nat
  BY <1>12, <1>15, Sizes DEF OK
<1>17. Timed' /\ Pending'
  BY <1>1, <1>15, <1>16, TimedKept, IdleIs
<1>18. Known'
  <2>1. x.ins \subseteq DOMAIN txns /\ x.key \in 0 .. made
    BY <1>5, <1>6, <1>10
  <2> QED
    BY <1>9, <1>13, <1>15, <1>16, <2>1, KnownGrows
<1>19. Ahead'
  <2>1. after'.do = "post" /\ after'.key = rpc.key /\ after'.tx = t
        /\ after' = [do |-> after'.do, key |-> after'.key, tx |-> after'.tx]
    BY <1>11, <1>15
  <2>2. after'.key \in 0 .. made' /\ after'.key \notin Listed(Now'.disk)
    BY <1>5, <1>12, <1>15, <1>16, <2>1
  <2>3. t \in (Sends \cap DOMAIN txns') \ posted'
    BY <1>1, <1>13, <1>14
  <2>4. t \in Now'.disk.txs /\ txns'[t].ins \subseteq Now'.disk.spent
    BY <1>8, <1>10, <1>12, <1>13, <1>15
  <2>5. \A u \in posted' : txns'[t].ins \cap txns'[u].ins = {}
    BY <1>1, <1>5, <1>10, <1>13, <1>14
  <2> HIDE DEF Now
  <2> QED
    BY <2>1, <2>2, <2>3, <2>4, <2>5 DEF Ahead
<1> QED
  BY <1>15, <1>17, <1>18, <1>19 DEF WInv

----------------------------------------------------------------------------
(* The lock and the timer: nothing else changes. *)
LEMMA LockOnly ==
    ASSUME WInv, UNCHANGED <<mem, disk, writes, after, txns, made, rpc, handed, posted>>,
           rpc = Idle \/ UNCHANGED unlocked
    PROVE  (Sound /\ Saved /\ SentAreDisjoint /\ Known /\ Pending /\ Ahead)'
<1>1. Now' = Now
  BY DEF Now
<1>2. (Sound /\ Saved /\ SentAreDisjoint /\ Known)'
  BY <1>1 DEF WInv, Sound, Saved, SentAreDisjoint, Known
<1>3. Ahead'
  BY <1>1 DEF WInv, Ahead
<1>4. Pending'
  <2>1. CASE rpc = Idle
    BY <2>1, IdleIs, Sizes
  <2>2. CASE UNCHANGED unlocked
    <3>1. IsLocked' <=> IsLocked
      BY <2>2 DEF IsLocked
    <3> QED
      BY <1>1, <3>1 DEF WInv, Pending
  <2> QED
    BY <2>1, <2>2
<1> QED
  BY <1>2, <1>3, <1>4

(* WalletPassphrase *)
LEMMA WalletPassphraseInv ==
    ASSUME WInv, WalletPassphrase PROVE WInv'
<1>1. /\ rpc = Idle /\ mem.useCrypto /\ unlocks < MaxUnlocks /\ unlocked' = TRUE
      /\ timer' = [armed |-> TRUE, due |-> IF timer.armed THEN timer.due + 1 ELSE timer.due]
      /\ unlocks' = unlocks + 1
      /\ UNCHANGED <<mem, disk, writes, after, txns, made, rpc, handed, posted, crashes>>
  BY DEF WalletPassphrase, IsLocked
<1>2. (Sound /\ Saved /\ SentAreDisjoint /\ Known /\ Pending /\ Ahead)'
  BY <1>1, LockOnly
<1>3. Timed
  BY DEF WInv
<1>4. MaxUnlocks \in Nat
  BY WalletAssumption
<1>5. Timed'
  <2>1. /\ timer'.armed = TRUE /\ timer'.due = (IF timer.armed THEN timer.due + 1 ELSE timer.due)
        /\ timer' = [armed |-> timer'.armed, due |-> timer'.due]
    BY <1>1
  <2>2. timer'.due \in Nat /\ unlocks' \in Nat /\ unlocks' <= MaxUnlocks
    BY <1>1, <1>3, <1>4, <2>1 DEF Timed
  <2>3. timer'.due + 1 <= unlocks'
    BY <1>1, <1>3, <2>1 DEF Timed
  <2> QED
    BY <1>1, <2>1, <2>2, <2>3 DEF Timed, UnlockedIsTimed
<1> QED
  BY <1>2, <1>5 DEF WInv

(* ChangeWalletPassphrase and WalletLock *)
LEMMA LocksInv ==
    ASSUME WInv, ChangeWalletPassphrase \/ WalletLock PROVE WInv'
<1>1. /\ rpc = Idle /\ mem.useCrypto /\ unlocked' \in BOOLEAN /\ (unlocked' => unlocked)
      /\ UNCHANGED <<mem, disk, writes, after, txns, made, rpc, timer, handed, posted, crashes, unlocks>>
  <2>1. CASE ChangeWalletPassphrase
    <3>1. /\ rpc = Idle /\ mem.useCrypto
          /\ unlocked' \in {FALSE} \cup (IF OpensWith(TRUE) /\ ~IsLocked THEN {TRUE} ELSE {})
          /\ UNCHANGED <<mem, disk, writes, after, txns, made, rpc, timer, handed, posted, crashes, unlocks>>
      BY <2>1 DEF ChangeWalletPassphrase
    <3>2. unlocked' = FALSE \/ (unlocked' = TRUE /\ ~IsLocked)
      BY <3>1
    <3>3. unlocked \in BOOLEAN
      BY DEF WInv, Timed
    <3> QED
      BY <3>1, <3>2, <3>3 DEF IsLocked
  <2>2. CASE WalletLock
    BY <2>2 DEF WalletLock
  <2> QED
    BY <2>1, <2>2
<1>2. (Sound /\ Saved /\ SentAreDisjoint /\ Known /\ Pending /\ Ahead)'
  BY <1>1, LockOnly
<1>3. Timed'
  BY <1>1 DEF WInv, Timed, UnlockedIsTimed
<1> QED
  BY <1>2, <1>3 DEF WInv

(* TimerExpires *)
LEMMA TimerExpiresInv ==
    ASSUME WInv, TimerExpires PROVE WInv'
<1>1. /\ timer.armed /\ timer' = [armed |-> FALSE, due |-> timer.due + 1]
      /\ UNCHANGED <<mem, disk, writes, after, txns, made, rpc, unlocked, handed, posted, crashes, unlocks>>
  BY DEF TimerExpires
<1>2. (Sound /\ Saved /\ SentAreDisjoint /\ Known /\ Pending /\ Ahead)'
  BY <1>1, LockOnly
<1>3. Timed
  BY DEF WInv
<1>4. /\ timer'.armed = FALSE /\ timer'.due = timer.due + 1
      /\ timer' = [armed |-> timer'.armed, due |-> timer'.due]
  BY <1>1
<1>5. timer'.due \in Nat /\ timer'.due > 0 /\ timer'.due + 0 <= unlocks
  BY <1>1, <1>3, <1>4 DEF Timed
<1>6. Timed'
  BY <1>1, <1>3, <1>4, <1>5 DEF Timed, UnlockedIsTimed
<1> QED
  BY <1>2, <1>6 DEF WInv

(* TimerLocks *)
LEMMA TimerLocksInv ==
    ASSUME WInv, TimerLocks PROVE WInv'
<1>1. /\ rpc = Idle /\ timer.due > 0 /\ timer' = [timer EXCEPT !.due = @ - 1] /\ unlocked' = FALSE
      /\ UNCHANGED <<mem, disk, writes, after, txns, made, rpc, handed, posted, crashes, unlocks>>
  BY DEF TimerLocks
<1>2. (Sound /\ Saved /\ SentAreDisjoint /\ Known /\ Pending /\ Ahead)'
  BY <1>1, LockOnly
<1>3. Timed
  BY DEF WInv
<1>4. /\ timer'.armed = timer.armed /\ timer'.due = timer.due - 1
      /\ timer' = [armed |-> timer'.armed, due |-> timer'.due]
  BY <1>1, <1>3 DEF Timed
<1>5. timer'.due \in Nat /\ timer'.due + (IF timer'.armed THEN 1 ELSE 0) <= unlocks
  BY <1>1, <1>3, <1>4 DEF Timed
<1>6. Timed'
  BY <1>1, <1>3, <1>4, <1>5 DEF Timed, UnlockedIsTimed
<1> QED
  BY <1>2, <1>6 DEF WInv

(* EncryptWallet *)
LEMMA EncryptWalletInv ==
    ASSUME WInv, EncryptWallet PROVE WInv'
<1> DEFINE held == {k \in Keys : mem.kind[k] # "none"}
           kind == [k \in Keys |-> IF k \in held THEN "twisted" ELSE "none"]
           n == [mem EXCEPT !.useCrypto = TRUE]
           m == [n EXCEPT !.kind = kind]
           d == [disk EXCEPT !.twisted = held]
           v == [mem |-> m, disk |-> disk, log |-> <<>>, made |-> made]
           w == [mem |-> m, disk |-> d, log |-> Append(<<>>, d), made |-> made]
<1>1. Free /\ rpc = Idle /\ Do(Write([Current EXCEPT !.mem = m], d), Nothing)
      /\ UNCHANGED <<disk, txns, rpc, unlocked, timer, handed, posted, crashes, unlocks>>
  BY DEF EncryptWallet
<1>2. OK(Current) /\ Current.disk = disk /\ Current.log = <<>> /\ Current.made = made /\ Current.mem = mem
  BY <1>1, FromCurrent
<1>3. /\ IsRecord(Current) /\ made \in Nat /\ IsMemory(mem, made) /\ Agree(mem, disk)
      /\ IsDisk(disk, made)
  BY <1>2 DEF OK, Disks
<1>4. held \subseteq Keys /\ kind \in [Keys -> Kinds]
  BY DEF Kinds
<1>5. Write([Current EXCEPT !.mem = m], d) = w
  <2> HIDE DEF m, d
  <2>1. [Current EXCEPT !.mem = m] = [mem |-> m, disk |-> disk, log |-> <<>>, made |-> made]
    BY <1>2, <1>3, MemoryIs
  <2> DEFINE e == <<>>
  <2> HIDE DEF n, kind, held, v, w, e
  <2>2. Write([mem |-> m, disk |-> disk, log |-> e, made |-> made], d)
          = [mem |-> m, disk |-> d, log |-> Append(e, d), made |-> made]
    BY WriteOn
  <2> QED
    BY <2>1, <2>2, Zenon DEF w, e
<1> HIDE DEF held, kind
<1>6. n = [txs |-> mem.txs, spent |-> mem.spent, placed |-> mem.placed, pool |-> mem.pool,
           defaultKey |-> mem.defaultKey, kind |-> mem.kind, useCrypto |-> TRUE]
  BY <1>3, MemIs DEF IsMemory
<1>7. IsMemoryRecord(n) /\ n.txs = mem.txs /\ n.spent = mem.spent /\ n.placed = mem.placed
      /\ n.pool = mem.pool /\ n.defaultKey = mem.defaultKey /\ n.useCrypto = TRUE
  BY <1>6 DEF IsMemoryRecord
<1> HIDE DEF n
<1>8. m = [txs |-> n.txs, spent |-> n.spent, placed |-> n.placed, pool |-> n.pool,
           defaultKey |-> n.defaultKey, kind |-> kind, useCrypto |-> n.useCrypto]
  <2>1. IsMemoryRecord(n)
    BY <1>7
  <2> HIDE DEF v, w
  <2> QED
    BY <2>1, MemIs
<1>9. IsMemoryRecord(m) /\ m.txs = mem.txs /\ m.spent = mem.spent /\ m.placed = mem.placed
      /\ m.pool = mem.pool /\ m.defaultKey = mem.defaultKey /\ m.kind = kind /\ m.useCrypto = TRUE
  BY <1>7, <1>8 DEF IsMemoryRecord
<1> HIDE DEF m
<1>10. IsMemory(m, made)
  BY <1>3, <1>4, <1>9 DEF IsMemory
<1>11. d = [txs |-> disk.txs, spent |-> disk.spent, placed |-> disk.placed, pool |-> disk.pool,
            defaultKey |-> disk.defaultKey, plain |-> disk.plain, crypted |-> disk.crypted,
            twisted |-> held]
  BY <1>3, DiskIs DEF IsDisk
<1>12. IsDiskRecord(d) /\ d.txs = disk.txs /\ d.spent = disk.spent /\ d.placed = disk.placed
       /\ d.pool = disk.pool /\ d.defaultKey = disk.defaultKey /\ d.plain = disk.plain
       /\ d.crypted = disk.crypted /\ d.twisted = held
  BY <1>11 DEF IsDiskRecord
<1> HIDE DEF d
<1>13. IsDisk(d, made)
  BY <1>3, <1>4, <1>12 DEF IsDisk
<1>14. Agree(m, disk) /\ Agree(m, d)
  BY <1>3, <1>9, <1>12 DEF Agree
<1>15. IsRecord(v) /\ v.mem = m /\ v.disk = disk /\ v.log = <<>> /\ v.made = made
  BY DEF IsRecord
<1>16. IsRecord(w) /\ w.mem = m /\ w.disk = d /\ w.log = Append(<<>>, d) /\ w.made = made
  BY DEF IsRecord
<1> HIDE DEF v, w
<1>17. OK(v)
  <2>1. Disks(v) = {disk}
    <3>1. DOMAIN <<>> = {}
      OBVIOUS
    <3> QED
      BY <1>15, <3>1 DEF Disks
  <2>2. IsLog(<<>>, disk)
    BY DEF IsLog
  <2> QED
    BY <1>3, <1>10, <1>14, <1>15, <2>1, <2>2 DEF OK
<1>18. IsNext(v, v, w, {})
  <2>1. More(disk, d, made)
    BY <1>12 DEF More, Listed
  <2> QED
    BY <1>3, <1>10, <1>12, <1>13, <1>14, <1>15, <1>16, <2>1 DEF IsNext
<1>19. OK(w) /\ Reach(v, w, {})
  <2>1. Reach(v, v, {})
    BY <1>17, ReachSelf
  <2> QED
    BY <1>17, <1>18, <2>1, Written
<1>20. /\ Sound' /\ Saved' /\ SentAreDisjoint'
       /\ Now' = w /\ after' = Nothing /\ made <= made' /\ made' = w.made
       /\ mem.txs \subseteq mem'.txs /\ mem'.txs \subseteq mem.txs
       /\ disk'.txs \subseteq mem'.txs /\ mem'.useCrypto = TRUE
  <2>1. Do(w, Nothing)
    BY <1>1, <1>5
  <2>2. v.mem.txs = mem.txs /\ v.mem.useCrypto = TRUE
    BY <1>9, <1>15
  <2> QED
    BY <1>1, <1>15, <1>17, <1>19, <2>1, <2>2, Operation
<1>21. Ahead'
  BY <1>20, AheadOf
<1>22. made' \in Nat
  BY <1>19, <1>20 DEF OK
<1>23. Known' /\ Pending'
  BY <1>1, <1>20, <1>22, KnownKept, IdleIs
<1>24. Timed'
  BY <1>1, <1>20 DEF WInv, Timed, UnlockedIsTimed
<1> QED
  BY <1>20, <1>21, <1>23, <1>24 DEF WInv

----------------------------------------------------------------------------
(* The disk, and the end of operations *)

(* A sequence is one over its own elements. *)
LEMMA OwnRange ==
    ASSUME NEW S, NEW q \in Seq(S) PROVE q \in Seq({q[i] : i \in DOMAIN q})
<1> DEFINE R == {q[i] : i \in DOMAIN q}
<1>1. Len(q) \in Nat /\ DOMAIN q = 1 .. Len(q) /\ q \in [1 .. Len(q) -> S]
  OBVIOUS
<1>2. \A i \in 1 .. Len(q) : q[i] \in R
  BY <1>1
<1> HIDE DEF R
<1>3. q \in [1 .. Len(q) -> R]
  BY <1>1, <1>2
<1>4. q \in Seq(R)
  BY <1>1, <1>3
<1> QED
  BY <1>4 DEF R

(* WriteToDisk: the disk becomes one of the states that were queued. *)
LEMMA WriteToDiskInv ==
    ASSUME WInv, WriteToDisk PROVE WInv'
<1>1. /\ writes # <<>> /\ disk' = Head(writes) /\ writes' = Tail(writes)
      /\ UNCHANGED <<mem, after, txns, made, rpc, unlocked, timer, handed, posted, crashes, unlocks>>
  BY DEF WriteToDisk
<1> DEFINE L == {writes[i] : i \in DOMAIN writes}
           D == Disks(Now)
           n == Len(writes)
<1>2. /\ OK(Now) /\ Now.log = writes /\ Now.mem = mem /\ Now.made = made
      /\ Now.disk = Last(writes)
  BY <1>1 DEF WInv, Sound, Now
<1>3. writes \in Seq(L) /\ writes[Len(writes)] = Now.disk
  BY <1>1, <1>2 DEF OK, IsLog
<1>4. L \subseteq D
  BY <1>2 DEF Disks
<1>5. n \in Nat /\ n >= 1 /\ DOMAIN writes = 1 .. n /\ Head(writes) = writes[1]
      /\ Tail(writes) \in Seq(L) /\ Len(Tail(writes)) = n - 1
      /\ \A i \in 1 .. n - 1 : Tail(writes)[i] = writes[i + 1]
  BY <1>1, <1>3
<1>6. disk' \in D
  BY <1>1, <1>4, <1>5
<1> HIDE DEF L, D, n
<1>7. (IF writes' = <<>> THEN disk' ELSE Last(writes')) = Now.disk
  <2>1. CASE n = 1
    <3>1. writes' = <<>>
      BY <1>1, <1>5, <2>1
    <3> QED
      BY <1>1, <1>3, <1>5, <2>1, <3>1 DEF n
  <2>2. CASE n # 1
    <3>1. n - 1 \in 1 .. n - 1 /\ (n - 1) + 1 = n /\ n - 1 # 0
      BY <1>5, <2>2
    <3>2. Len(writes') = n - 1 /\ writes' # <<>>
      BY <1>1, <1>5, <3>1
    <3>3. writes'[n - 1] = writes[n]
      BY <1>1, <1>5, <3>1
    <3> QED
      BY <1>3, <3>2, <3>3 DEF Last, n
  <2> QED
    BY <2>1, <2>2
<1>8. Now' = [mem |-> mem, disk |-> Now.disk, log |-> writes', made |-> made]
  BY <1>1, <1>7 DEF Now
<1>9. Now'.disk = Now.disk /\ Now'.mem = mem /\ Now'.log = writes' /\ Now'.made = made /\ IsRecord(Now')
  BY <1>8 DEF IsRecord
<1>10. DOMAIN writes' = 1 .. n - 1 /\ \A i \in DOMAIN writes' : writes'[i] \in D
  <2>1. DOMAIN writes' = 1 .. n - 1
    BY <1>1, <1>5
  <2>2. ASSUME NEW i \in 1 .. n - 1 PROVE writes'[i] \in D
    <3>1. i + 1 \in 1 .. n /\ writes'[i] = writes[i + 1]
      BY <1>1, <1>5
    <3> QED
      BY <1>4, <1>5, <3>1 DEF L
  <2> QED
    BY <2>1, <2>2
<1>11. Disks(Now') \cup {disk'} \subseteq D
  <2>1. Now.disk \in D
    BY DEF D, Disks
  <2>2. Disks(Now') = {Now.disk} \cup {writes'[i] : i \in DOMAIN writes'}
    BY <1>9 DEF Disks
  <2> QED
    BY <1>6, <1>10, <2>1, <2>2
<1>12. IsLog(writes', Now.disk)
  <2>1. writes' \in Seq({writes'[i] : i \in DOMAIN writes'})
    <3>1. Tail(writes) \in Seq({Tail(writes)[i] : i \in DOMAIN Tail(writes)})
      BY <1>5, OwnRange
    <3> QED
      BY <1>1, <3>1
  <2>2. writes' # <<>> => writes'[Len(writes')] = Now.disk
    BY <1>7 DEF Last
  <2> QED
    BY <2>1, <2>2 DEF IsLog
<1>13. \A c \in D : IsDisk(c, made) /\ c.txs \subseteq Now.disk.txs
  BY <1>2 DEF OK, D
<1>14. OK(Now')
  <2>1. made \in Nat /\ IsMemory(mem, made) /\ Agree(mem, Now.disk)
    BY <1>2 DEF OK
  <2> HIDE DEF Now
  <2> QED
    BY <1>9, <1>11, <1>12, <1>13, <2>1 DEF OK
<1>15. Sound'
  BY <1>1, <1>6, <1>13, <1>14 DEF WInv, Sound
<1>16. Saved'
  <2>1. Saved
    BY DEF WInv
  <2>2. ASSUME NEW c \in Disks(Now') \cup {disk'}
        PROVE  /\ posted \subseteq c.txs /\ \A t \in posted : txns[t].ins \subseteq c.spent
               /\ handed \cap Listed(c) = {}
    BY <1>11, <2>1 DEF Saved, D
  <2> QED
    BY <1>1, <2>1, <2>2 DEF Saved
<1>17. SentAreDisjoint'
  BY <1>1 DEF WInv, SentAreDisjoint
<1>18. Known'
  <2>1. Known
    BY DEF WInv
  <2>2. disk'.txs \subseteq mem.txs
    BY <1>2, <1>6, <1>13 DEF OK, Agree
  <2> QED
    BY <1>1, <2>1, <2>2 DEF Known
<1>19. Pending'
  <2>1. Pending
    BY DEF WInv
  <2>2. IsLocked' <=> IsLocked
    BY <1>1 DEF IsLocked
  <2>3. Reserved(Now', rpc.index, rpc.key)
    BY <1>2, <1>9, <2>1 DEF Pending, Reserved
  <2> QED
    BY <1>1, <2>1, <2>2, <2>3 DEF Pending
<1>20. Ahead'
  BY <1>1, <1>9 DEF WInv, Ahead
<1>21. Timed'
  BY <1>1 DEF WInv, Timed, UnlockedIsTimed
<1> QED
  BY <1>15, <1>16, <1>17, <1>18, <1>19, <1>20, <1>21 DEF WInv

(* Finish: what is given or posted is on disk. *)
LEMMA FinishInv ==
    ASSUME WInv, Finish PROVE WInv'
<1>1. /\ writes = <<>> /\ after.do \in {"hand", "post"}
      /\ handed' = handed \cup ({after.key} \ {NoKey})
      /\ posted' = IF after.do = "post" THEN posted \cup {after.tx} ELSE posted
      /\ after' = Nothing
      /\ UNCHANGED <<mem, disk, writes, txns, made, rpc, unlocked, timer, crashes, unlocks>>
  BY DEF Finish
<1>2. Now' = Now /\ Now.disk = disk /\ Disks(Now) = {disk}
  <2>1. DOMAIN <<>> = {}
    OBVIOUS
  <2> QED
    BY <1>1, <2>1 DEF Now, Disks
<1>3. Sound' /\ Known' /\ Timed'
  BY <1>1, <1>2 DEF WInv, Sound, Known, Timed, UnlockedIsTimed
<1>4. Ahead'
  BY <1>1, AheadOf
<1>5. Ahead /\ Saved /\ SentAreDisjoint /\ made \in Nat
  BY Sizes DEF WInv
<1>6. handed' \subseteq 1 .. made' /\ handed' \cap Listed(disk) = {}
  <2>1. handed \subseteq 1 .. made /\ handed \cap Listed(disk) = {}
    BY <1>5 DEF Saved
  <2>2. after.key \in 0 .. made /\ after.key \notin Listed(disk)
    BY <1>1, <1>2, <1>5 DEF Ahead
  <2>3. {after.key} \ {NoKey} \subseteq 1 .. made
    BY <1>5, <2>2 DEF NoKey
  <2> QED
    BY <1>1, <2>1, <2>2, <2>3
<1>7. CASE after.do # "post"
  <2>1. posted' = posted
    BY <1>1, <1>7
  <2>2. Saved'
    BY <1>1, <1>2, <1>5, <1>6, <2>1 DEF Saved
  <2>3. SentAreDisjoint'
    BY <1>1, <1>5, <2>1 DEF SentAreDisjoint
  <2>4. Pending'
    <3>1. after'.do # "post"
      BY <1>1 DEF Nothing
    <3>2. IsLocked' <=> IsLocked
      BY <1>1 DEF IsLocked
    <3> QED
      BY <1>1, <1>2, <2>1, <3>1, <3>2 DEF WInv, Pending
  <2> QED
    BY <1>3, <1>4, <2>2, <2>3, <2>4 DEF WInv
<1>8. CASE after.do = "post"
  <2>1. posted' = posted \cup {after.tx}
    BY <1>1, <1>8
  <2>2. /\ after.tx \in (Sends \cap DOMAIN txns) \ posted
        /\ after.tx \in disk.txs /\ txns[after.tx].ins \subseteq disk.spent
        /\ \A t \in posted : txns[after.tx].ins \cap txns[t].ins = {}
    BY <1>2, <1>5, <1>8 DEF Ahead
  <2>3. Saved'
    <3>1. posted \subseteq Sends \cap DOMAIN txns /\ posted \subseteq disk.txs
          /\ \A t \in posted : txns[t].ins \subseteq disk.spent
      BY <1>5 DEF Saved
    <3>2. posted' \subseteq Sends \cap DOMAIN txns' /\ posted' \subseteq disk.txs
          /\ \A t \in posted' : txns'[t].ins \subseteq disk.spent
      BY <1>1, <2>1, <2>2, <3>1
    <3>3. Disks(Now') \cup {disk'} = {disk}
      BY <1>1, <1>2
    <3> HIDE DEF Now
    <3> QED
      BY <1>1, <1>6, <3>2, <3>3 DEF Saved
  <2>4. SentAreDisjoint'
    BY <1>1, <1>5, <2>1, <2>2 DEF SentAreDisjoint
  <2>5. Pending'
    <3>1. rpc.pc # "created"
      BY <1>8 DEF WInv, Pending
    <3>2. IsLocked' <=> IsLocked
      BY <1>1 DEF IsLocked
    <3> QED
      BY <1>1, <1>2, <3>1, <3>2 DEF WInv, Pending
  <2> QED
    BY <1>3, <1>4, <2>3, <2>4, <2>5 DEF WInv
<1> QED
  BY <1>7, <1>8

(* What is loaded is sound, and agrees with the disk. *)
LEMMA Loaded ==
    ASSUME NEW d, NEW n \in Nat, IsDisk(d, n) PROVE IsMemory(Load(d), n) /\ Agree(Load(d), d)
<1> DEFINE encrypted == d.crypted \cup d.twisted
           gaveUp == encrypted # {} /\ d.plain # {}
           pool == IF gaveUp THEN {} ELSE DOMAIN d.pool
           key == IF gaveUp THEN NoKey ELSE d.defaultKey
           kind == [k \in Keys |->
                      CASE k \in d.plain -> "loaded"
                        [] ~gaveUp /\ k \in d.crypted -> "crypted"
                        [] ~gaveUp /\ k \in d.twisted \ d.crypted -> "twisted"
                        [] OTHER -> "none"]
           crypto == ~gaveUp /\ encrypted # {}
           m == [txs |-> d.txs, spent |-> d.spent, placed |-> d.placed, pool |-> pool,
                 defaultKey |-> key, kind |-> kind, useCrypto |-> crypto]
<1>1. Load(d) = m
  BY Zenon DEF Load
<1>2. kind \in [Keys -> Kinds]
  <2> HIDE DEF gaveUp
  <2> QED
    BY DEF Kinds
<1>3. crypto \in BOOLEAN
  OBVIOUS
<1>4. pool \subseteq DOMAIN d.pool /\ pool \subseteq 1 .. n
  BY DEF IsDisk
<1>5. key \in 0 .. n
  BY DEF IsDisk, NoKey
<1> HIDE DEF pool, key, kind, crypto
<1>6. /\ m.txs = d.txs /\ m.spent = d.spent /\ m.placed = d.placed /\ m.pool = pool
      /\ m.defaultKey = key /\ m.kind = kind /\ m.useCrypto = crypto
      /\ IsMemoryRecord(m)
  BY DEF IsMemoryRecord
<1> HIDE DEF m
<1>7. IsMemory(m, n)
  BY <1>2, <1>3, <1>4, <1>5, <1>6 DEF IsMemory
<1>8. Agree(m, d)
  BY <1>4, <1>6 DEF Agree
<1> QED
  BY <1>1, <1>7, <1>8

(* A wallet with nothing queued *)
LEMMA Settled ==
    ASSUME NEW m, NEW d, NEW n \in Nat, IsMemory(m, n), IsDisk(d, n), Agree(m, d)
    PROVE  LET w == [mem |-> m, disk |-> d, log |-> <<>>, made |-> n] IN OK(w) /\ Disks(w) = {d}
<1> DEFINE w == [mem |-> m, disk |-> d, log |-> <<>>, made |-> n]
<1>1. IsRecord(w) /\ w.mem = m /\ w.disk = d /\ w.log = <<>> /\ w.made = n
  BY DEF IsRecord
<1> HIDE DEF w
<1>2. DOMAIN <<>> = {}
  OBVIOUS
<1>3. Disks(w) = {d}
  BY <1>1, <1>2 DEF Disks
<1>4. IsLog(<<>>, d)
  BY DEF IsLog
<1>5. OK(w)
  BY <1>1, <1>3, <1>4 DEF OK
<1> QED
  BY <1>3, <1>5 DEF w

(* Exit and Crash *)
LEMMA RestartInv ==
    ASSUME WInv, Restart PROVE WInv'
<1>1. /\ mem' = Load(disk) /\ writes' = <<>> /\ after' = Nothing /\ rpc' = Idle
      /\ unlocked' = FALSE /\ timer' = [armed |-> FALSE, due |-> 0]
      /\ UNCHANGED <<disk, txns, made, handed, posted, unlocks>>
  BY DEF Restart
<1>2. made \in Nat /\ IsDisk(disk, made)
  BY Sizes DEF WInv, Sound
<1>3. IsMemory(mem', made) /\ Agree(mem', disk)
  BY <1>1, <1>2, Loaded
<1>4. Now' = [mem |-> mem', disk |-> disk, log |-> <<>>, made |-> made]
  BY <1>1 DEF Now
<1>5. OK(Now') /\ Disks(Now') = {disk}
  <2> DEFINE m == mem'
             w == [mem |-> m, disk |-> disk, log |-> <<>>, made |-> made]
  <2>1. IsMemory(m, made) /\ Agree(m, disk)
    BY <1>3
  <2> HIDE DEF m
  <2>2. OK(w) /\ Disks(w) = {disk}
    BY <1>2, <2>1, Settled
  <2> HIDE DEF w
  <2>3. Now' = w
    BY <1>4 DEF w, m
  <2> QED
    BY <2>2, <2>3
<1>6. Sound'
  BY <1>1, <1>2, <1>5 DEF WInv, Sound
<1>7. Saved'
  <2>1. Saved
    BY DEF WInv
  <2>2. Disks(Now') \cup {disk'} = {disk}
    BY <1>1, <1>5
  <2> HIDE DEF Now
  <2> QED
    BY <1>1, <2>1, <2>2 DEF Saved
<1>8. SentAreDisjoint'
  BY <1>1 DEF WInv, SentAreDisjoint
<1>9. Known'
  <2>1. mem'.txs = disk.txs
    BY <1>3 DEF Agree
  <2> QED
    BY <1>1, <2>1 DEF WInv, Known
<1>10. Pending' /\ Ahead'
  BY <1>1, <1>2, IdleIs, AheadOf
<1>11. Timed'
  <2>1. timer'.armed = FALSE /\ timer'.due = 0
        /\ timer' = [armed |-> timer'.armed, due |-> timer'.due]
    BY <1>1
  <2>2. unlocks \in Nat /\ unlocks <= MaxUnlocks /\ 0 + 0 <= unlocks
    BY DEF WInv, Timed
  <2> QED
    BY <1>1, <2>1, <2>2 DEF Timed, UnlockedIsTimed
<1> QED
  BY <1>6, <1>7, <1>8, <1>9, <1>10, <1>11 DEF WInv

(* The wallet that was just created *)
LEMMA InitInv == Init => WInv
<1> SUFFICES ASSUME Init PROVE WInv
  OBVIOUS
<1> DEFINE n == TargetSize + 1
           pool == [i \in 2 .. n |-> i]
           d == [txs |-> {}, spent |-> {}, placed |-> {}, pool |-> pool,
                 defaultKey |-> 1, plain |-> 1 .. n, crypted |-> {}, twisted |-> {}]
           kind == [k \in Keys |-> IF k <= n THEN "fresh" ELSE "none"]
           m == [Load(d) EXCEPT !.kind = kind]
<1>1. /\ n <= MaxKeys /\ disk = d /\ mem = m /\ made = n
      /\ writes = <<>> /\ after = Nothing /\ txns = << >> /\ rpc = Idle
      /\ unlocked = FALSE /\ timer = [armed |-> FALSE, due |-> 0]
      /\ handed = {1} /\ posted = {} /\ unlocks = 0
  BY DEF Init
<1>2. n \in Nat /\ n >= 1 /\ MaxUnlocks \in Nat /\ MaxKeys \in Nat
  BY WalletAssumption
<1>3. kind \in [Keys -> Kinds]
  BY DEF Kinds
<1>4. /\ DOMAIN pool = 2 .. n /\ \A i \in 2 .. n : pool[i] = i
  OBVIOUS
<1> HIDE DEF pool, n, kind
<1>5. /\ d.txs = {} /\ d.spent = {} /\ d.placed = {} /\ d.pool = pool /\ d.defaultKey = 1
      /\ d.plain = 1 .. n /\ d.crypted = {} /\ d.twisted = {} /\ IsDiskRecord(d)
  BY DEF IsDiskRecord
<1> HIDE DEF d
<1>6. 1 \in 1 .. n /\ DOMAIN d.pool \subseteq 1 .. n /\ \A i \in DOMAIN d.pool : d.pool[i] \in 1 .. n
  BY <1>2, <1>4, <1>5
<1>7. IsDisk(d, n)
  BY <1>4, <1>5, <1>6 DEF IsDisk
<1>8. IsMemory(Load(d), n) /\ Agree(Load(d), d)
  BY <1>2, <1>7, Loaded
<1>9. IsMemory(m, n) /\ Agree(m, d)
  <2> DEFINE l == Load(d)
  <2>1. IsMemory(l, n) /\ Agree(l, d) /\ m = [l EXCEPT !.kind = kind]
    BY <1>8
  <2> HIDE DEF l, m
  <2>2. m = [txs |-> l.txs, spent |-> l.spent, placed |-> l.placed, pool |-> l.pool,
             defaultKey |-> l.defaultKey, kind |-> kind, useCrypto |-> l.useCrypto]
    <3>1. IsMemoryRecord(l)
      BY <2>1 DEF IsMemory
    <3> QED
      BY <2>1, <3>1, MemIs
  <2>3. /\ m.txs = l.txs /\ m.spent = l.spent /\ m.placed = l.placed /\ m.pool = l.pool
        /\ m.defaultKey = l.defaultKey /\ m.kind = kind /\ m.useCrypto = l.useCrypto
        /\ IsMemoryRecord(m)
    BY <2>2 DEF IsMemoryRecord
  <2>4. IsMemory(m, n)
    BY <1>3, <2>1, <2>3 DEF IsMemory
  <2>5. Agree(m, d)
    BY <2>1, <2>3 DEF Agree
  <2> QED
    BY <2>4, <2>5
<1> HIDE DEF m
<1>10. Now = [mem |-> m, disk |-> d, log |-> <<>>, made |-> n]
  BY <1>1 DEF Now
<1>11. OK(Now) /\ Disks(Now) = {d} /\ Now.disk = d
  <2> DEFINE w == [mem |-> m, disk |-> d, log |-> <<>>, made |-> n]
  <2>1. OK(w) /\ Disks(w) = {d}
    BY <1>2, <1>7, <1>9, Settled
  <2>2. w.disk = d
    OBVIOUS
  <2> HIDE DEF w
  <2>3. Now = w
    BY <1>10 DEF w
  <2> QED
    BY <2>1, <2>2, <2>3
<1>12. Sound
  BY <1>1, <1>2, <1>7, <1>11 DEF Sound
<1>13. Saved
  <2>1. 1 \notin Listed(d)
    BY <1>2, <1>4, <1>5 DEF Listed
  <2>2. handed \subseteq 1 .. made
    BY <1>1, <1>6
  <2>3. Disks(Now) \cup {disk} = {d}
    BY <1>1, <1>11
  <2> HIDE DEF Now
  <2> QED
    BY <1>1, <2>1, <2>2, <2>3 DEF Saved
<1>14. SentAreDisjoint
  BY <1>1 DEF SentAreDisjoint
<1>15. Known
  <2>1. DOMAIN txns = {} /\ IsFiniteSet({})
    BY <1>1, FS_EmptySet
  <2>2. mem.txs = {} /\ disk.txs = {}
    BY <1>1, <1>5, <1>9 DEF Agree
  <2> QED
    BY <2>1, <2>2 DEF Known
<1>16. Pending
  <2>1. /\ rpc.pc = "idle" /\ rpc.ins = {} /\ rpc.index = NoKey /\ rpc.key = NoKey
        /\ rpc = [pc |-> rpc.pc, ins |-> rpc.ins, index |-> rpc.index, key |-> rpc.key]
    BY <1>1 DEF Idle
  <2>2. Reserved(Now, rpc.index, rpc.key)
    BY <2>1 DEF Reserved
  <2>3. rpc.index \in 0 .. made /\ rpc.key \in 0 .. made
    BY <1>1, <1>2, <2>1 DEF NoKey
  <2> HIDE DEF Now
  <2> QED
    BY <1>1, <2>1, <2>2, <2>3 DEF Pending
<1>17. Ahead
  <2>1. after.do = "nothing" /\ after = [do |-> after.do, key |-> after.key, tx |-> after.tx]
    BY <1>1 DEF Nothing
  <2> QED
    BY <1>1, <2>1 DEF Ahead
<1>18. Timed
  <2>1. timer.armed = FALSE /\ timer.due = 0 /\ timer = [armed |-> timer.armed, due |-> timer.due]
    BY <1>1
  <2>2. unlocked = FALSE /\ unlocks = 0 /\ unlocks \in Nat /\ unlocks <= MaxUnlocks
    BY <1>1, <1>2
  <2>3. timer.due + (IF timer.armed THEN 1 ELSE 0) <= unlocks
    BY <2>1, <2>2
  <2> HIDE DEF m
  <2> QED
    BY <2>1, <2>2, <2>3 DEF Timed, UnlockedIsTimed
<1> QED
  BY <1>12, <1>13, <1>14, <1>15, <1>16, <1>17, <1>18 DEF WInv

(* A step that changes nothing *)
LEMMA StutterInv ==
    ASSUME WInv, UNCHANGED vars PROVE WInv'
<1>1. UNCHANGED <<mem, disk, writes, after, txns, made, rpc, handed, posted, unlocked, timer, unlocks>>
  BY DEF vars
<1>2. (Sound /\ Saved /\ SentAreDisjoint /\ Known /\ Pending /\ Ahead)'
  BY <1>1, LockOnly
<1>3. Timed'
  BY <1>1 DEF WInv, Timed, UnlockedIsTimed
<1> QED
  BY <1>2, <1>3 DEF WInv

(* Every step *)
LEMMA StepInv ==
    ASSUME WInv, [Next]_vars PROVE WInv'
<1>1. CASE GetNewAddress
  BY <1>1, GetNewAddressInv
<1>2. CASE KeypoolRefill
  BY <1>2, KeypoolRefillInv
<1>3. CASE Create
  BY <1>3, CreateInv
<1>4. CASE Fail
  BY <1>4, FailInv
<1>5. CASE CommitTransaction
  BY <1>5, CommitTransactionInv
<1>6. CASE Receive
  BY <1>6, ReceiveInv
<1>7. CASE Confirm
  BY <1>7, ConfirmInv
<1>8. CASE EncryptWallet
  BY <1>8, EncryptWalletInv
<1>9. CASE WalletPassphrase
  BY <1>9, WalletPassphraseInv
<1>10. CASE ChangeWalletPassphrase \/ WalletLock
  BY <1>10, LocksInv
<1>11. CASE TimerExpires
  BY <1>11, TimerExpiresInv
<1>12. CASE TimerLocks
  BY <1>12, TimerLocksInv
<1>13. CASE WriteToDisk
  BY <1>13, WriteToDiskInv
<1>14. CASE Finish
  BY <1>14, FinishInv
<1>15. CASE Exit \/ Crash
  <2>1. Restart
    BY <1>15 DEF Exit, Crash
  <2> QED
    BY <2>1, RestartInv
<1>16. CASE UNCHANGED vars
  BY <1>16, StutterInv
<1> QED
  BY <1>1, <1>2, <1>3, <1>4, <1>5, <1>6, <1>7, <1>8, <1>9, <1>10, <1>11, <1>12, <1>13, <1>14,
     <1>15, <1>16 DEF Next

----------------------------------------------------------------------------
(* What the invariant says *)

(* A disk is of its type. *)
LEMMA DiskIsTyped ==
    ASSUME WInv, NEW d, IsDisk(d, made) PROVE DiskOK(d)
<1>1. made \in Nat /\ MaxKeys \in Nat /\ made <= MaxKeys /\ made >= 1
  BY Sizes
<1>2. 1 .. made \subseteq Keys
  BY <1>1 DEF Keys
<1>3. Range(d.pool) \subseteq 1 .. made
  BY DEF IsDisk, Range
<1> QED
  BY <1>2, <1>3 DEF DiskOK, IsDisk

(* The types *)
LEMMA TypesHold ==
    ASSUME WInv PROVE TypeOK
<1>1. made \in Nat /\ MaxKeys \in Nat /\ made <= MaxKeys /\ made \in 1 .. MaxKeys
  BY Sizes
<1>2. 1 .. made \subseteq Keys /\ 0 .. made \subseteq Keys \cup {NoKey}
  BY <1>1 DEF Keys, NoKey
<1>3. /\ OK(Now) /\ Now.mem = mem /\ Now.log = writes /\ Now.made = made
  BY DEF WInv, Sound, Now
<1>4. mem \in Memory
  <2>1. IsMemory(mem, made) /\ Agree(mem, Now.disk) /\ IsDisk(Now.disk, made)
    BY <1>3 DEF OK, Disks
  <2>2. /\ mem.txs \in SUBSET Txns /\ mem.spent \in SUBSET Txns /\ mem.placed \in SUBSET Txns
    BY <2>1 DEF Agree, IsDisk
  <2>3. /\ mem.pool \in SUBSET Keys /\ mem.defaultKey \in Keys \cup {NoKey}
        /\ mem.kind \in [Keys -> Kinds] /\ mem.useCrypto \in BOOLEAN
    BY <1>2, <2>1 DEF IsMemory
  <2>4. IsMemoryRecord(mem)
    BY <2>1 DEF IsMemory
  <2> QED
    BY <2>2, <2>3, <2>4 DEF Memory, IsMemoryRecord
<1>5. DiskOK(disk)
  BY DiskIsTyped DEF WInv, Sound
<1>6. ASSUME NEW i \in DOMAIN writes PROVE DiskOK(writes[i])
  <2>1. writes[i] \in Disks(Now)
    BY <1>3 DEF Disks
  <2>2. IsDisk(writes[i], made)
    BY <1>3, <2>1 DEF OK
  <2> QED
    BY <2>2, DiskIsTyped
<1>7. after.do \in {"nothing", "hand", "post", "exit"} /\ rpc.pc \in {"idle", "created", "failed"}
  BY DEF WInv, Ahead, Pending
<1>8. /\ DOMAIN txns \subseteq Txns /\ disk.txs \subseteq mem.txs
      /\ \A t \in DOMAIN txns : txns[t].ins \subseteq DOMAIN txns /\ txns[t].key \in Keys \cup {NoKey}
  BY <1>2 DEF WInv, Known
<1>9. made \in Keys /\ handed \subseteq Keys /\ posted \subseteq Sends
  BY <1>1, <1>2 DEF WInv, Saved, Keys
<1>10. (unlocked => mem.useCrypto) /\ timer.armed \in BOOLEAN
  BY DEF WInv, Timed
<1>11. timer.due \in 0 .. MaxUnlocks
  BY WalletAssumption DEF WInv, Timed
<1> QED
  BY <1>4, <1>5, <1>6, <1>7, <1>8, <1>9, <1>10, <1>11 DEF TypeOK

(* The pool *)
LEMMA PoolHolds ==
    ASSUME WInv PROVE KeysAreUsedOnce /\ PoolIsReadable
<1>1. made \in Nat
  BY Sizes
<1>2. OK(Now) /\ Now.mem = mem /\ Now.made = made
  BY DEF WInv, Sound, Now
<1>3. /\ IsMemory(mem, made) /\ Agree(mem, Now.disk) /\ IsDisk(Now.disk, made)
      /\ Now.disk \in Disks(Now)
  BY <1>2 DEF OK, Disks
<1>4. Reserved(Now, rpc.index, rpc.key) /\ rpc.index \in 0 .. made /\ (rpc.index = NoKey => rpc.key = NoKey)
  BY DEF WInv, Pending
<1>5. handed \subseteq 1 .. made /\ handed \cap Listed(disk) = {} /\ handed \cap Listed(Now.disk) = {}
  BY <1>3 DEF WInv, Saved
<1>6. KeysAreUsedOnce
  <2>1. Range(disk.pool) = Listed(disk)
    BY DEF Range, Listed
  <2>2. rpc.key \notin handed
    <3>1. CASE rpc.index = NoKey
      BY <1>1, <1>4, <1>5, <3>1 DEF NoKey
    <3>2. CASE rpc.index # NoKey
      BY <1>4, <1>5, <3>2 DEF Reserved, Listed
    <3> QED
      BY <3>1, <3>2
  <2> QED
    BY <1>5, <2>1, <2>2 DEF KeysAreUsedOnce
<1>7. PoolIsReadable
  <2> DEFINE d == IF writes = <<>> THEN disk ELSE Last(writes)
             live == mem.pool \cup ({rpc.index} \ {NoKey})
  <2>1. Now.disk = d
    BY DEF Now
  <2> HIDE DEF d
  <2>2. live \subseteq DOMAIN d.pool
    BY <1>3, <1>4, <2>1 DEF Agree, Reserved
  <2>3. rpc.index \notin mem.pool
    <3>1. CASE rpc.index = NoKey
      BY <1>1, <1>3, <3>1 DEF IsMemory, NoKey
    <3>2. CASE rpc.index # NoKey
      BY <1>2, <1>4, <3>2 DEF Reserved
    <3> QED
      BY <3>1, <3>2
  <2>4. \A i, j \in live : i # j => d.pool[i] # d.pool[j]
    <3> HIDE DEF live
    <3> QED
      BY <1>3, <2>1, <2>2 DEF IsDisk
  <2> QED
    BY <2>2, <2>3, <2>4 DEF PoolIsReadable, d
<1> QED
  BY <1>6, <1>7

(* The inductive invariant *)
LEMMA WalletInductive == Spec => []WInv
<1>1. WInv /\ [Next]_vars => WInv'
  BY StepInv
<1> QED
  BY <1>1, InitInv, PTL DEF Spec

(* For any number of transactions, keys and ends of the process: once       *)
(* CommitTransaction has posted a transaction, wallet.dat has it and the    *)
(* marks of the coins it spends, whichever write the process ended after,   *)
(* and no other transaction the wallet posts spends one of them.            *)
THEOREM WalletSends == Spec => []SentAreSafe
<1>1. WInv => SentAreSafe
  BY DEF WInv, Saved, SentAreSafe, PostedAreSaved
<1> QED
  BY <1>1, WalletInductive, PTL

(* For any target size of the pool: no key that others have seen is in the  *)
(* pool of the disk or reserved, every index of the pool in memory has its  *)
(* record, and no two give the same key, through top-ups, keys that are     *)
(* reserved, kept and returned, and restarts (TopUpKeyPool,                 *)
(* ReserveKeyFromKeyPool, KeepKey, ReturnKey).                              *)
THEOREM WalletKeyPool == Spec => []KeyPoolIsSound
<1>1. WInv => KeyPoolIsSound
  BY TypesHold, PoolHolds DEF KeyPoolIsSound
<1> QED
  BY <1>1, WalletInductive, PTL

(* For any number of unlocks: whenever the master key is in memory, a wait  *)
(* of the lock timer or a call of its handler is pending, though            *)
(* WalletLock does not stop the timer and ChangeWalletPassphrase opens the  *)
(* wallet again (WalletPassphrase).                                         *)
THEOREM WalletTimed == Spec => []UnlockedIsTimed
<1>1. WInv => UnlockedIsTimed
  BY DEF WInv, Timed
<1> QED
  BY <1>1, WalletInductive, PTL
=============================================================================
