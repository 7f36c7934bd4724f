---------------------------- MODULE MCBlockChain ----------------------------
(* Small worlds of blocks and transactions for BlockChain.  Every block has *)
(* the same work, so a reorganisation takes two blocks; all forks start at  *)
(* block s, the last checkpoint.                                            *)
EXTENDS BlockChain, TLC

CONSTANTS g, p, q, r, s, a1, a2, a3, b1, b2, b3, y1, y2, l1, l2, l3, z1, z2,
          n0, n1, f0, t1, t2, t3, t4, t5, t6, t7, u1, u2, u3, u4

(* The depth Node::update_verification() computes before any peer is known. *)
Always == -1

On(prev, txns) == [prev |-> prev, work |-> 1, txns |-> txns]

Op(kind, name, value) == [kind |-> kind, name |-> name, value |-> value]
Named(ins, outs, op) == [ins |-> ins, outs |-> outs, signed |-> TRUE, op |-> op]
Spend(ins, outs) == Named(ins, outs, Op("none", "", ""))
Unsigned(ins, outs) == [Spend(ins, outs) EXCEPT !.signed = FALSE]

(* f0 takes name x, n1 is for taking it again; t1, t3 and u1 compete for    *)
(* its update, t6 takes it when it has expired and t7 before; t2 and t5     *)
(* spend the other outputs of t1; t4 is not signed.  u2 and u4 compete for  *)
(* the coinbase of s, which u2 spends as soon as it is mature.              *)
Txns ==
    (n0 :> Named(<< <<p, 0>> >>, 2, Op("new", "x", ""))) @@
    (n1 :> Named(<< <<n0, 1>> >>, 1, Op("new", "x", ""))) @@
    (f0 :> Named(<< <<n0, 0>> >>, 1, Op("first", "x", "v0"))) @@
    (t1 :> Named(<< <<f0, 0>> >>, 3, Op("update", "x", "v1"))) @@
    (t2 :> Spend(<< <<t1, 1>> >>, 1)) @@
    (t3 :> Named(<< <<f0, 0>> >>, 1, Op("update", "x", "v2"))) @@
    (t4 :> Unsigned(<< <<q, 0>> >>, 1)) @@
    (t5 :> Spend(<< <<t1, 2>> >>, 1)) @@
    (t6 :> Named(<< <<n1, 0>> >>, 1, Op("first", "x", "v3"))) @@
    (t7 :> Named(<< <<n1, 0>> >>, 2, Op("first", "x", "v4"))) @@
    (u1 :> Named(<< <<f0, 0>> >>, 2, Op("update", "x", "v5"))) @@
    (u2 :> Spend(<< <<s, 0>> >>, 2)) @@ (u3 :> Spend(<< <<u2, 0>> >>, 1)) @@
    (u4 :> Spend(<< <<s, 0>> >>, 1))

Base ==
    (g :> On(NoHash, << >>)) @@ (p :> On(g, << >>)) @@ (q :> On(p, << >>)) @@
    (r :> On(q, <<n0, n1>>)) @@ (s :> On(r, <<f0>>))

(* Two chains and blocks that cannot be attached: y1 for its signature, y2  *)
(* for a name that is taken.  The blocks that may lose their place spend    *)
(* no coins of one another, which detach() would bring back, and no         *)
(* coinbases, which it would give a positive count.                         *)
Forks ==
    Base @@
    (a1 :> On(s, <<t1>>)) @@ (a2 :> On(a1, << >>)) @@ (a3 :> On(a2, <<t2, t5>>)) @@
    (b1 :> On(s, <<t3>>)) @@ (b2 :> On(b1, << >>)) @@ (b3 :> On(b2, <<t6>>)) @@
    (y1 :> On(s, <<t4>>)) @@ (y2 :> On(s, <<t7>>))

(* One chain with two blocks that cannot be attached: z1 spends a coin that *)
(* does not exist, z2 one that is spent.                                    *)
Line ==
    Base @@
    (l1 :> On(s, <<u1>>)) @@ (l2 :> On(l1, <<u2>>)) @@ (l3 :> On(l2, <<u3>>)) @@
    (z1 :> On(s, <<u3>>)) @@ (z2 :> On(l2, <<u4>>))

Worlds == Forks @@ Line

(* Two claims that compete for the coin and the name of f0, and one that    *)
(* builds on another.                                                       *)
Claimable == {t1, t2, t3}

(* With the coin index a node sees the forks, with the tries the line, and  *)
(* it is restarted with the depth it had.                                   *)
WorldNext ==
    \/ \E txn \in Claimable : Claim(txn)
    \/ \E hash \in DOMAIN (IF store.depth = 0 THEN Forks ELSE Line) \ {Genesis} :
          AppendBlock(hash)
    \/ Restart /\ store'.depth = store.depth

WorldSpec == Init /\ [][WorldNext]_vars

(* The block that makes the longer chain does not connect. *)
FailingFork ==
    Base @@ (a1 :> On(s, << >>)) @@
    (b1 :> On(s, << >>)) @@ (b2 :> On(b1, <<t4>>))
=============================================================================
