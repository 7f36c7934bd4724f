------------------------------ MODULE MCClaims ------------------------------
(* Transactions that depend on one another and compete. *)
EXTENDS TransactionFilter, TLC

CONSTANTS c1, c2, t1, t2, t3, t4, t5

Spend(ins, outs, size, fee) == [ins |-> ins, outs |-> outs, size |-> size, fee |-> fee]

TwoCoins == {<<c1, 0>>, <<c2, 0>>}

(* t2 spends t1, t3 spends t2 and t1, t4 competes with t1 and with t5.  No  *)
(* two claims are equivalent, however they depend on one another; t5 and    *)
(* t3 with what it depends on do not fit together.                          *)
Family ==
    (t1 :> Spend(<< <<c1, 0>> >>, 2, 2, 2)) @@
    (t2 :> Spend(<< <<t1, 0>> >>, 1, 1, 4)) @@
    (t3 :> Spend(<< <<t2, 0>>, <<t1, 1>> >>, 1, 3, 12)) @@
    (t4 :> Spend(<< <<c1, 0>>, <<c2, 0>> >>, 1, 3, 4)) @@
    (t5 :> Spend(<< <<c2, 0>> >>, 1, 3, 9))
=============================================================================
