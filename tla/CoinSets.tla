------------------------------ MODULE CoinSets ------------------------------
(* What the tries promise: each of a number of variables is a set, that is  *)
(* copied by value.                                                         *)
CONSTANTS Keys, Tries

VARIABLE sets

Init == sets = [t \in Tries |-> {}]

Insert(t, k) == sets' = [sets EXCEPT ![t] = @ \cup {k}]

Remove(t, k) == sets' = [sets EXCEPT ![t] = @ \ {k}]

Assign(t, u) == sets' = [sets EXCEPT ![t] = sets[u]]

Destroy(t) == sets' = [sets EXCEPT ![t] = {}]

Next ==
    \E t \in Tries :
       \/ \E k \in Keys : Insert(t, k) \/ Remove(t, k)
       \/ \E u \in Tries : Assign(t, u)
       \/ Destroy(t)

Spec == Init /\ [][Next]_sets
=============================================================================
