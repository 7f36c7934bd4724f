------------------------------ MODULE MCWallet ------------------------------
EXTENDS Wallet, TLC

(* Payments of others are alike, and so are the transactions made. *)
Symmetric == Permutations(Pays) \cup Permutations(Sends)
=============================================================================
