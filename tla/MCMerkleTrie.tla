---------------------------- MODULE MCMerkleTrie ----------------------------
(* Keys that share prefixes of every length, and two tries *)
EXTENDS MerkleTrie

CONSTANTS spendables, snapshot

=============================================================================
