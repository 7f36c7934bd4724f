---------------------------- MODULE MCBlockSync ----------------------------
(* Small chains for BlockSync. *)
EXTENDS BlockSync
=============================================================================
