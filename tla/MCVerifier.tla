----------------------------- MODULE MCVerifier -----------------------------
(* The Verifier with two threads at most, so that it also runs with none. *)
EXTENDS Verifier
=============================================================================
