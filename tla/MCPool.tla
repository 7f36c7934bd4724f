------------------------------- MODULE MCPool -------------------------------
(* Two miners, and two blocks one of which is best. *)
EXTENDS Pool

CONSTANTS a, b, m1, m2
=============================================================================
