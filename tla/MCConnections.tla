--------------------------- MODULE MCConnections ---------------------------
(* Two addresses; the list is empty or has one of them. *)
EXTENDS Connections

CONSTANTS e1, e2

ListOrPool == {{}, {e2}}
=============================================================================
