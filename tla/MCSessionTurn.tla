--------------------------- MODULE MCSessionTurn ---------------------------
(* Two messages, two processes, and as many turns as messages can start. *)
EXTENDS SessionTurn
=============================================================================
