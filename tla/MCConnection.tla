---------------------------- MODULE MCConnection ----------------------------
(* Model-checking instance of Connection: its state space is finite as it is. *)
EXTENDS Connection
=============================================================================
