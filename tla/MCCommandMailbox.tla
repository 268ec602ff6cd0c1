--------------------------- MODULE MCCommandMailbox ---------------------------
(* Model-checking instance of CommandMailbox: model values for the commands. *)
EXTENDS CommandMailbox, TLC

CONSTANTS s1, s2, l1, l2   \* short and long commands

\* Two deliveries of the same kind can be exchanged.
Kinds == Permutations({s1, s2}) \union Permutations({l1, l2})
=============================================================================
