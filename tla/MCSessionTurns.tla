--------------------------- MODULE MCSessionTurns ---------------------------
(* Instances of SessionTurns for TLC. *)
EXTENDS SessionTurns, TLC

\* No action and no property tells one turn, or one compact call, from
\* another of the same kind.
Symmetry == Permutations(Turns) \cup Permutations(Compactions)
=============================================================================
