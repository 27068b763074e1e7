----------------------------- MODULE MCEventLog -----------------------------
(* Instances of EventLog for TLC. *)
EXTENDS EventLog, TLC

\* Publishers that are tasks are alike, and so are the readers.
Symmetry == Permutations(Publishers \ Droppable) \cup Permutations(Readers)
=============================================================================
