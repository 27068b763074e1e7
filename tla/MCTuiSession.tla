---- MODULE MCTuiSession ----
(* Messages typed in the terminal, and nothing else. *)
EXTENDS TuiSession

MCInputs == (0..MaxTyped) \X {0}
====
