----------------------------- MODULE SerialTurns -----------------------------
(***************************************************************************)
(* What a session promises to the turns sent to it: one at a time, each    *)
(* adds itself to the conversation in a single step while it runs, and     *)
(* nothing that was added is ever lost.  SessionTurns, which copies the    *)
(* conversation, works on the copy and writes it back over whatever is     *)
(* there, implements this where nobody cancels, compacts or imports.       *)
(***************************************************************************)
CONSTANTS Turns, NoTurn

VARIABLES
  runner,  \* the turn at work
  said     \* the turns the conversation tells of

Init == runner = NoTurn /\ said = {}

Begin(t) ==
  /\ runner = NoTurn
  /\ runner' = t
  /\ UNCHANGED said

\* Once for each turn: a turn is not added again.
Store(t) ==
  /\ runner = t
  /\ t \notin said
  /\ said' = said \cup {t}
  /\ UNCHANGED runner

End(t) ==
  /\ runner = t
  /\ runner' = NoTurn
  /\ UNCHANGED said

Next == \E t \in Turns : Begin(t) \/ Store(t) \/ End(t)

Spec == Init /\ [][Next]_<<runner, said>>
=============================================================================
