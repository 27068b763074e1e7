CONSTANTS
  t1 = t1
  t2 = t2
  c1 = c1
  c2 = c2
  Turns = {t1, t2}
  NoTurn = NoTurn
  Cancellable = {t1, t2}
  Compactions = {c1}
  MaxAsks = 0
  Importing = TRUE
  WsFrames = {"decide"}
SPECIFICATION Spec
SYMMETRY Symmetry
CHECK_DEADLOCK FALSE
INVARIANTS
  StoredTurnsKept
  FailedTurnLeavesNoTrace
