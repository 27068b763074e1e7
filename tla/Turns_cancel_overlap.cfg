CONSTANTS
  t1 = t1
  t2 = t2
  t3 = t3
  Turns = {t1, t2, t3}
  NoTurn = NoTurn
  Cancellable = {t1, t2, t3}
  Compactions = {}
  MaxAsks = 0
  Importing = FALSE
  WsFrames = {"decide"}
SPECIFICATION Spec
SYMMETRY Symmetry
CHECK_DEADLOCK FALSE
INVARIANT OneTurnAtATime
