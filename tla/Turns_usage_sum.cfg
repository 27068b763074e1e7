CONSTANTS
  t1 = t1
  t2 = t2
  Turns = {t1, t2}
  NoTurn = NoTurn
  Cancellable = {}
  Compactions = {}
  MaxAsks = 0
  Importing = FALSE
  WsFrames = {"decide"}
SPECIFICATION Spec
SYMMETRY Symmetry
CHECK_DEADLOCK FALSE
INVARIANT UsageIsTheSum
