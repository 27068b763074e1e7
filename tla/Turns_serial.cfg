CONSTANTS
  t1 = t1
  t2 = t2
  t3 = t3
  Turns = {t1, t2, t3}
  NoTurn = NoTurn
  Cancellable = {}
  Compactions = {}
  MaxAsks = 1
  Importing = FALSE
  WsFrames = {"decide"}
SPECIFICATION Spec
CHECK_DEADLOCK FALSE
PROPERTY ImplementsSerial
