CONSTANTS
  t1 = t1
  t2 = t2
  Turns = {t1, t2}
  NoTurn = NoTurn
  Cancellable = {t1}
  Compactions = {}
  MaxAsks = 1
  Importing = FALSE
  WsFrames = {"decide", "untagged"}
SPECIFICATION FairSpec
CHECK_DEADLOCK FALSE
INVARIANTS
  TypeOK
  PendingOwned
  WaitersReachable
  ToolsOnlyOnApproval
  HandleOwned
  OverlapBound
  DecisionsStand
PROPERTIES
  TurnsInOrder
  SpawnedTurnsEnd
