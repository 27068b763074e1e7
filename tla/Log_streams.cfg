CONSTANTS
  p1 = p1
  p2 = p2
  r1 = r1
  Publishers = {p1, p2}
  Droppable = {p2}
  Readers = {r1}
  Capacity = 1
  MaxSeq = 3
SPECIFICATION FairSpec
CHECK_DEADLOCK FALSE
INVARIANTS
  TypeOK
  NumbersAccountedFor
  OvertakingBounded
  MissedOnlyInWindow
PROPERTIES
  UnreadIsRead
