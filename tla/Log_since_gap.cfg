CONSTANTS
  p1 = p1
  p2 = p2
  r1 = r1
  r2 = r2
  Publishers = {p1}
  Droppable = {}
  Readers = {r1}
  Capacity = 4
  MaxSeq = 2
SPECIFICATION Spec
CHECK_DEADLOCK FALSE
INVARIANT SinceRecovers
