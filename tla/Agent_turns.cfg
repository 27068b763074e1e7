SPECIFICATION FairSpec
CONSTANTS
  Calls <- MCCalls
  MaxIterations = 4
  MaxMessages = 10
INVARIANTS
  TypeOK
  RequestValid
  NoResultInvented
  BreakerStaysClosed
PROPERTY
  RefusalsEnd
