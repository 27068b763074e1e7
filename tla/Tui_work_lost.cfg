CONSTANTS
  MaxTyped = 3
  Inputs <- MCInputs
  Interruptions = {}
SPECIFICATION Spec
CHECK_DEADLOCK FALSE
PROPERTY
  WorkIsKept
