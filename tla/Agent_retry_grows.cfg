SPECIFICATION Spec
CONSTANTS
  Calls <- MCCalls
  MaxIterations = 4
  MaxMessages = 8
PROPERTY
  RetryNeverGrows
