SPECIFICATION FairSpec
CONSTANTS
  MaxAttempts = 2
  MaxFaults = 1
  MaxEvents = 2
CHECK_DEADLOCK FALSE
PROPERTIES LateCompletionKept
