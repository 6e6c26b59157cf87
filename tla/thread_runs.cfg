SPECIFICATION FairSpec
CONSTANTS
  MaxAttempts = 3
  MaxFaults = 2
  MaxEvents = 4
CHECK_DEADLOCK FALSE
INVARIANTS TypeOK StartedOnce NoQueuedRunForgotten ContinuesTheLastRun
PROPERTIES ServedInOrder QueueIsServed
