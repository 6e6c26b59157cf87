SPECIFICATION Spec
CONSTANTS
  first = first
  again = again
  here = here
  there = there
  start = start
  idA = idA
  idB = idB
  t1 = t1
  t2 = t2
  Call <- ClashCalls
  CommandOf <- ClashCommandOf
  ThreadOf <- ClashThreadOf
  Command = {idA, idB}
  Thread = {t1, t2}
  MaxOthers = 0
  MaxFaults = 0
  NoCommand = NoCommand
CHECK_DEADLOCK FALSE
INVARIANTS AcceptedMeansStored
