SPECIFICATION Spec
CONSTANTS
  first = first
  again = again
  here = here
  there = there
  start = start
  idA = idA
  idB = idB
  t1 = t1
  t2 = t2
  Call <- MixedCalls
  CommandOf <- MixedCommandOf
  ThreadOf <- MixedThreadOf
  Command = {idA, idB}
  Thread = {t1, t2}
  MaxOthers = 1
  MaxFaults = 1
  NoCommand = NoCommand
CHECK_DEADLOCK FALSE
SYMMETRY Symmetry
INVARIANTS ReceiptsMatchLog PlansAreCurrent SameAnswer
PROPERTIES DecidesOnce
