SPECIFICATION Spec
CONSTANTS
  start = start
  second = second
  title = title
  t1 = t1
  t2 = t2
  s1 = s1
  s2 = s2
  Effect <- PairEffects
  ThreadOf <- PairThreadOf
  KindOf <- PairKindOf
  Slot = {s1, s2}
  Thread = {t1}
  Hanging = {}
  Undecodable = {}
  MaxAttempts = 2
  MaxEpoch = 1
  MaxFaults = 1
  NoEffect = NoEffect
  NoSlot = NoSlot
CHECK_DEADLOCK FALSE
INVARIANTS CancellationReachesExecution
