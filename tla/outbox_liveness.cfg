SPECIFICATION FairSpec
CONSTANTS
  start = start
  second = second
  title = title
  t1 = t1
  t2 = t2
  s1 = s1
  s2 = s2
  Effect <- TrioEffects
  ThreadOf <- ApartThreadOf
  KindOf <- TrioKindOf
  Slot = {s1, s2}
  Thread = {t1, t2}
  Hanging = {start}
  Undecodable = {title}
  MaxAttempts = 2
  MaxEpoch = 2
  MaxFaults = 1
  NoEffect = NoEffect
  NoSlot = NoSlot
CHECK_DEADLOCK FALSE
PROPERTIES EffectsSettle CancelledExecutionEnds
