SPECIFICATION Spec
CONSTANTS
  start = start
  second = second
  title = title
  t1 = t1
  t2 = t2
  s1 = s1
  s2 = s2
  Effect <- TrioEffects
  ThreadOf <- TrioThreadOf
  KindOf <- TrioKindOf
  Slot = {s1, s2}
  Thread = {t1}
  Hanging = {}
  Undecodable = {}
  MaxAttempts = 2
  MaxEpoch = 2
  MaxFaults = 2
  NoEffect = NoEffect
  NoSlot = NoSlot
CHECK_DEADLOCK FALSE
SYMMETRY Symmetry
INVARIANTS TypeOK SoleHolder LaneSerial RunningIsHeld LeaseLostOnlyToCancel AttemptsBounded CancellationsArrive
PROPERTIES SettledForever CleanAdmission ImplementsLanes
