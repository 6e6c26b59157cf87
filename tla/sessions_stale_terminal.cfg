SPECIFICATION FairSpec
CONSTANTS
  MaxRuntimes = 2
  MaxCredentials = 2
  MaxTimers = 1
  MaxTurns = 2
  MaxTouches = 0
  MaxPins = 0
  MaxFaults = 0
  MaxEvents = 2
CHECK_DEADLOCK FALSE
PROPERTIES ActiveSessionKept
