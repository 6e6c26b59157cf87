SPECIFICATION FairSpec
CONSTANTS
  MaxRuntimes = 2
  MaxCredentials = 2
  MaxTimers = 2
  MaxTurns = 2
  MaxTouches = 2
  MaxPins = 1
  MaxFaults = 1
  MaxEvents = 4
CHECK_DEADLOCK FALSE
INVARIANTS TypeOK IdleIsTimed CredentialHeld CredentialsRevoked
PROPERTIES CountedSessionKept IdleSessionReleased
