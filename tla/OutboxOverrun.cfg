SPECIFICATION Spec
CONSTANTS
  Events = {1, 2, 3}
  InvalidEvents = {2}
  Relays = {r1, r2}
  MaxAttempts = 2
  LeaseLimit = 2
  StopLimit = 2
  LeaseDuration = 1
  RunTimeout = 2
  RetryDelays <- MCRetryDelays
INVARIANTS
  TypeOK
  PublishedWasAccepted
  CopiesWithinAttempts
  NewestLeaseKept
PROPERTIES
  SettledIsFinal
