SPECIFICATION FairSpec
CONSTANTS
  Events = {1, 2}
  InvalidEvents = {}
  Relays = {r1, r2}
  MaxAttempts = 2
  LeaseLimit = 2
  StopLimit = 1
  LeaseDuration = 2
  RunTimeout = 2
  RetryDelays <- MCRetryDelays
INVARIANTS
  ExclusiveWork
PROPERTIES
  ImplementsDelivery
  EventuallySettled
