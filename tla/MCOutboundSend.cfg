\* Two concurrent sends, one health check, one retry, two transports.
SPECIFICATION LiveSpec
CONSTANTS
  Sends = {s1, s2}
  Probes = {p1}
  maxRetries = 1
  MaxTransports = 2
  failureThreshold = 2
  resetTimeout = 1
INVARIANTS
  BreakerFollowsFailures
  TrialSlotMatchesCircuit
  HalfOpenHasOwner
PROPERTIES
  OneTrialPerHalfOpen
  RecoversAfterOutage
