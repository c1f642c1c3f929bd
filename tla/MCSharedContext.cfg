\* Three calls, two failures (a write that fails, or a restart).
SPECIFICATION LiveSpec
CONSTANTS
  Calls = {c1, c2, c3}
  None = None
  MaxFailures = 2
INVARIANTS
  WritesSawOpenRoom
  ArtifactsFollowMessages
  AcknowledgedIsStored
PROPERTIES
  EveryCallEnds
CHECK_DEADLOCK FALSE
