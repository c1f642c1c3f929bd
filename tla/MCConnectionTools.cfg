\* Three calls, records of two ids of each kind, one fault.
SPECIFICATION Spec
CONSTANTS
  None = None
  Descriptors <- Published
  MaxRecords = 2
  MaxCalls = 3
  MaxFaults = 1
  MaxIds = 3
INVARIANTS
  NewestAreKept
  MadeIsOnFile
