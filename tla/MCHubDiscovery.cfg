\* Two calls, two faults.
SPECIFICATION Spec
CONSTANTS
  a1 = a1
  a2 = a2
  Agents = {a1, a2}
  self = self
  None = None
  Defects <- OneRisky
  Inputs <- TwoInputs
  MaxCalls = 2
  MaxFaults = 2
INVARIANTS
  HistoryTellsAnswers
  PostedIsAcceptable
