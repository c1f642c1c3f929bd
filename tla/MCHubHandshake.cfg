\* Two matches between the same gateways, two overlapping polls, one failure.
SPECIFICATION HandshakeLiveSpec
CONSTANTS
  Matches = {m1, m2}
  Polls = {p1, p2}
  None = None
  MaxFailures = 1
INVARIANTS
  OfferTakenInOnce
  ReadyMeansConnected
PROPERTIES
  EveryMatchEnds
