CONSTANTS
  Core = {1}
  None = None
  NumCntrs = 7
  markerValue = 112
  funcMarkerValue = 99
  Masks <- TwoEvents
  MarkerCnts = {2}
  Addresses <- MCAddresses
  Functions <- MCFunctions
  Values <- MCValues
  EventOf <- MCEventOf
  HighRange = 4
  MaxCalls = 3
  MaxGaps = 0
SPECIFICATION Spec
PROPERTIES
  DefinitionsAreEvents
CHECK_DEADLOCK FALSE
