CONSTANTS
  Core = {1, 2}
  None = None
  NumCntrs = 7
  markerValue = 112
  funcMarkerValue = 99
  Masks <- MCMasks
  MarkerCnts = {2}
  Addresses <- MCAddresses
  Functions <- MCFunctions
  Values <- MCValues
  EventOf <- MCEventOf
  HighRange = 4
  MaxCalls = 3
  MaxGaps = 1
SPECIFICATION Spec
INVARIANTS
  OnlyLastHeldBack
PROPERTIES
  LinesAreRecords
  WordsAreConsumed
CHECK_DEADLOCK FALSE
