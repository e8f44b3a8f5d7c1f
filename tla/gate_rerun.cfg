CONSTANTS
  Gates = {1, 2}
  NoGate = NoGate
  NoVerdict = NoVerdict
  Manual = {}
  Stuck = {}
  Late = TRUE
  MaxRetries = 1
  MaxDay = 2
  MaxCrashes = 1
  MaxFaults = 0
  MaxHolds = 0
SPECIFICATION Spec
PROPERTIES
  ArchivedIsNotRerun
