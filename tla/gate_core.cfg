CONSTANTS
  Gates = {1, 2}
  NoGate = NoGate
  NoVerdict = NoVerdict
  Manual = {1}
  Stuck = {}
  Late = FALSE
  MaxRetries = 1
  MaxDay = 2
  MaxCrashes = 1
  MaxFaults = 1
  MaxHolds = 1
SPECIFICATION FairSpec
INVARIANTS
  ExecutedOnce
PROPERTIES
  ImplementsContract
  EveryDecisionSettles
  SettledCardsClose
