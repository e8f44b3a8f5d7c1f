CONSTANTS
  Gates = {1, 2}
  NoGate = NoGate
  NoVerdict = NoVerdict
  Manual = {1}
  Stuck = {}
  Late = TRUE
  MaxRetries = 0
  MaxDay = 2
  MaxCrashes = 1
  MaxFaults = 0
  MaxHolds = 0
SPECIFICATION Spec
INVARIANTS
  LedgerIsEarned
  ArchivedWasExecuted
  CardFollowsArchive
  RoundsCountCommits
PROPERTIES
  ArchiveIsFinal
