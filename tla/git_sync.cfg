CONSTANTS
    out = out
    decision = decision
    archive = archive
    doctrine = doctrine
    skill = skill
    Paths = {decision, archive, doctrine, skill}
    Runtime = {decision, archive}
    Decisions = {decision}
    ArchiveOf <- MCArchiveOf
    Start = {doctrine}
    Touched = {decision, doctrine}
    MaxEdits = 4
    Wedges = {doctrine}
SPECIFICATION FairSpec
INVARIANT NothingLost  
PROPERTY LandsOrSticks
CHECK_DEADLOCK FALSE
