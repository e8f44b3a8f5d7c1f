CONSTANTS
    out = out
    decision = decision
    archive = archive
    doctrine = doctrine
    skill = skill
    Paths = {out, doctrine}
    Runtime = {out}
    Decisions = {}
    ArchiveOf <- MCArchiveOf
    Start = {doctrine}
    Touched = {doctrine}
    MaxEdits = 4
    Wedges = {}
SPECIFICATION FairSpec
PROPERTY MergedLands
CHECK_DEADLOCK FALSE
