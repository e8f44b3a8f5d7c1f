CONSTANTS
    brief = brief
    watch = watch
    study = study
    trade = trade
    debrief = debrief
    review = review
    AdHoc = adhoc
    Missions = {brief, study, debrief, review}
    LayerOf <- MCLayerOf
    Cadence <- MCCadence
    SlotOf <- MCSlotOf
    OpenOn <- MCOpenOn
    Reads <- MCReads
    Dedicated = {review}
    Feeds = {brief}
    Ticks = {t1, t2}
    MaxDay = 1
    FireAfter = 1
    MaxInputs = 1
    MaxFaults = 1
SPECIFICATION FairSpec
PROPERTY ImplementsContract DebriefRuns CatchesUp
CHECK_DEADLOCK FALSE
