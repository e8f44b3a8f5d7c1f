CONSTANTS
    brief = brief
    risk = risk
    debrief = debrief
    floor1 = floor1
    floor4 = floor4
    Missions = {brief, debrief}
    LayerOf <- MCLayerOf
    Floors = {floor1, floor4}
    LayerFloor <- MCLayerFloor
    Selectors = {"claude", "hermes", "unsafe"}
    PrimaryOnly = FALSE
    Restarts = TRUE
    StaleAfter = 1
    MaxPerHour = 1
SPECIFICATION FairSpec
INVARIANT GuardedTicksAlone FreshMeansServed RestartBudget
PROPERTY FloorsCatchUp
