CONSTANTS
  daily = daily
  weekly = weekly
  pulse = pulse
  floor = floor
  catch = catch
  NoAgent = NoAgent
  Missions = {daily}
  Continuous = {}
  Agents = {floor, catch}
  LeaseTime = 1
  Period <- MCPeriod
  Cooldown = 1
  MaxLag = 1
  Flippable = {daily}
  IOFaults = TRUE
  MayStall = FALSE
  CalmFrom = 3
  MaxTime = 4
SPECIFICATION FairSpec
INVARIANTS
  FailedMeansOvertaken
PROPERTIES
  LeaseMeansWake
  ImplementsContract
  EventuallyDone
