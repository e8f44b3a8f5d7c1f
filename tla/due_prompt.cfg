CONSTANTS
  daily = daily
  weekly = weekly
  pulse = pulse
  floor = floor
  catch = catch
  NoAgent = NoAgent
  Missions = {daily, weekly, pulse}
  Continuous = {pulse}
  Agents = {floor, catch}
  LeaseTime = 3
  Period <- MCPeriod
  Cooldown = 2
  MaxLag = 0
  Flippable = {}
  IOFaults = FALSE
  MayStall = TRUE
  CalmFrom = 2
  MaxTime = 5
SPECIFICATION Spec
INVARIANTS
  LeaseAhead
PROPERTIES
  NoEarlyRepeat
  WakesSpaced
SYMMETRY SymAgents
