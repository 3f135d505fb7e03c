CONSTANTS
  Strategies = {a, b}
  Faulty = {a}
  Editors = {e1, e2}
  Threshold = 3
  MaxVersion = 2
  MaxFaults = 1
  MaxRequests = 2
  MaxSignals = 1
  Prices <- ThePrices
  Configs <- TheConfigs
  Overrides <- TheOverrides
  Atrs <- TheAtrs
  MaxBars = 2
  Producers = {p1, p2}
  QueueMax = 2
  BatchSize = 2
  MaxEvents = 4
  MaxFailures = 1
  Order <- TheOrder
  Config <- TheRules
  Seeded <- TheSeeds
  Cooldowns = {1}
  Switched <- TheSwitched
  MaxTime = 2
  MaxRecords = 1
  MaxAlerts = 3
  MaxErrors = 1
  MaxSwitches = 1
SPECIFICATION MCSpec
INVARIANTS
  OneActiveConfig
  MonitorAgrees
PROPERTIES
  ChannelSpec
  CountsAreHonest
  PausesAreCaused
  FailingIsPaused
  QueueDrains
  ClearedAreResolved
CHECK_DEADLOCK FALSE
