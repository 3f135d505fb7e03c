\* Two scopes, two concurrent requests, up to two rows a scope; two strategies
\* in one symbol, up to three signals and two changes around them.
CONSTANTS
  global = global
  g1 = g1
  r1 = r1
  r2 = r2
  Global = global
  Strategies = {g1}
  Requests = {r1, r2}
  MaxRows = 2
  Traders = {"s1", "s2"}
  Symbols = {"x"}
  Prices = {10, 20}
  SizingOf <- TheSizings
  RiskConfigs <- TheRiskConfigs
  InitialCash = 100
  DefaultEquity = 100
  Times <- TheTimes
  MaxSignals = 3
  MaxChanges = 2
SYMMETRY RequestSymmetry
SPECIFICATION MCSpec
INVARIANTS
  DuplicatesNeedOverlap
PROPERTIES
  ArmedSwitchBlocks
  LimitsHold
