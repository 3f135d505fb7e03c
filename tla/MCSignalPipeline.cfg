\* Safety, with unreadable broker replies and two transient failures.
CONSTANTS
  g1 = g1
  g2 = g2
  Signals <- TwoSignals
  Strategies = {g1}
  StrategyOf <- OneOwner
  Gated = {1}
  Exits = {2}
  BrokerRouted = {1, 2}
  MalformedReply = TRUE
  MaxFaults = 2
SPECIFICATION Spec
INVARIANTS
  RejectionStands
  StatusMatchesOrder
  LoopsTouchDisjointRows
  DuplicatesCostAFault
PROPERTIES
  OnlyStaleWritesBreakTheTable
  LedgerSpec
