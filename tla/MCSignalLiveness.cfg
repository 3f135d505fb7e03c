\* Progress, when broker replies are readable and one transient failure.
CONSTANTS
  g1 = g1
  g2 = g2
  Signals <- TwoSignals
  Strategies = {g1}
  StrategyOf <- OneOwner
  Gated = {1}
  Exits = {2}
  BrokerRouted = {1}
  MalformedReply = FALSE
  MaxFaults = 1
SPECIFICATION FairSpec
PROPERTIES
  PendingResolved
  ApprovedGetsOrder
