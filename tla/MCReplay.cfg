CONSTANTS
  Symbols <- TheSymbols
  MaxBars <- TheMaxBars
  Bars <- TheBars
  Sizings <- TheSizings
  Signals <- TheSignals
  MaxGiven = 2
  Capital = 30
  Warmup = 1
  Stop = 2
  Target = 3
  MaxHold = 2
  Slip = 1
  Fee = 1
  Interval = 1
  Prices <- ThePrices
  Rules <- TheRules
  Quantity = 1
  SlippageBps <- TheSlippage
  FeeBpsForex = 100
  FeePerTrade <- TheFees
  Tracking <- TheTracking
  MaxShadows = 2
  MaxTicks = 4
SPECIFICATION MCSpec
INVARIANTS
  BooksAgree
  ExitsOnTime
PROPERTIES
  ExitsHold
CHECK_DEADLOCK FALSE
