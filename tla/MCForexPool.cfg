\* Two strategies and two accounts in one pair; sizes may change, and one
\* fill failure or restart may happen.
CONSTANTS
  a = a
  b = b
  eur = eur
  Accounts = {1, 2}
  Strategies = {a, b}
  Pairs = {eur}
  EntrySides = {"buy", "sell"}
  Sizes = {1, 2}
  MaxQueue = 2
  MaxQty = 2
  MaxFaults = 1
SYMMETRY StrategySymmetry
SPECIFICATION Spec
INVARIANTS
  TablesAgreeUnlessDisturbed
  PositionsHaveTheirOwnAccount
