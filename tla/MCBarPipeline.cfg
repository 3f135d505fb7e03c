\* Two symbols of the Alpaca stream, two windows, a queue of two bars.
CONSTANTS
  s1 = s1
  s2 = s2
  Symbols = {s1, s2}
  Ticks = FALSE
  Width = 2
  QueueSize = 2
  LastMinute = 4
  MaxOutages = 1
  MaxFaults = 1
SYMMETRY SymbolSymmetry
SPECIFICATION Spec
INVARIANTS
  NoUnknownLoss
  BarsInOrder
  WindowsClosed
\* The clock stops at LastMinute.
CHECK_DEADLOCK FALSE
