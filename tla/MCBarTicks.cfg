\* One symbol of the OANDA stream, with two outages.
CONSTANTS
  s1 = s1
  s2 = s2
  Symbols = {s1}
  Ticks = TRUE
  Width = 2
  QueueSize = 2
  LastMinute = 4
  MaxOutages = 2
  MaxFaults = 1
SPECIFICATION FairSpec
INVARIANTS
  OnlyJoinsArePartial
PROPERTIES
  QueuedIsWritten
\* The clock stops at LastMinute.
CHECK_DEADLOCK FALSE
