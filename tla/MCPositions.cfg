\* One row, of an option, which all three sessions write; and three days of
\* the daily jobs of one user, with two crashes.
CONSTANTS
  option = option
  Keys = {option}
  Options = {option}
  Prices = {1, 2}
  Sizes = {1, 2}
  Opening = 2
  MaxRows = 1
  MaxQty = 2
  MaxCash = 4
  Users = {u1}
  Actions <- TheActions
  Terms <- TheTerms
  Lots <- TheLots
  LastDay = 3
  MaxShares = 4
  MaxCrashes = 2
SPECIFICATION MCSpec
INVARIANTS
  RowsAgreeUnlessStale
  OpenRowsKeepTheirFills
  DividendsAddUp
  SharesFollowSplits
PROPERTIES
  FillsConserveEquity
  HoldersAreEntitled
CHECK_DEADLOCK FALSE
