CONSTANTS
  Calls = {c1, c2}
  Costs = {1}
  Threshold = 1
  MaxCredits = 3
  MaxDeposits = 1
  MaxFaults = 1
  Nothing = Nothing
SPECIFICATION FairSpec
INVARIANTS
  BooksBalance
PROPERTIES
  EverythingIsFlushed
