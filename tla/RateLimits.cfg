CONSTANTS
  Requests = {r1, r2, r3}
  Workers = {w1, w2}
  Limit = 2
  Sizes = {1, 2}
  MaxCredits = 2
  MaxDeposits = 1
  MaxWindows = 1
  MaxFaults = 1
  Nothing = Nothing
SPECIFICATION FairSpec
INVARIANTS
  RefusalsTakeNoPoints
  CreditsBuyTests
  RememberedRefusalsAreRight
PROPERTIES
  FreeLimitIsKept
  EveryRequestIsAnswered
CHECK_DEADLOCK FALSE
