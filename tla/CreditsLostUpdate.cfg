CONSTANTS
  Calls = {c1, c2}
  Costs = {1, 2}
  Threshold = 2
  MaxCredits = 5
  MaxDeposits = 1
  MaxFaults = 1
  Nothing = Nothing
SPECIFICATION Spec
SYMMETRY Symmetry
INVARIANTS
  GrantsArePaid
