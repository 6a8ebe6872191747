CONSTANTS
  Ids = {m1, m2}
  Tests = {t1, t2}
  Cleaners = {c1, c2}
  NoKey = NoKey
  MaxFaults = 1
  DuplicateResults = FALSE
SPECIFICATION MCSpec
SYMMETRY Symmetry
INVARIANTS
  CounterIsExact
  FinishedIsComplete
  OffloadedAtMostOnce
  InProgressIsTracked
  FinishedIsHandedOver
PROPERTIES
  FinishedIsFinal
  ReportsAreKept
  ImplementsLifecycle
\* Once every measurement is over nothing is left to do.
CHECK_DEADLOCK FALSE
