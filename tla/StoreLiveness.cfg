CONSTANTS
  Ids = {m1}
  Tests = {t1, t2}
  Cleaners = {c1, c2}
  NoKey = NoKey
  MaxFaults = 2
  DuplicateResults = TRUE
SPECIFICATION FairSpec
PROPERTIES
  EveryMeasurementFinishes
  EveryMeasurementIsOffloaded
\* Once every measurement is over nothing is left to do.
CHECK_DEADLOCK FALSE
