CONSTANTS
  Ids = {m1, m2, m3}
  BatchSize = 2
  MaxAttempts = 2
  ResultTTL = 3
  MaxAge = 4
  MaxFaults = 3
SPECIFICATION MCSpec
INVARIANTS
  NothingIsForgotten
  ReadsFindTheRecord
PROPERTIES
  EveryRecordIsArchived
\* Once every record is archived and old nothing is left to do.
CHECK_DEADLOCK FALSE
