CONSTANTS
  Hosts = {h1}
  Probes = {1, 2, 3}
  Data <- MCData
  Users = {"A", "B"}
  MaxRows = 3
  OnlineTimes <- MCTimes
  MaxEvents = 1
  Nothing = Nothing
SPECIFICATION FairSpec
INVARIANTS
  MatchesAreSound
PROPERTIES
  AdoptionsAreKept
  EveryProbeGetsItsRow
CHECK_DEADLOCK FALSE
