CONSTANTS
  Nodes = {n1, n2}
  Hosts = {n1, n2}
  Readers = {n2}
  Probes = {p1, p2}
  MaxVersion = 2
  StreamLength = 3
  MaxPatch = 1
  MaxFaults = 1
  Evictions = TRUE
  LostEvents = TRUE
  Nothing = Nothing
SPECIFICATION MCSpec
SYMMETRY Symmetry
INVARIANTS
  FetchedListsAreFresh
  CaughtUpNodesAgree
