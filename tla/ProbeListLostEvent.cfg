CONSTANTS
  Nodes = {n1, n2}
  Hosts = {n1}
  Readers = {n2}
  Probes = {p1}
  MaxVersion = 1
  StreamLength = 2
  MaxPatch = 1
  MaxFaults = 1
  Evictions = FALSE
  LostEvents = TRUE
  Nothing = Nothing
SPECIFICATION Spec
INVARIANTS
  NewEntriesAreFresh
