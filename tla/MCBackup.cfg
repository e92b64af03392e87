\* Two calls, to one destination or to two, one name already in use.
SPECIFICATION Spec
CONSTANTS
  Calls = {b1, b2}
  Destinations = {d1, d2}
  Chunks = 2
  MaxCommits = 1
  Leftovers = {"destination", "wal"}
  MaxFaults = 1
INVARIANTS
  PublishedWhole
  ReturnsTruth
PROPERTIES
  PriorKept
  CallsEnd
CHECK_DEADLOCK FALSE
