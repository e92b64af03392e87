\* Two calls to the same destination, where nothing fails.
SPECIFICATION Spec
CONSTANTS
  Calls = {b1, b2}
  Destinations = {d1}
  Chunks = 1
  MaxCommits = 0
  Leftovers = {}
  MaxFaults = 0
INVARIANT
  BackupStays
CHECK_DEADLOCK FALSE
