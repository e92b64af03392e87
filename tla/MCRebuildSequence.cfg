\* A table whose highest row was deleted before the recovery.
SPECIFICATION Spec
CONSTANTS
  Tables = {1}
  Ids = {1, 2}
  LooseNames = {}
  MaxFaults = 0
INVARIANT
  KeysNotReused
