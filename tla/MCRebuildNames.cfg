\* The second table has a name like "sqlitedata".
SPECIFICATION Spec
CONSTANTS
  Tables = {1, 2}
  Ids = {1}
  LooseNames = {2}
  MaxFaults = 0
INVARIANT
  Faithful
