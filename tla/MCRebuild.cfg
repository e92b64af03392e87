\* Two tables, each with up to two rows; one failing call.
SPECIFICATION Spec
CONSTANTS
  Tables = {1, 2}
  Ids = {1, 2}
  LooseNames = {}
  MaxFaults = 1
INVARIANTS
  Faithful
PROPERTIES
  SoundSourceRebuilt
