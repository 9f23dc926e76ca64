SPECIFICATION Spec
CONSTANTS
  Source = {"s1", "s2"}
  Existing = {"s1"}
  Fields <- MCFields
  Upper = {"K2"}
  Name = {"a", "b"}
  Worker = {w1, w2}
  Backends = {"memory", "file", "env", "keyring"}
  Asks <- MCAsks
  FileName = "a"
  FileAsk <- MCFileAsk
  ScriptField = "K2"
  MaxCalls = 2
  MaxEvents = 3
SYMMETRY MCSymmetry
INVARIANTS
  CallsAreWhole
  MaskIsTrue
PROPERTIES
  DeletedStaysDeleted
  BootConverges
  StoreIsMap
CHECK_DEADLOCK FALSE
