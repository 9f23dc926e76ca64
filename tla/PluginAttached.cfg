SPECIFICATION Spec
CONSTANTS
  Worker = {w1, w2}
  Version = {v1, v2, v3}
  Id = {i1, i2}
  Source = {s1}
  None = None
  Scenarios <- Races
SYMMETRY Symmetry
INVARIANTS AttachedPluginStays
CHECK_DEADLOCK FALSE
