SPECIFICATION Spec
CONSTANTS
  Worker = {w1, w2}
  Version = {v1, v2, v3}
  Id = {i1, i2, i3, i4}
  Source = {s1}
  None = None
  Scenarios <- Troubles
SYMMETRY Symmetry
INVARIANTS Recoverable SomeCopyLeft ReturnsInOrder
CHECK_DEADLOCK FALSE
