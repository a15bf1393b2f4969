SPECIFICATION Spec
CONSTANTS
  Requests = {r1}
  Targets = {ta, tb}
  Rules = {k1}
  Executions = {x1}
  MaxScans = 2
  MaxCollections = 1
INVARIANT ReproducedHere
SYMMETRY Symmetry
CHECK_DEADLOCK FALSE
