SPECIFICATION Spec
CONSTANTS
  Requests = {r1, r2}
  Targets = {ta, tb}
  Rules = {k1, k2}
  Executions = {x1, x2}
  MaxScans = 3
  MaxCollections = 2
INVARIANT TypeOK
INVARIANT CollectedStatusIsEarned
PROPERTY KeepsPromise
PROPERTY EvidenceIsKept
CONSTRAINT BeforeOverlap
SYMMETRY Symmetry
CHECK_DEADLOCK FALSE
