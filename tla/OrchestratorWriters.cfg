SPECIFICATION Spec
CONSTANTS
  Procs = {p1, p2}
  Inputs = {i1}
  Budgets <- OneEngine
  Results = {"completed", "unavailable"}
  Verdicts = {"run", "environment"}
  MaxOpens = 2
  MaxResumes = 1
  MaxFaults = 0
INVARIANT HistoryIsConsistent
SYMMETRY Symmetry
CHECK_DEADLOCK FALSE
