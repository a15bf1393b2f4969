SPECIFICATION Spec
CONSTANTS
  Procs = {p1}
  Inputs = {i1, i2}
  Budgets <- OneOrTwoEngines
  Results = {"completed", "timed_out", "raised"}
  Verdicts = {"run", "environment"}
  MaxOpens = 2
  MaxResumes = 1
  MaxFaults = 1
INVARIANT TypeOK
INVARIANT EachKeyRunsOnce
PROPERTY RunsWithinLimit
PROPERTY LedgerIsMonotone
PROPERTY EndsAreFinal
PROPERTY KeepsLedger
CHECK_DEADLOCK FALSE
SYMMETRY Symmetry
