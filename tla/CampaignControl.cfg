SPECIFICATION Spec
CONSTANTS
  Callers = {t1, t2}
  Workers = {t2}
  Ops <- Operations
  PlannerStops = {"blocked"}
  MaxCalls = 2
  MaxRounds = 1
  MaxTroubles = 1
INVARIANT TypeOK
INVARIANT RegisteredIsBetweenRounds
INVARIANT NoPhantomJob
INVARIANT NobodyIsStuck
PROPERTY PauseIsRespected
CHECK_DEADLOCK FALSE
PROPERTY StopIsFinal
