SPECIFICATION Spec
CONSTANTS
  Requests = {r1, r2}
  Ops <- Everything
  Controllers = {"internal_llm", "cursor"}
  Tools = {"http_request", "exploratory_test"}
  Cancellable = {"http_request"}
  MaxIterations = 1
  MaxToolCalls = 1
  MaxTokens = 1
  MaxCalls = 3
  MaxTroubles = 1
INVARIANT TypeOK
INVARIANT WorkIsAuthorised
INVARIANT LockIsNotLost
PROPERTY StopIsFinal
PROPERTY PauseHolds
CHECK_DEADLOCK FALSE
