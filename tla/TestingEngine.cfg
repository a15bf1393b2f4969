SPECIFICATION Spec
CONSTANTS
  a = a
  b = b
  x = x
  c1 = c1
  c2 = c2
  Clients <- MCClients
  Urls <- MCUrls
  Origin <- MCOrigin
  Scopes <- MCScopes
  LabUrls <- MCLabUrls
  Calls <- MCCalls
  Kinds = {"agent_live", "agent_lab", "api_live"}
  Rates <- MCRates
  Window = 2
  Defaults <- MCDefaults
  LabLimits <- MCLabLimits
  MaxClock = 2
  MaxGrants = 2
  MaxRescopes = 1
  MaxRestarts = 1
INVARIANT TypeOK
INVARIANT LimitsHold
INVARIANT RateHolds
INVARIANT CredentialsStayHome
INVARIANT NothingWithoutAHuman
SYMMETRY Symmetry
CHECK_DEADLOCK FALSE
