SPECIFICATION FairSpec
CONSTANTS
  f1 = f1
  f2 = f2
  other = other
  Findings = {f1}
  Drafts = {d1}
  FindingOf <- OneFinding
  Requests = {r1, r2}
  Ops = {"create", "approve", "submit"}
  Contents = {c1}
  MaxClaims = 2
  MaxGrants = 1
  MaxScope = 1
  MaxEvidence = 1
  MaxLapses = 1
  MaxCrashes = 1
INVARIANT OnlyApprovedIsPosted
INVARIANT OnePostPerClaim
PROPERTY KeepsGate
PROPERTY ClaimDoesNotWedge
CHECK_DEADLOCK FALSE
