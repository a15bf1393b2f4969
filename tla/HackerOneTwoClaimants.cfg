SPECIFICATION Spec
CONSTANTS
  f1 = f1
  f2 = f2
  other = other
  Findings = {f1}
  Drafts = {d1, d2}
  FindingOf <- OneFinding
  Requests = {r1, r2}
  Ops = {"create", "approve", "submit"}
  Contents = {c1}
  MaxClaims = 3
  MaxGrants = 3
  MaxScope = 0
  MaxEvidence = 0
  MaxLapses = 0
  MaxCrashes = 0
INVARIANT OneClaimantPerFinding
SYMMETRY Symmetry
