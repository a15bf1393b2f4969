SPECIFICATION Spec
CONSTANTS
  f1 = f1
  f2 = f2
  other = other
  Findings = {f1}
  Drafts = {d1}
  FindingOf <- OneFinding
  Requests = {r1, r2}
  Ops = {"create", "edit", "approve", "submit"}
  Contents = {c1, c2}
  MaxClaims = 1
  MaxGrants = 1
  MaxScope = 0
  MaxEvidence = 0
  MaxLapses = 1
  MaxCrashes = 0
INVARIANT OnlyApprovedIsPosted
PROPERTY KeepsGate
SYMMETRY Symmetry
