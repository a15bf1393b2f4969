SPECIFICATION Spec
CONSTANTS
  f1 = f1
  f2 = f2
  other = other
  Findings = {f1, f2}
  Drafts = {d1, d2, other}
  FindingOf <- TwoFindings
  Requests = {r1}
  Ops = {"create", "mark_ready", "approve", "submit", "reconcile"}
  Contents = {c1}
  MaxClaims = 2
  MaxGrants = 2
  MaxScope = 0
  MaxEvidence = 0
  MaxLapses = 0
  MaxCrashes = 1
INVARIANT TypeOK
INVARIANT RepostedOnlyAfterCrash
INVARIANT ReportIdsAreReal
PROPERTY ReportIdIsKept
SYMMETRY Symmetry
