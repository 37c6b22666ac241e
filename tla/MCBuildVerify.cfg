SPECIFICATION FairSpec
CONSTANTS
  v1 = v1
  v2 = v2
  Procs = {p1, p2}
  Versions = {v1, v2}
  Leaves <- ThreeLeaves
  VersionOf <- TheirVersions
  Signed <- AllButThird
  Matching <- AllButSecond
  Cleanup = FALSE
  Faults = TRUE
INVARIANTS TypeOK OneWriter PartialOnlyBroken EvidenceKept
PROPERTIES VerifyEnds NeverSetBack
