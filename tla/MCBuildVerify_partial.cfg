SPECIFICATION Spec
CONSTANTS
  v1 = v1
  v2 = v2
  Procs = {p1}
  Versions = {v1, v2}
  Leaves <- ThreeLeaves
  VersionOf <- TheirVersions
  Signed <- AllButThird
  Matching <- AllButSecond
  Cleanup = TRUE
  Faults = TRUE
INVARIANT SwitchEnsures
