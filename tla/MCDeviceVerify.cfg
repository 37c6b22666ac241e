SPECIFICATION FairSpec
CONSTANTS
  Trees = {a, b}
  ForkAt = 1
  MaxSize = 3
  Faults = TRUE
INVARIANTS TypeOK VerifiedInOneLog GoodNotRejected
PROPERTIES Decided NearerVerdict
CHECK_DEADLOCK FALSE
