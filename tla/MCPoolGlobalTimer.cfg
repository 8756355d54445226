SPECIFICATION FairSpec
CONSTANTS
  Pools = {p1, p2, p3}
INVARIANTS TypeOK VisitsLivePools ThreadInOrder
PROPERTIES DecStopReturns
CHECK_DEADLOCK FALSE
