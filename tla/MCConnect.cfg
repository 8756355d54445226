SPECIFICATION FairSpec
CONSTANTS
  Callers = {c1, c2}
  NumEndpoints = 2
  MaxCalls = 3
  MaxSwitches = 1
INVARIANTS TypeOK
PROPERTIES TriesAll MovesOn CallEnds
CHECK_DEADLOCK FALSE
