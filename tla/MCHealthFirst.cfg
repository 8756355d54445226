SPECIFICATION Spec
CONSTANTS
  Handles = {h1}
  MaxRefresh = 2
  MaxDrift = 1
  MaxAge = 141
INVARIANTS FirstMayChoose
