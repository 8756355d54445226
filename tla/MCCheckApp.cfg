SPECIFICATION FairSpec
CONSTANTS
  InsIds = {i1, i2}
  Steady = {i1}
  Endpoints = {e1, e2}
  None = None
  Callers = {c1}
  Timer = Timer
  MaxChanges = 2
  MaxGen = 4
INVARIANTS TypeOK ListedIsRunning ListedHasTurn
PROPERTIES SteadyStays FollowsServer ErasedIsStopped ImplementsList
