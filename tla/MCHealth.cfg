SPECIFICATION FairSpec
CONSTANTS
  Handles = {h1, h2}
  MaxRefresh = 8
  MaxDrift = 0
  MaxAge = 165
INVARIANTS TypeOK RecoversInTime
PROPERTIES StillErrorKeepsStep ChosenAgain
