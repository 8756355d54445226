SPECIFICATION FairSpec
CONSTANTS
  InsIds = {i1, i2, i3}
  Callers = {c1, c2}
  Nobody = Nobody
  DO_THREAD_COUNT = 2
  MaxCalls = 3
  MaxStops = 1
INVARIANTS TypeOK DoingHasJob HeartsBounded AgreesWithServer
PROPERTIES HeartsGoOn HeartsEnd
CHECK_DEADLOCK FALSE
