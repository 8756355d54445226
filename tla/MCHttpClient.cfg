SPECIFICATION FairSpec
CONSTANTS
  IntLimit = 32
  LongLimit = 256
  DoubleLimit = 128
  EpsLimit = 8
  Threads = {t1, t2}
  None = None
  Instances <- MCInstances
  PostClearsUpload = TRUE
INVARIANTS TypeOK OwnTransfer QueriedIsRegistered
PROPERTIES StopEndsRequests
