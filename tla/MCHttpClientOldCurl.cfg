SPECIFICATION Spec
CONSTANTS
  IntLimit = 32
  LongLimit = 256
  DoubleLimit = 128
  EpsLimit = 8
  Threads = {t1, t2}
  None = None
  Instances <- MCInstances
  PostClearsUpload = FALSE
INVARIANTS OwnTransfer
