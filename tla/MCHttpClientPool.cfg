SPECIFICATION FairSpec
CONSTANTS
  Requesters = {r1, r2, r3}
  Clients = {c1, c2}
  NoClient = NoClient
  m_defaultConnCount = 1
  m_maxConnCount = 2
  MaxEndpoint = 1
  MaxRequests = 3
INVARIANTS TypeOK ClientsApart StoppedIsUnused
PROPERTIES StopReturns
CHECK_DEADLOCK FALSE
