CONSTANTS
  BUF_SIZE = 4
  TEST_ITERATIONS = 2
  SND_BUF = 6
  MAX_PBUF = 3
  U16 = 65536
  ReadLens <- MCReadLens
  WriteLens <- MCWriteLens
  ConnectStatus = {"ERR_OK", "ERR_OTHER"}
  PeerBytes = 6
  MaxBurst = 6
  WriteBytes = 3
  HelloLen = 3
  BuffSize = 2
  MAX_RETRY = 5
SPECIFICATION ClientSpec
INVARIANTS
  ClientTypeOK
  WifiResult
  CleanShutdown
  LockedAndJoined
  AnswerIntact
  AnswerFits
PROPERTIES
  ResourcesNest
  Terminates
CHECK_DEADLOCK FALSE
