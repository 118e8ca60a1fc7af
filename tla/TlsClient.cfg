CONSTANTS
  BUF_SIZE = 3
  TEST_ITERATIONS = 2
  SND_BUF = 4
  MAX_PBUF = 2
  U16 = 65536
  ReadLens <- MCRecords
  WriteLens <- MCRecords
  ConnectStatus = {"ERR_OK", "ERR_OTHER"}
  PeerBytes = 3
  MaxBurst = 3
  WriteBytes = 4
  MAX_RETRY = 2
SPECIFICATION TlsFairSpec
INVARIANTS
  TlsTypeOK
  SessionIsBacked
  HandshakeNeedsConnect
  LeftBehind
PROPERTIES
  NoWriteAfterFree
  ResourcesNest
  TlsTerminates
CHECK_DEADLOCK FALSE
