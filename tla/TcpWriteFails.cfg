CONSTANTS
  BUF_SIZE = 3
  TEST_ITERATIONS = 2
  SND_BUF = 4
  MAX_PBUF = 4
  U16 = 4
  ReadLens = {1, 2, 4}
  WriteLens = {2, 3, 5}
  ConnectStatus = {"ERR_OK", "ERR_OTHER"}
  PeerBytes = 5
  MaxBurst = 5
  WriteBytes = 8
SPECIFICATION Spec
INVARIANTS
  ClaimedIsQueued
CHECK_DEADLOCK FALSE
