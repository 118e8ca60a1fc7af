CONSTANTS
  ITERATIONS = 3
  WORD = 16
  LOW = 5
  READ_TICKS = 3
  MAX_TIME = 13
  RAM = 524288
  STACK_SIZE = 65536
  HEAP_SIZE = 2048
  Images = {200000, 393216, 393217, 450000, 456704, 456705}
  KeySizes = {4096, 12288}
  RSA_STACK = 20480
  FRAME = 288
  MAX_RETRY = 5
  BASE = 4
  CipherLen = 4
SPECIFICATION BoardSpec
INVARIANT PrintsMessage
CHECK_DEADLOCK FALSE
