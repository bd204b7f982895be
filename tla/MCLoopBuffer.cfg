SPECIFICATION FairSpec
CONSTANTS
  FileSize = 5
  LastBytes = 1
  ReadSeekMax = 3
  MaxSkip = 5
  MaxFailures = 1
  READ_RETRY_MAX = 1
  Trouble = {"refuse", "reject", "norange", "drop", "close", "again"}
  buffer_size = 4
  block_read_size = 2
  Reserve = 1
  BackReserve = 1
  Slack = 0
  BackMax = 2
  MAX_READ_SEEK = 3
  ReadMax = 2
  Offsets = {0, 2, 4}
  Unknown = Unknown
INVARIANTS TypeOK
PROPERTIES StreamSpec KeepsUnread InterruptEnds
