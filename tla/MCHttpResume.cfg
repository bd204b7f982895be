SPECIFICATION Spec
CONSTANTS
  FileSize = 4
  LastBytes = 1
  ReadSeekMax = 3
  MaxSkip = 4
  MaxFailures = 2
  READ_RETRY_MAX = 1
  Trouble = {"refuse", "drop"}
  buffer_size = 4
  block_read_size = 2
  Reserve = 1
  BackReserve = 2
  Slack = 1
  BackMax = 2
  MAX_READ_SEEK = 4
  ReadMax = 2
  Offsets = {0, 2, 4}
  Unknown = Unknown
INVARIANTS ContinuesInPlace
