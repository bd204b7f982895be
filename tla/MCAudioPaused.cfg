SPECIFICATION Spec
CONSTANTS
  Decoders = {"ARC"}
  MESSAGE_NUM_MAX = 3
  MaxSends = 2
  MaxChanges = 1
INVARIANT PauseHolds
