SPECIFICATION FairSpec
CONSTANTS
  Decoders = {"ARC", "ARM", "ARM_CODED"}
  MESSAGE_NUM_MAX = 3
  MaxSends = 2
  MaxChanges = 1
INVARIANTS TypeOK OutputIsFed DecodesIntoBuffer NothingLeftBehind ClockFollowsState
PROPERTIES RetryIsFutile ReleaseReturns
