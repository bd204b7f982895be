SPECIFICATION FairSpec
CONSTANTS
  Sync = {s1}
  Async = {a1}
  Sent = {"START", "PAUSE", "RESUME", "SEARCH_mid", "SEARCH_end", "FF", "FF_0", "LOOP"}
  Amutils = {}
  Trouble = {}
  MESSAGE_MAX = 4
  MaxSends = 2
CHECK_DEADLOCK FALSE
PROPERTIES
  NoPlayAfterStop
  StopReturns
