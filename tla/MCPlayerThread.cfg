SPECIFICATION Spec
CONSTANTS
  Sync = {s1}
  Async = {}
  Sent = {"START", "PAUSE", "RESUME", "SEARCH_head", "SEARCH_mid", "SEARCH_end", "SEARCH_over", "FF", "FB", "FF_0", "SWITCH_AID", "LOOP", "NOLOOP"}
  Amutils = {"FF"}
  Trouble = {"io", "decoder", "late_mate"}
  MESSAGE_MAX = 2
  MaxSends = 2
CHECK_DEADLOCK FALSE
INVARIANTS
  TypeOK
  PauseAgrees
  StopedOnRequest
PROPERTIES
  ExitIsFinal
