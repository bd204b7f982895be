SPECIFICATION Spec
CONSTANTS
  Sync = {s1}
  Async = {}
  Sent = {"PAUSE"}
  Amutils = {}
  Trouble = {"decoder"}
  MESSAGE_MAX = 4
  MaxSends = 1
CHECK_DEADLOCK FALSE
PROPERTIES
  NoPlayAfterStop
