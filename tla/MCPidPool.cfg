SPECIFICATION Spec
CONSTANTS
  MAX_PLAYER_THREADS = 4
  Para = {para1}
  NULL = NULL
  MaxUse = 2
INVARIANTS TypeOK FreeIdIsClean
PROPERTIES ExhaustionIsForever
