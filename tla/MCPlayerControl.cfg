SPECIFICATION Spec
CONSTANTS
  Client = {c1, c2}
  Block = {b1, b2}
  Tid = {t1, t2}
  NULL = NULL
  MAX_PLAYER_THREADS = 3
SYMMETRY Interchangeable
INVARIANTS TypeOK NoUseAfterFree IdLeadsToPlayer ReleasedUnused NoBlockLost ListAccounted
