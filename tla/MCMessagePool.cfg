SPECIFICATION FairSpec
CONSTANTS
  c1 = c1
  c2 = c2
  c3 = c3
  c4 = c4
  c5 = c5
  Cmd <- AllCmd
  ProxyCmd <- SomeProxy
  Client = {client1, client2}
  Player = player
  Mate = mate
  NULL = NULL
  MESSAGE_MAX = 2
INVARIANTS TypeOK RingShape Ownership PeekedIsOldest NoLeak
PROPERTIES QueueSpec DiscardsOnlyOldest EveryCommandLeaves
