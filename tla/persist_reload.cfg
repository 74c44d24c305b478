CONSTANTS
  Proc = {"p1", "p2"}
  MaxShard = 2
  Shards <- OneOrTwo
  Key = {"a", "b"}
  HashOf <- Hashes
  Word = 8
  Long = {}
  Huge = {}
  TTL = 0
  Overlaps = {}
  Faults = {"kill", "read", "write", "remove"}
  MaxTime = 1
  MaxStarts = 3
  MaxStores = 2
  MaxFaults = 1
  MaxJoins = 3
  None = None
SPECIFICATION Spec
INVARIANTS TypeOK Reachable
PROPERTIES NoStaleShard NothingForgotten
CHECK_DEADLOCK FALSE
