CONSTANTS
  Proc = {"p1", "p2"}
  MaxShard = 1
  Shards <- OneEach
  Key = {"a"}
  HashOf <- Hashes
  Word = 8
  Long = {}
  Huge = {"a"}
  TTL = 1
  Overlaps = {"launch", "save"}
  Faults = {}
  MaxTime = 0
  MaxStarts = 2
  MaxStores = 3
  MaxFaults = 0
  MaxJoins = 2
  None = None
SPECIFICATION FairSpec
PROPERTIES ShutdownEnds
CHECK_DEADLOCK FALSE
