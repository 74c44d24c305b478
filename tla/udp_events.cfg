CONSTANTS
  UseAnnounceIP = FALSE
  Loop = {l1}
  Cleaner = {k1, k2}
  Cid = {1}
  ProtocolID = 0
  Source <- OneClient
  Peer = {"p1", "bad"}
  Banned = {"bad"}
  Datagrams <- Events
  ConnectionTimeout = 2
  TickDelay = 2
  MaxTime = 2
  None = None
SPECIFICATION FairSpec
PROPERTIES StoppedLeaves
