CONSTANTS
  UseAnnounceIP = FALSE
  Loop = {l1, l2}
  Cleaner = {k1}
  Cid = {1, 2}
  ProtocolID = 0
  Source <- Clients
  Peer = {"p1", "bad"}
  Banned = {"bad"}
  Datagrams <- Mixed
  ConnectionTimeout = 1
  TickDelay = 1
  MaxTime = 3
  None = None
SPECIFICATION FairSpec
INVARIANTS TypeOK RoundTrip FreshIsHonoured OneReply
PROPERTIES EventuallyForgotten
