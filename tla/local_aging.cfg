CONSTANTS
  Calls = {c1, c2, c3}
  InfoHash = {"h"}
  PeerID = {1, 2}
  Requests <- AgingRequests
  None = None
  UseAnnounceIP = FALSE
  TTL = 1
  MaxPeersPerTorrent = 1
  MaxTime = 2
  MaxInflight = 1
SPECIFICATION FairSpec
INVARIANTS CleanSweeps ScrapeExact
PROPERTIES EveryCallEnds
