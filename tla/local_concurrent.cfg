CONSTANTS
  Calls = {c1, c2, c3}
  InfoHash = {"h"}
  PeerID = {1, 2}
  Requests <- ConcurrentRequests
  None = None
  UseAnnounceIP = FALSE
  TTL = 1
  MaxPeersPerTorrent = 1
  MaxTime = 1
  MaxInflight = 3
SYMMETRY CallSymmetry
SPECIFICATION Spec
INVARIANTS TypeOK Exclusive StoredAdmissible ResponseSound
PROPERTIES AddressStable
