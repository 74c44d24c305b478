CONSTANTS
  Calls = {c1, c2, c3, c4, c5}
  InfoHash = {"h"}
  PeerID = {1, 2, 3, 4}
  Requests <- SerialRequests
  None = None
  UseAnnounceIP = FALSE
  TTL = 1
  MaxPeersPerTorrent = 2
  MaxTime = 1
  MaxInflight = 1
SYMMETRY CallSymmetry
SPECIFICATION Spec
INVARIANTS RingDiscipline AnnouncedIsListed StoppedIsGone
PROPERTIES EvictsOldest
