CONSTANTS
  Calls = {c1}
  Admins = {a1, a2}
  InfoHash = {"h1", "h2"}
  PeerID = {"p1", "p2"}
  IP = {"i1", "i2"}
  Requests <- SomeRequests
  Orders <- SomeOrders
  AddFails = TRUE
  MaxPeersPerTorrent = 600
  None = None
SPECIFICATION Spec
INVARIANTS TypeOK BansHold
