CONSTANTS
  UseAnnounceIP = FALSE
  MaxCalls = 2
  Admin = {a1, a2}
  InfoHash = {h1}
  PeerID = {p1, p2}
  Requests <- MCRequests
  Orders <- MCOrders
  MayFail = {"write", "read", "restore"}
  TTL = 1
  MaxTime = 1
  MaxFaults = 2
  MaxOrders = 3
  None = None
  h1 = h1
  p1 = p1
  p2 = p2
SPECIFICATION Spec
INVARIANTS TypeOK BansHold AnswerFresh LatestWins
