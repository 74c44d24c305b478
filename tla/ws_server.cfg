CONSTANTS
  Conn = {c1, c2}
  InfoHash = {h1, h2}
  PeerID = {p1, p2, p3, pb}
  Messages <- MCMessages
  Slow = {c1}
  Banned = {pb}
  MaxAnnounces = 3
  None = None
  c1 = c1
  c2 = c2
  h1 = h1
  h2 = h2
  p1 = p1
  p2 = p2
  p3 = p3
  pb = pb
SPECIFICATION FairSpec
INVARIANTS TypeOK SignalsSound ClosedIsUnlisted LiveIsListed
PROPERTIES GoneIsClosed
