CONSTANTS
  IPv4 = {"v4a", "v4b", "v4c"}
  IPv6 = {"v6a"}
  BadIP = "bad"
  Port = {80, 22}
  FilterPorts = {80}
  MaxBlocked = 2
  Faults = {"put", "delete", "iterate"}
  Requests <- AdminRequests
  MaxCount = 4
  MaxPackets = 1
SPECIFICATION Spec
INVARIANTS TypeOK CountCovers
PROPERTIES Implements AnswerTrue
