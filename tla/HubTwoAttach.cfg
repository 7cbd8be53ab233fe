\* Two UIs that both attach.
CONSTANTS
  Clients = {c1, c2}
  Attachers = {c1, c2}
  MaxSessions = 3
  Requests = {"attach"}
  Addresses = {a1}
  Leavers = {}
  ReadsThrow = FALSE
SPECIFICATION Spec
INVARIANTS OpenSessionIsHubs
