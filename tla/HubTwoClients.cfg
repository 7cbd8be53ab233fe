\* Two UIs that freeze: one attaches and may leave; reads may throw.
CONSTANTS
  Clients = {c1, c2}
  Attachers = {c1}
  MaxSessions = 2
  Requests = {"attach", "freeze"}
  Addresses = {a1}
  Leavers = {c1}
  ReadsThrow = TRUE
SPECIFICATION Spec
INVARIANTS OpenSessionIsHubs RunningPollerIsHubs AgentIsSessions
PROPERTIES StaleDetachHarmless ReturnedFreezesCleared
