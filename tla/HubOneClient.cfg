\* One UI that may leave, two sessions; the agent's reads succeed.
CONSTANTS
  Clients = {c1}
  Attachers = {c1}
  MaxSessions = 2
  Requests = {"attach", "watch", "unwatch", "call"}
  Addresses = {a1}
  Leavers = {c1}
  ReadsThrow = FALSE
SPECIFICATION FairSpec
INVARIANTS TypeOK
PROPERTIES HandlersReturn DeadAgentDropped WatchListPolled
\* When the UI has left and its target is gone, nothing runs.
CHECK_DEADLOCK FALSE
