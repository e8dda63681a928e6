SPECIFICATION Spec
CONSTANTS
  Hosts = {owner, guest}
  Controllers = {owner}
  Invokers = {owner}
  MaxStarts = 2
  MaxPosts = 3
  MaxApplied = 4
  Faults = {"command", "step"}
  JoinTimeout = FALSE
INVARIANTS
  NoCommandLost
  CrashIsObservable
CHECK_DEADLOCK FALSE
