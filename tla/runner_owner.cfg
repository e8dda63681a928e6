SPECIFICATION FairSpec
CONSTANTS
  Hosts = {owner, guest}
  Controllers = {owner}
  Invokers = {owner}
  MaxStarts = 2
  MaxPosts = 3
  MaxApplied = 2
  Faults = {}
  JoinTimeout = FALSE
INVARIANTS
  TypeOK
  EngineSingleThreaded
  AppliedInPostOrder
PROPERTIES
  ImplementsCommandStream
  InvokeReturns
  PostedIsApplied
  InvokeIsABarrier
