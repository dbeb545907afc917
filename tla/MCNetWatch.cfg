SPECIFICATION FairSpec
CONSTANTS
  Callers = {c1, c2}
  Interfaces = {en0, wl0}
  Addrs = {a1, a2}
  MaxChanges = 2
  MaxRetries = 2
INVARIANTS
  FeedIsComplete
PROPERTIES
  SubscribeReturns
CHECK_DEADLOCK FALSE
