SPECIFICATION Spec
CONSTANTS
  Publishers = {t1, t2}
  Clients = {c1, c2}
  HistoryLimit = 2
  MaxNotifs = 3
INVARIANTS
  ExactlyOnceOnceSubscribed
  PublisherOrder
  ClientsAgree
PROPERTIES
  ClosedIsPruned
CHECK_DEADLOCK FALSE
