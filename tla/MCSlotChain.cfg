SPECIFICATION DomainSpec
CONSTANTS
  Policies = {"Pipeline", "FirstSuccess", "SingleOwner", "Broadcast", "BestEffort"}
  MaxBindings = 3
  Callers = {"registry", "domain"}
  Raised = {"InvalidConfiguration", "PermissionDenied", "Unknown"}
INVARIANTS
  PayloadIsLatest
  NoneMeansNobody
  CalledInOrder
  EntersAreClosed
  NotesReplayTheChain
CHECK_DEADLOCK FALSE
