SPECIFICATION Spec
CONSTANTS
  Hooks = 3
  Wraps = 2
  Inputs = {x, y}
  MaxCalls = 2
INVARIANTS
  PhaseContract
  HooksSeeTheHandlersInput
CHECK_DEADLOCK FALSE
