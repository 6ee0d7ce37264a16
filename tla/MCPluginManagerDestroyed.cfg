CONSTANTS
  p = p
  q = q
  e1 = e1
  e2 = e2
  None = None
  Names = {p, q}
  Incompatible = {}
  Registrations <- MCRegistrations
  Emissions = {e1, e2}
  Handlers <- MCHandlers
  MaxCalls = 4
  Scenarios <- MCScenarios
SPECIFICATION ManagerSpec
CHECK_DEADLOCK FALSE
INVARIANTS
  DestroyedHasNoPlugins
