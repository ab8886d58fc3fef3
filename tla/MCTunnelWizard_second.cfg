SPECIFICATION Spec
CONSTANTS
  d1 = d1
  d2 = d2
  d3 = d3
  Domains = {d1, d2, d3}
  Taken = {d3}
  None = None
  MaxVisits = 2
  MaxSaves = 1
  MaxChecks = 1
INVARIANTS AgentServesItsAddress
CHECK_DEADLOCK FALSE
