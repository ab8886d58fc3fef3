SPECIFICATION FairSpec
CONSTANTS
  d1 = d1
  d2 = d2
  d3 = d3
  Domains = {d1, d2, d3}
  Taken = {d3}
  None = None
  MaxVisits = 2
  MaxSaves = 2
  MaxChecks = 2
INVARIANTS RegistrationIsComplete
PROPERTIES AgentIsNoticed
CHECK_DEADLOCK FALSE
