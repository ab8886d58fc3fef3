SPECIFICATION SpecSessions
CONSTANTS
  Domain = {d1}
  Conn = {c1, c2}
  Stream = {s1}
  NoConn = NoConn
  NoDomain = NoDomain
  MaxBytes = 1
  DBMayFail = FALSE
SYMMETRY Symmetry
INVARIANT RowsStayWithinDomainTraffic
