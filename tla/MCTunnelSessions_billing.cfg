SPECIFICATION FairSpecSessions
CONSTANTS
  Domain = {d1}
  Conn = {c1}
  Stream = {s1}
  NoConn = NoConn
  NoDomain = NoDomain
  MaxBytes = 2
  DBMayFail = TRUE
INVARIANT RowsStayWithinDomainTraffic
PROPERTY BillsLikeAMeter GhostsAreRemoved UsageIsCollected
