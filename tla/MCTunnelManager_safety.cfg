SPECIFICATION Spec
CONSTANTS
  Domain = {d1, d2}
  Conn = {c1, c2}
  Stream = {s1}
  NoConn = NoConn
  NoDomain = NoDomain
  MaxBytes = 1
  DBMayFail = TRUE
SYMMETRY Symmetry
INVARIANT CountersFollowSession LiveAgentsAreReachable BytesGoToTheirOwner
PROPERTY OpensOnCurrentSession
