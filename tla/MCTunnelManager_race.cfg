SPECIFICATION Spec
CONSTANTS
  Domain = {d1}
  Conn = {c1}
  Stream = {s1}
  NoConn = NoConn
  NoDomain = NoDomain
  MaxBytes = 2
  DBMayFail = FALSE
INVARIANT NoByteIsForgotten
