SPECIFICATION FairSpec
CONSTANTS
  t1 = t1
  k1 = k1
  Tunnels = {t1}
  Keys = {k1}
  None = None
  Account = Account
  PlanTunnels = 1
  Features <- MCFeatures
  MaxFetches = 2
  MaxOps = 1
INVARIANTS DialogAsksWhatItDoes
PROPERTIES ShowsWhatTheServerHas
