CONSTANTS
  Topup = {}
  Plan = {p1}
  Simulated = simulated
  Call = {c1, c2}
  NoCall = nocall
  BytesAdded <- MCBytesAdded
  MaxSent = 2
  MaxSimulated = 0
  MaxFail = 0
SPECIFICATION Spec
INVARIANTS OneSubscription
