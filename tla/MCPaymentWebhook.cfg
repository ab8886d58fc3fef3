CONSTANTS
  Topup = {t1}
  Plan = {p1}
  Simulated = simulated
  Call = {c1, c2}
  NoCall = nocall
  BytesAdded <- MCBytesAdded
  MaxSent = 3
  MaxSimulated = 1
  MaxFail = 2
SPECIFICATION FairSpec
INVARIANTS AnsweredIsEntered
PROPERTIES ImplementsLedger PlanIsNeverMissing PaidIsEntered
