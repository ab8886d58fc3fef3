SPECIFICATION FairSpec
CONSTANTS
  Domain = {d1, d2}
  Conn = {c1}
  Topup = {t1, t2}
  NoRow = NoRow
  NoDomain = NoDomain
  TopupBytes = 1
  BonusBytes = 1
  MaxBytes = 2
INVARIANT LedgerAddsUp
PROPERTY UsedUpMeansThrottled OnlyPaymentLiftsThrottle LimiterFollowsTheRow
