SPECIFICATION Spec
CONSTANTS
  Domain = {d1}
  Conn = {c1}
  Topup = {t1}
  NoRow = NoRow
  NoDomain = NoDomain
  TopupBytes = 2
  BonusBytes = 1
  MaxBytes = 3
INVARIANT PaidQuotaIsUnthrottled
