\* One user; two ids for two plans, one of which the page lists; two answers that
\* overtake each other, one request under way, two changes.
SPECIFICATION FairSpec
CONSTANTS
  t1 = t1  i1 = i1  i2 = i2  free = free  pro = pro  None = None
  Hidden = Hidden  Message = Message  Closed = Closed
  Tenants = {t1}
  Ids = {i1, i2}
  Names = {free, pro}
  Listed = {free}
  Slots = {1, 2}
  MaxOps = 1
  MaxChanges = 2
PROPERTIES ImplementsCatalogue ListsFollowTheRelay
