CONSTANTS
  Request = {r1, r2, r3}
  Session = {s1, s2}
  NoSession = nosession
  NoRequest = norequest
  RingSize = 2
  ChanSize = 1
SPECIFICATION FairSpec
INVARIANTS EntryIsInOnePlace RingIsNewest
PROPERTIES LoggingNeverBlocks EntriesAreSaved
