CONSTANTS
  Agent = {a1, a2}
  Conn = {c1, c2}
  NoConn = noconn
  NoAgent = noagent
  MaxDelay = 3
  MaxTrouble = 3
SPECIFICATION FairSpec
INVARIANTS OpenIsRegistered OnlyAcceptedIsServed
PROPERTIES Reconnects NobodyServesUnreached FailingAgentsSlowDown
