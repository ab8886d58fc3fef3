CONSTANTS
  Agent = {a1}
  Conn = {c1, c2}
  NoConn = noconn
  NoAgent = noagent
  MaxDelay = 3
  MaxTrouble = 1
SPECIFICATION Spec
PROPERTIES OldGivesWayToNew
