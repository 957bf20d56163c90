SPECIFICATION FairSpec
CONSTANTS
  NONE = NONE
  c1 = c1  c2 = c2  g1 = g1  k1 = k1
  Commands = {c1, c2}
  Groups = {g1, g2}
  Captures = {}
  Types <- AlarmTypes
  RecallBatch = 1
  MaxAttempts = 1
  MaxAsks = 0
  MaxLogos = 0
  MaxFaults = 1
INVARIANTS RecallsClosedOnce
PROPERTIES TickingKept CommandsAnswered DueRecallsEnd
CHECK_DEADLOCK FALSE
