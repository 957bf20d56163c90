SPECIFICATION FairSpec
CONSTANTS
  NONE = NONE
  c1 = c1  c2 = c2  g1 = g1  k1 = k1
  Commands = {c1}
  Groups = {g1}
  Captures = {k1}
  Types <- PlanTypes
  RecallBatch = 1
  MaxAttempts = 1
  MaxAsks = 1
  MaxLogos = 1
  MaxFaults = 1
PROPERTIES LoopNeverGoesBack CapturesAnswered PlanCatchesUp
CHECK_DEADLOCK FALSE
