SPECIFICATION Spec
CONSTANTS
  NONE = NONE
  c1 = c1  c2 = c2  g1 = g1  k1 = k1
  Commands = {c1, c2}
  Groups = {g1}
  Captures = {}
  Types <- LogTypes
  RecallBatch = 1
  MaxAttempts = 2
  MaxAsks = 0
  MaxLogos = 1
  MaxFaults = 1
SYMMETRY CommandSymmetry
INVARIANTS TypeOK TailVersionsRise
PROPERTIES ImplementsCommandLog
CHECK_DEADLOCK FALSE
