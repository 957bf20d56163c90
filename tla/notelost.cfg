SPECIFICATION Spec
CONSTANTS
  NONE = NONE
  c1 = c1  c2 = c2  g1 = g1  k1 = k1
  Commands = {c1}
  Groups = {g1}
  Captures = {}
  Types <- NoteTypes
  RecallBatch = 1
  MaxAttempts = 1
  MaxAsks = 0
  MaxLogos = 1
  MaxFaults = 0
INVARIANTS AcceptedNoteStored
CHECK_DEADLOCK FALSE
