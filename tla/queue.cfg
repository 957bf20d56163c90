SPECIFICATION QueueSpec
CONSTANTS
  NONE = NONE
  a1 = a1  p1 = p1
  gA = gA  gB = gB  gC = gC  t1 = t1  t2 = t2  t3 = t3
  Aircraft = {a1}
  Pilots = {p1}
  Groups = {gA, gB, gC}
  Tickets = {t1, t2, t3}
  GroupOf <- MCGroupOf
  Seats <- TwoSeats
  ReferenceCapacity = 2
  MaxDeferrals = 2
  MaxRotations = 3
  MaxSequence = 5
  Commands <- QueueRunCommands
SYMMETRY QueueSymmetry
INVARIANTS NumbersAlwaysFree
PROPERTIES NoOvertaking AbortedGoFirst
CHECK_DEADLOCK FALSE
