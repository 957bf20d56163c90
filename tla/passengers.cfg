SPECIFICATION Spec
CONSTANTS
  NONE = NONE
  a1 = a1  a2 = a2  p1 = p1  p2 = p2
  gA = gA  gB = gB  t1 = t1  t2 = t2  t3 = t3  t4 = t4
  Aircraft = {a1}
  Pilots = {p1}
  Groups = {gA, gB}
  Tickets = {t1, t2, t3, t4}
  GroupOf <- FamilyGroupOf
  Seats <- TwoSeats
  ReferenceCapacity = 2
  MaxDeferrals = 2
  MaxRotations = 3
  Commands <- PassengerRunCommands
SYMMETRY FamilySymmetry
INVARIANTS GroupsFollowRotations SeatedInLiveRotation GroupsTogether NobodyLost
PROPERTIES EndedForGood ExceptionIsFinal
CHECK_DEADLOCK FALSE
