SPECIFICATION Spec
CONSTANTS
  NONE = NONE
  a1 = a1  a2 = a2  p1 = p1  p2 = p2
  gA = gA  gB = gB  t1 = t1  t2 = t2  t3 = t3  t4 = t4
  Aircraft = {a1, a2}
  Pilots = {p1, p2}
  Groups = {gA, gB}
  Tickets = {t1, t2, t3}
  GroupOf <- MCGroupOf
  Seats <- BigAndSmall
  ReferenceCapacity = 3
  MaxDeferrals = 2
  MaxRotations = 2
  Commands <- FleetRunCommands
SYMMETRY CrewSymmetry
INVARIANTS AircraftFollowsRotation CrewConsistent BindingFollowsCall
PROPERTIES ImplementsDuty
CHECK_DEADLOCK FALSE
