SPECIFICATION RecoverySpec
CONSTANTS
  NONE = NONE
  a1 = a1  a2 = a2  p1 = p1  p2 = p2
  gA = gA  gB = gB  t1 = t1  t2 = t2
  admin = admin  deputy = deputy
  Aircraft = {a1, a2}
  Pilots = {p1, p2}
  Groups = {gA, gB}
  Tickets = {t1, t2}
  GroupOf <- MCGroupOf
  Seats <- OneSeat
  ReferenceCapacity = 1
  MaxDeferrals = 2
  MaxRotations = 2
  Commands <- LiveCommands
  Devices = {admin, deputy}
  RoleOf <- TwoAdmins
  MaxBatches = 2
  Runs <- ShortRuns
SYMMETRY RecoverySymmetry
INVARIANTS OneHolder VerdictStands TicketsFollowRotation
PROPERTIES PaperMovesOn
CHECK_DEADLOCK FALSE
