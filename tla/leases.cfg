SPECIFICATION Spec
CONSTANTS
  NONE = NONE
  d1 = d1  d2 = d2  o1 = o1  o2 = o2
  Devices = {d1, d2}
  OperatorOf <- MCOperatorOf
  Aircraft = {a1, a2}
  Helpers = {d1}
  Groups = {g1, g2}
  Rotations = {r1, r2}
  Asks = {k1, k2}
  MaxClaimAsks = 1
  MaxCommands = 2
SYMMETRY GroupSymmetry
INVARIANTS TypeOK LeasesDisjoint
PROPERTIES CallsEndLeases LeaseKept
CHECK_DEADLOCK FALSE
