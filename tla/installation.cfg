SPECIFICATION InstallationSpec
CONSTANTS
  NONE = NONE
  d1 = d1  d2 = d2  o1 = o1  o2 = o2
  Devices = {d1, d2}
  OperatorOf <- MCOperatorOf
  Aircraft = {a1}
  MaxClaimAsks = 3
  Phases <- MCPhases
  Resets = {c1, c2}
  Browsers = {b1, b2}
  MaxInstallations = 2
SYMMETRY InstallationSymmetry
INVARIANTS NothingOutlivesTheRoots NobodyLockedOut 
PROPERTIES ClaimsChangeHands SetupStartsClean
CHECK_DEADLOCK FALSE
