SPECIFICATION Spec
CONSTANTS
  Roles = {A, B}
  Auths = {a1, a2}
  Procs = {p, q}
  Inputs = {pack, edited}
  Sealed = {pack}
  Commands = 2
  Lifetime = 1
  MaxDelay = 0
  MaxFaults = 1
  None = None
  Torn = Torn
CHECK_DEADLOCK FALSE
INVARIANTS WorkOnBurnedSerial ResultsHonest RevocationHonoured
SYMMETRY Symmetry
