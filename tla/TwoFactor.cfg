SPECIFICATION Spec
CONSTANTS
  Requests = {r1, r2}
  Workloads <- AllWorkloads
  Secrets = {s1, s2}
  Codes = {c1, c2, c3}
  CodeCount = 1
  ValidWindow = 1
  OtpSteps = {0, 1}
  None = None
SYMMETRY Symmetry
INVARIANTS TypeOK OtpReuseOverlaps CodeReuseOverlaps
PROPERTIES GateHolds OldCodesDie OnlyDisableTurnsOff
CHECK_DEADLOCK FALSE
