SPECIFICATION Spec
CONSTANTS
  Requests = {r1, r2}
  Workloads <- SetupWorkload
  Secrets = {s1, s2}
  Codes = {c1}
  CodeCount = 1
  ValidWindow = 1
  OtpSteps = {0}
  None = None
SYMMETRY Symmetry
INVARIANTS EnabledSecretProven
CHECK_DEADLOCK FALSE
