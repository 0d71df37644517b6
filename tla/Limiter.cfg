SPECIFICATION FairSpec
CONSTANTS
  Requests = {r1, r2}
  Limit <- MCLimit
  Window = 1
  MaxFailures = 2
  Lockout = 2
  MaxErrors = 1
INVARIANTS TypeOK AdmittedPerWindow GuessesBounded
PROPERTIES LockEnds WindowReopens
