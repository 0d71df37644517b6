SPECIFICATION Spec
CONSTANTS
  Requests = {r1, r2}
  NoRequest = NoRequest
  j1 = j1
  j2 = j2
  j3 = j3
  Jtis = {j1, j2}
  NoJti = NoJti
  FirstJti = j1
  Throttle = 1
  AccessLife = 2
  Idle = 2
  RefreshLife = 4
  RememberLife = 4
  Absolute = 4
  Second = 2
  Horizon = 6
SYMMETRY Symmetry
INVARIANT
  LimitsBindRefresh
CHECK_DEADLOCK FALSE
