SPECIFICATION FairSpec
CONSTANTS
  u1 = u1
  u2 = u2
  s1 = s1
  s2 = s2
  s3 = s3
  Users = {u1, u2}
  Requests = {r1, r2}
  Sids = {s1, s2}
  Jtis = {j1, j2}
  ClientOps = {"login", "logout_all", "refresh"}
  Faults = {}
  Owner <- MCOwner
  NoRequest = NoRequest
  NoSid = NoSid
  NoJti = NoJti
PROPERTY
  EveryRequestEnds
CHECK_DEADLOCK FALSE
