SPECIFICATION Spec
CONSTANTS
  u1 = u1
  u2 = u2
  s1 = s1
  s2 = s2
  s3 = s3
  Users = {u1, u2}
  Requests = {r1, r2}
  Sids = {s1}
  Jtis = {j1, j2, j3}
  ClientOps = {"login", "refresh", "logout"}
  Faults = {}
  Owner <- MCOwner
  NoRequest = NoRequest
  NoSid = NoSid
  NoJti = NoJti
SYMMETRY Symmetry
INVARIANT
  LogoutEndsSession
CHECK_DEADLOCK FALSE
