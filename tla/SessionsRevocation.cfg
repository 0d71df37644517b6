SPECIFICATION Spec
CONSTANTS
  u1 = u1
  u2 = u2
  s1 = s1
  s2 = s2
  s3 = s3
  Users = {u1, u2}
  Requests = {r1, r2}
  Sids = {s1, s2, s3}
  Jtis = {j1, j2}
  ClientOps = {"login", "me", "logout_current", "logout_all", "revoke_session"}
  Faults = {"abort", "lost_response"}
  Owner <- MCOwner
  NoRequest = NoRequest
  NoSid = NoSid
  NoJti = NoJti
SYMMETRY Symmetry
INVARIANTS
  AckedEndHolds
  LogoutAllComplete
  OwnershipEnforced
PROPERTY
  LedgerSpec
CHECK_DEADLOCK FALSE
