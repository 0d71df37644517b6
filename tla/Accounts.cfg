SPECIFICATION Spec
CONSTANTS
  Requests = {r1, r2}
  Workloads <- AllWorkloads
  Uids = {u1, u2}
  Addresses = {a1, a2}
  Tids = {t1, t2, t3}
  Accounts = {p1, p2}
  States = {s1, s2}
  Profiles <- MCProfiles
  None = None
  a1 = a1
  a2 = a2
  p1 = p1
  p2 = p2
SYMMETRY Symmetry
INVARIANTS TypeOK OneAccountPerEmail TokenReuseOverlaps SupersededTokenDead IssueSupersedes VerifiedWasProven ResetByOwnMail StateReuseOverlaps AccountBelongsToOne AnsweredIsLinked AutoLinkProven
CHECK_DEADLOCK FALSE
