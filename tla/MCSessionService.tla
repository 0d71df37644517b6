-------------------------- MODULE MCSessionService --------------------------
(* Small instances of SessionService: two users, the first with the sessions  *)
(* s1 and s2, the second with s3 if there is one.                             *)
EXTENDS SessionService, TLC

CONSTANTS u1, u2, s1, s2, s3

MCOwner == [s \in Sids |-> IF s = s3 THEN u2 ELSE u1]
Symmetry == Permutations(Requests) \cup Permutations(Sids \ {s3}) \cup Permutations(Jtis)
==============================================================================
