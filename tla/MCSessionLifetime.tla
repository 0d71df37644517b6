------------------------- MODULE MCSessionLifetime -------------------------
(* A small instance of SessionLifetime: half-second ticks, two concurrent      *)
(* requests, two refresh tokens, the refresh token as long as the absolute     *)
(* limit. The .cfg files set the idle limit against the access token.          *)
EXTENDS SessionLifetime, TLC

CONSTANTS j1, j2, j3
Symmetry == Permutations(Requests) \cup Permutations(Jtis \ {FirstJti})
==============================================================================
