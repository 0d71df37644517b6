----------------------------- MODULE MCRateLimiter -----------------------------
(* Small instance of RateLimiter.                                               *)
EXTENDS RateLimiter

MCLimit == [k \in Windows |-> IF k = "global" THEN 3 ELSE 2]
===============================================================================
