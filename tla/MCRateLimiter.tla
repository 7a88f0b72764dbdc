---------------------------- MODULE MCRateLimiter ----------------------------
(* RateLimiter for TLC: a default limit and a stricter route limit.         *)
EXTENDS RateLimiter

CONSTANTS DefaultLimit, RouteLimit

MCLimit == [i \in {"default", "route"} |-> IF i = "default" THEN DefaultLimit ELSE RouteLimit]
=============================================================================
