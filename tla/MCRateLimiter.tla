--------------------------- MODULE MCRateLimiter ----------------------------
(* TLC instance of RateLimiter: two clients, two calls at a time.          *)
EXTENDS RateLimiter, TLC

CONSTANTS r1, r2, c1, c2

MCSymmetry == Permutations({r1, r2}) \cup Permutations({c1, c2})
=============================================================================
