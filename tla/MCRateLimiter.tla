--------------------------- MODULE MCRateLimiter ---------------------------
(* Model checking instance of RateLimiter. *)
EXTENDS RateLimiter
=============================================================================
