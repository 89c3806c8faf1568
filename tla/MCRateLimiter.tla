---------------------------- MODULE MCRateLimiter ----------------------------
(* Bounds for RateLimiter, given in the configurations: three slots, so that  *)
(* the past half of the cycle is not the whole of it, and a remainder.       *)
EXTENDS RateLimiter
=============================================================================
