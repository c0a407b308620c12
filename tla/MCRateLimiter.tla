---------------------------- MODULE MCRateLimiter ----------------------------
(* Small instances of RateLimiter for TLC; no symmetry, for liveness is     *)
(* checked.                                                                 *)
EXTENDS RateLimiter, TLC
=============================================================================
