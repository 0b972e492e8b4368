---------------------------- MODULE MCRateLimiter ----------------------------
(***************************************************************************)
(* Instances of RateLimiter.  Addresses, requests and limiters are each    *)
(* interchangeable, in RateLimiter and in TokenBucket, and no liveness is  *)
(* checked.                                                                *)
(***************************************************************************)
EXTENDS RateLimiter, TLC

MCSymmetry == Permutations(Addresses) \cup Permutations(Requests) \cup Permutations(Limiters)
=============================================================================
