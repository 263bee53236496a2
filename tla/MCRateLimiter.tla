---------------------------- MODULE MCRateLimiter ----------------------------
(***************************************************************************)
(* Instances of RateLimiter for TLC.                                       *)
(***************************************************************************)
EXTENDS RateLimiter, TLC

\* Threads are interchangeable: no definition names one.
ThreadSymmetry == Permutations(Threads)
=============================================================================
