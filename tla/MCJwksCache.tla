------------------------------ MODULE MCJwksCache ------------------------------
(***************************************************************************)
(* Instances of JwksCache (and with it of RateLimiter) for TLC.            *)
(***************************************************************************)
EXTENDS JwksCache, TLC

\* Sound: only safety is checked.
Symmetry == Permutations(Requests) \cup Permutations(Keys)
=============================================================================
