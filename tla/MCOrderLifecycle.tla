-------------------------- MODULE MCOrderLifecycle --------------------------
(***************************************************************************)
(* Instances of OrderLifecycle for TLC.                                    *)
(***************************************************************************)
EXTENDS OrderLifecycle, TLC

\* Sound for the safety runs only.
Symmetry == Permutations(Orders) \cup Permutations(Requests)
=============================================================================
