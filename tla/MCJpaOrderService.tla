--------------------------- MODULE MCJpaOrderService ---------------------------
(***************************************************************************)
(* Instances of JpaOrderService for TLC.                                   *)
(***************************************************************************)
EXTENDS JpaOrderService, TLC

\* Sound: only safety is checked.
Symmetry == Permutations(Orders) \cup Permutations(Requests)
=============================================================================
