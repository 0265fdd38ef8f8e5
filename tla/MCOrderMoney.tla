------------------------------ MODULE MCOrderMoney ------------------------------
(***************************************************************************)
(* Instances of OrderMoney for TLC.                                        *)
(***************************************************************************)
EXTENDS OrderMoney, TLC

\* In quarters of a cent.  The first costs nothing once its price is rounded;
\* the third, at most what the column holds, more than that then; the fourth
\* less.
MCCarts ==
  { <<[quantity |-> 1, unitPrice |-> 1]>>,
    <<[quantity |-> 1, unitPrice |-> 3]>>,
    <<[quantity |-> 6, unitPrice |-> 2]>>,
    <<[quantity |-> 2, unitPrice |-> 5], [quantity |-> 1, unitPrice |-> 3]>> }

\* Sound: only safety is checked.
Symmetry == Permutations(Orders) \cup Permutations(Requests)
=============================================================================
