------------------------------ MODULE MCCheckout ------------------------------
(***************************************************************************)
(* Instances of Checkout for TLC.                                          *)
(***************************************************************************)
EXTENDS Checkout, TLC

\* Sound for the safety runs only.
Symmetry == Permutations(Orders) \cup Permutations(Requests) \cup Permutations(Items)

\* Which events are out decides nothing in a checkout, so the runs that ask for
\* no event need not tell such states apart.
EventsAside == <<rows, pc, call, entity, reply, committed, checkoutVars>>
=============================================================================
