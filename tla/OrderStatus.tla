----------------------------- MODULE OrderStatus -----------------------------
(***************************************************************************)
(* The status vocabulary of an order and the table of legal transitions:   *)
(* OrderStatus, IsValid and CanTransitionTo of go/internal/order/model.go. *)
(* The module has no state; every module that speaks of an order's status  *)
(* extends it.                                                             *)
(***************************************************************************)

Statuses == {"PENDING", "PAID", "PROCESSING", "SHIPPED", "COMPLETED", "CANCELLED"}

\* The edges of CanTransitionTo's switch; COMPLETED and CANCELLED have none.
Transitions ==
  { <<"PENDING", "PAID">>,        <<"PENDING", "CANCELLED">>,
    <<"PAID", "PROCESSING">>,     <<"PAID", "CANCELLED">>,
    <<"PROCESSING", "SHIPPED">>,  <<"PROCESSING", "CANCELLED">>,
    <<"SHIPPED", "COMPLETED">> }

\* Mutant: a cancelled order may be paid after all.
CanTransitionTo_Reopen(from, to) ==
  <<from, to>> \in Transitions \cup {<<"CANCELLED", "PAID">>}

\* Mutant: PROCESSING is skipped.
CanTransitionTo_SkipAhead(from, to) ==
  <<from, to>> \in Transitions \cup {<<"PENDING", "SHIPPED">>}

CanTransitionTo(from, to) == <<from, to>> \in Transitions

\* The statuses without an outgoing edge.
Terminal == {"COMPLETED", "CANCELLED"}
=============================================================================
