---------------------------- MODULE CheckoutContract ----------------------------
(***************************************************************************)
(* What the checkout promises a customer, whatever fails on the way        *)
(* (docs/plans/stripe-checkout-orchestrator.md:17-20): an order is placed  *)
(* from lines that were in the cart; its payment is decided once, and not  *)
(* before the order exists; it is booked as PAID only when the payment was *)
(* captured; and the cart is emptied only for an order that was booked,    *)
(* and once for each.                                                      *)
(*                                                                         *)
(* It does not promise that a captured payment is booked: that takes that  *)
(* nothing fails.                                                          *)
(***************************************************************************)
CONSTANTS Orders,    \* order identifiers
          Items      \* the cart lines that the customer may ever add

VARIABLES cart,      \* what is in the cart
          added,     \* what was ever put into it
          placed,    \* placed[o]: the lines of o, none before o exists
          money,     \* money[o]: what has become of the payment of o
          booked,    \* the orders that were marked PAID
          emptied    \* the orders whose checkout has emptied the cart

vars == <<cart, added, placed, money, booked, emptied>>

Init ==
  /\ cart = {} /\ added = {}
  /\ placed = [o \in Orders |-> {}]
  /\ money = [o \in Orders |-> "none"]
  /\ booked = {} /\ emptied = {}

Add(i) ==
  /\ i \notin added
  /\ cart' = cart \cup {i}
  /\ added' = added \cup {i}
  /\ UNCHANGED <<placed, money, booked, emptied>>

Place(o, lines) ==
  /\ placed[o] = {}
  /\ lines # {} /\ lines \subseteq added
  /\ placed' = [placed EXCEPT ![o] = lines]
  /\ UNCHANGED <<cart, added, money, booked, emptied>>

Settle(o, decision) ==
  /\ placed[o] # {}
  /\ money[o] = "none"
  /\ money' = [money EXCEPT ![o] = decision]
  /\ UNCHANGED <<cart, added, placed, booked, emptied>>

Book(o) ==
  /\ money[o] = "captured"
  /\ booked' = booked \cup {o}
  /\ UNCHANGED <<cart, added, placed, money, emptied>>

Empty(o) ==
  /\ o \in booked \ emptied
  /\ cart' = {}
  /\ emptied' = emptied \cup {o}
  /\ UNCHANGED <<added, placed, money, booked>>

Next ==
  \/ \E i \in Items : Add(i)
  \/ \E o \in Orders :
       \/ \E lines \in SUBSET Items : Place(o, lines)
       \/ \E decision \in {"captured", "declined"} : Settle(o, decision)
       \/ Book(o) \/ Empty(o)

Spec == Init /\ [][Next]_vars
=============================================================================
