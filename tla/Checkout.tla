------------------------------- MODULE Checkout -------------------------------
(***************************************************************************)
(* The checkout orchestrator of go/internal/checkout: POST                 *)
(* /api/orders/checkout reads the customer's cart, creates an order from   *)
(* it, charges the payment service, marks the order PAID and clears the    *)
(* cart.  The module composes the handler with the order service of        *)
(* OrderLifecycle: a checkout is one of its Requests, and the handler's    *)
(* calls of CreateOrder and UpdateOrderStatus are that request's calls.    *)
(* Other requests cancel orders, and move them on, through the API.        *)
(*                                                                         *)
(* The basket and the payment service are other programs.  They are        *)
(* modelled from what client.go asks of them: the cart is a set of lines,  *)
(* each put into it once, and the payment service charges at most once for *)
(* an idempotency key, which is the order's id (client.go:125).  All       *)
(* checkouts are of one customer; those of others share nothing with them. *)
(***************************************************************************)
EXTENDS OrderLifecycle, FiniteSets

CONSTANTS Items,          \* the cart lines that the customer may ever add
          NoOrder,        \* own[r] of a checkout that has no order yet
          OtherStatuses   \* what other requests ask for in PATCH /status

ASSUME NoOrderAssumption == NoOrder \notin Orders

\* Only checkouts mark orders PAID.  The API lets anyone do it; whoever does
\* answers for the money.
ASSUME OtherStatusesAssumption == OtherStatuses \subseteq Statuses \ {"PAID"}

VARIABLES
  stage,      \* stage[r]: where r is in the Checkout handler, "none" outside it
  lines,      \* lines[r]: the cart as r has read it
  own,        \* own[r]: the id of the order that r has created
  outcome,    \* outcome[r]: the answer of the checkout
  cart,       \* basket: what is in the cart
  added,      \* basket, history: what was ever put into it
  payment,    \* payment service: payment[o] for idempotency key o
  ordered,    \* history: ordered[o] is the set of lines that o was made from
  emptied     \* history: the orders whose checkout has emptied the cart

checkoutVars == <<stage, lines, own, outcome, cart, added, payment, ordered, emptied>>

allVars == <<vars, checkoutVars>>

Stages == {"none", "create", "creating", "pay", "paying", "mark", "marking",
           "clear", "answer"}

Outcomes == {"none", "paid", "failed", "update_failed", "refused"}

CheckoutTypeOK ==
  /\ TypeOK
  /\ stage \in [Requests -> Stages]
  /\ lines \in [Requests -> SUBSET Items]
  /\ own \in [Requests -> Orders \cup {NoOrder}]
  /\ outcome \in [Requests -> Outcomes]
  /\ cart \in SUBSET Items /\ added \in SUBSET Items
  /\ payment \in [Orders -> {"none", "sent", "captured", "declined"}]
  /\ ordered \in [Orders -> SUBSET Items]
  /\ emptied \in SUBSET Orders

CheckoutInit ==
  /\ Init
  /\ stage = [r \in Requests |-> "none"]
  /\ lines = [r \in Requests |-> {}]
  /\ own = [r \in Requests |-> NoOrder]
  /\ outcome = [r \in Requests |-> "none"]
  /\ cart = {} /\ added = {}
  /\ payment = [o \in Orders |-> "none"]
  /\ ordered = [o \in Orders |-> {}]
  /\ emptied = {}

PaidCall(o) == [op |-> "update", order |-> o, status |-> "PAID"]

CancelCall(o) == [op |-> "cancel", order |-> o, status |-> "CANCELLED"]

-----------------------------------------------------------------------------
(* The handler *)

Enter(r, s) == stage' = [stage EXCEPT ![r] = s]

\* The handler has its answer; it returns without touching anything else.
Finish(r, result) ==
  /\ Enter(r, "answer")
  /\ outcome' = [outcome EXCEPT ![r] = result]

\* Bound: a checkout starts only while there is an id left for its order.
IdsLeft ==
  Cardinality({o \in Orders : Fresh(o)}) > Cardinality({r \in Requests : stage[r] = "create"})

\* basket.GetCart succeeds and the cart is not empty.
ReadCart(r) ==
  /\ stage[r] = "none" /\ pc[r] = "idle"
  /\ IdsLeft
  /\ cart # {}
  /\ Enter(r, "create")
  /\ lines' = [lines EXCEPT ![r] = cart]
  /\ UNCHANGED <<vars, own, outcome, cart, added, payment, ordered, emptied>>

\* 401, 400 or 502: no customer, a bad request, an empty cart, or no basket.
RefuseCheckout(r) ==
  /\ stage[r] = "none" /\ pc[r] = "idle"
  /\ cart = {} \/ Faults
  /\ Finish(r, "refused")
  /\ UNCHANGED <<vars, lines, own, cart, added, payment, ordered, emptied>>

\* orders.CreateOrder is called: the order is made from the lines as read.
CallCreate(r, o) ==
  /\ stage[r] = "create"
  /\ BeginCreate(r, o)
  /\ Enter(r, "creating")
  /\ ordered' = [ordered EXCEPT ![o] = lines[r]]
  /\ UNCHANGED <<lines, own, outcome, cart, added, payment, emptied>>

\* It returns an order, or an error, which the handler answers.
Created(r) ==
  /\ stage[r] = "creating"
  /\ Respond(r)
  /\ \/ /\ reply[r] = "ok"
        /\ Enter(r, "pay")
        /\ own' = [own EXCEPT ![r] = call[r].order]
        /\ UNCHANGED outcome
     \/ /\ reply[r] # "ok"
        /\ Finish(r, "refused")
        /\ UNCHANGED own
  /\ UNCHANGED <<lines, cart, added, payment, ordered, emptied>>

\* payment.ProcessPayment sends the request, with the order's id as its key.
Charge(r) ==
  /\ stage[r] = "pay"
  /\ payment' = [payment EXCEPT ![own[r]] = "sent"]
  /\ Enter(r, "paying")
  /\ UNCHANGED <<vars, lines, own, outcome, cart, added, ordered, emptied>>

\* Mutant: an answer that is not COMPLETED counts as paid.
PaidAnswer_AnyStatus(o) == payment[o] \in {"captured", "declined"}

\* Mutant: the status is compared with a word that the service does not use.
PaidAnswer_Never(o) == payment[o] = "succeeded"

\* outcome.Paid: a 2xx answer with status COMPLETED.
PaidAnswer(o) == payment[o] = "captured"

\* The payment service answers while the handler waits.
PaymentAnswered(r) ==
  /\ stage[r] = "paying"
  /\ payment[own[r]] \in {"captured", "declined"}
  /\ \/ PaidAnswer(own[r]) /\ Enter(r, "mark") /\ UNCHANGED outcome
     \/ ~PaidAnswer(own[r]) /\ Finish(r, "failed")
  /\ UNCHANGED <<vars, lines, own, cart, added, payment, ordered, emptied>>

\* ProcessPayment returns an error: no connection, the 30 s of its client are
\* over, or the caller has gone.  The payment service may not know.
PaymentLost(r) ==
  /\ Faults
  /\ stage[r] = "paying"
  /\ Finish(r, "failed")
  /\ UNCHANGED <<vars, lines, own, cart, added, payment, ordered, emptied>>

\* orders.UpdateOrderStatus is called: it finds the order PENDING, or not, or
\* fails to read it.  (It does find it: rows are never deleted.)
CallMarkPaid(r) ==
  /\ stage[r] = "mark"
  /\ \/ Prepare(r, PaidCall(own[r]))
     \/ Refuse(r, PaidCall(own[r]))
     \/ LoadFails(r)
  /\ Enter(r, "marking")
  /\ UNCHANGED <<lines, own, outcome, cart, added, payment, ordered, emptied>>

\* Mutant: the error of UpdateOrderStatus is ignored.
MarkedPaid_Ignored(r) ==
  /\ stage[r] = "marking"
  /\ Respond(r)
  /\ Enter(r, "clear")
  /\ UNCHANGED <<lines, own, outcome, cart, added, payment, ordered, emptied>>

\* Mutant: the error is answered like a failed payment, 402 and retryable.
MarkedPaid_SaysFailed(r) ==
  /\ stage[r] = "marking"
  /\ Respond(r)
  /\ \/ reply[r] = "ok" /\ Enter(r, "clear") /\ UNCHANGED outcome
     \/ reply[r] # "ok" /\ Finish(r, "failed")
  /\ UNCHANGED <<lines, own, cart, added, payment, ordered, emptied>>

\* It returns: the order is PAID, or the payment is captured and it is not.
MarkedPaid(r) ==
  /\ stage[r] = "marking"
  /\ Respond(r)
  /\ \/ reply[r] = "ok" /\ Enter(r, "clear") /\ UNCHANGED outcome
     \/ reply[r] # "ok" /\ Finish(r, "update_failed")
  /\ UNCHANGED <<lines, own, cart, added, payment, ordered, emptied>>

\* basket.ClearCart empties the cart, whatever it holds by now.
ClearCart(r) ==
  /\ stage[r] = "clear"
  /\ cart' = {}
  /\ emptied' = emptied \cup {own[r]}
  /\ Finish(r, "paid")
  /\ UNCHANGED <<vars, lines, own, added, payment, ordered>>

\* It fails and a warning is logged.
ClearCartFails(r) ==
  /\ Faults
  /\ stage[r] = "clear"
  /\ Finish(r, "paid")
  /\ UNCHANGED <<vars, lines, own, cart, added, payment, ordered, emptied>>

\* The handler answers and its goroutine ends.
Answer(r) ==
  /\ stage[r] = "answer"
  /\ Enter(r, "none")
  /\ lines' = [lines EXCEPT ![r] = {}]
  /\ own' = [own EXCEPT ![r] = NoOrder]
  /\ outcome' = [outcome EXCEPT ![r] = "none"]
  /\ UNCHANGED <<vars, cart, added, payment, ordered, emptied>>

\* The server process dies with the requests in lost.
CheckoutCrash(lost) ==
  /\ Crash(lost)
  /\ stage' = [r \in Requests |-> IF r \in lost THEN "none" ELSE stage[r]]
  /\ lines' = [r \in Requests |-> IF r \in lost THEN {} ELSE lines[r]]
  /\ own' = [r \in Requests |-> IF r \in lost THEN NoOrder ELSE own[r]]
  /\ outcome' = [r \in Requests |-> IF r \in lost THEN "none" ELSE outcome[r]]
  /\ UNCHANGED <<cart, added, payment, ordered, emptied>>

-----------------------------------------------------------------------------
(* The order service, the payment service and the customer *)

\* The service calls of all requests run as in OrderLifecycle.
ServiceStep(r) ==
  /\ \/ Write(r) \/ WriteFails(r) \/ WriteUnknown(r)
     \/ Publish(r) \/ PublishFails(r)
  /\ UNCHANGED checkoutVars

\* What other requests ask for through the API, of any order.
OtherCalls ==
  {CancelCall(o) : o \in Orders} \cup
  [op : {"update"}, order : Orders, status : OtherStatuses]

\* Such a request finds that the order's status allows it (one that is refused
\* changes nothing and is left out).
OtherEdit(r, c) ==
  /\ stage[r] = "none"
  /\ Prepare(r, c)
  /\ UNCHANGED checkoutVars

OtherAnswered(r) ==
  /\ stage[r] = "none"
  /\ Respond(r)
  /\ UNCHANGED checkoutVars

\* The payment service decides on a payment, perhaps after nobody waits for it.
Decide(o) ==
  /\ payment[o] = "sent"
  /\ \E decision \in {"captured", "declined"} :
       payment' = [payment EXCEPT ![o] = decision]
  /\ UNCHANGED <<vars, stage, lines, own, outcome, cart, added, ordered, emptied>>

AddItem(i) ==
  /\ i \notin added
  /\ cart' = cart \cup {i}
  /\ added' = added \cup {i}
  /\ UNCHANGED <<vars, stage, lines, own, outcome, payment, ordered, emptied>>

HandlerStep(r) ==
  \/ \E o \in Orders : CallCreate(r, o)
  \/ Created(r)
  \/ Charge(r) \/ PaymentAnswered(r) \/ PaymentLost(r)
  \/ CallMarkPaid(r) \/ MarkedPaid(r)
  \/ ClearCart(r) \/ ClearCartFails(r)
  \/ Answer(r)

CheckoutNext ==
  \/ \E r \in Requests :
       \/ ReadCart(r) \/ RefuseCheckout(r)
       \/ HandlerStep(r)
       \/ ServiceStep(r)
       \/ \E c \in OtherCalls : OtherEdit(r, c)
       \/ OtherAnswered(r)
  \/ \E lost \in SUBSET Requests : CheckoutCrash(lost)
  \/ \E o \in Orders : Decide(o)
  \/ \E i \in Items : AddItem(i)

CheckoutSpec == CheckoutInit /\ [][CheckoutNext]_allVars

\* Goroutines that can run do, and the payment service decides in the end.
CheckoutFairness ==
  /\ \A r \in Requests : WF_allVars(HandlerStep(r) \/ ServiceStep(r) \/ OtherAnswered(r))
  /\ \A o \in Orders : WF_allVars(Decide(o))

CheckoutLiveSpec == CheckoutSpec /\ CheckoutFairness
-----------------------------------------------------------------------------
(* Properties *)

Charged == {o \in Orders : payment[o] = "captured"}

\* No order is marked PAID whose payment was not captured (client.go:144,
\* handler.go:93-104): whatever is lost, cancelled or restarted on the way.
PaidWasCaptured == \A o \in Orders : "PAID" \in committed[o] => o \in Charged

\* A checkout that answers 402 has left its order unpaid, even if the payment
\* is captured later (docs/plans/stripe-checkout-orchestrator.md:20).
FailedIsNotPaid ==
  \A r \in Requests : outcome[r] = "failed" => "PAID" \notin committed[own[r]]

Promise == INSTANCE CheckoutContract WITH
  placed <- [o \in Orders |-> IF Exists(o) THEN ordered[o] ELSE {}],
  money <- [o \in Orders |-> IF payment[o] = "sent" THEN "none" ELSE payment[o]],
  booked <- {o \in Orders : "PAID" \in committed[o]}

\* The checkout implements its contract, whatever is lost, cancelled, moved on
\* or restarted: no payment before the order is stored, no PAID order without
\* the money, and no line leaves the cart but by the checkout of an order that
\* was booked (handler.go:86-111,
\* docs/plans/stripe-checkout-orchestrator.md:17-20).
KeepsCheckoutContract == Promise!Spec

\* When nothing fails, no captured payment is abandoned: its order is PAID, or was
\* cancelled meanwhile, or its checkout is still at work, so that once the
\* checkouts have ended all captured money is booked (handler.go:93-108).
NoChargeIsAbandoned ==
  ~Faults =>
    \A o \in Charged :
      \/ "PAID" \in committed[o] \/ "CANCELLED" \in committed[o]
      \/ \E r \in Requests : own[r] = o /\ stage[r] # "answer"

\* When nothing fails, a captured payment ends in an order marked PAID, or in
\* one that was cancelled meanwhile (handler.go:104-108).
ChargeIsBooked ==
  \A o \in Orders :
    o \in Charged ~> "PAID" \in committed[o] \/ "CANCELLED" \in committed[o]

\* A client may retry a failed checkout, and the payment service de-duplicates
\* (docs/plans/stripe-checkout-orchestrator.md:420): no cart line is charged
\* twice.  But a retry creates a new order, so it has a new key: when the first
\* payment was captured and its answer lost, the lines are charged again.
ChargedOnce ==
  \A o, p \in Charged : o # p => ordered[o] \cap ordered[p] = {}
=============================================================================
