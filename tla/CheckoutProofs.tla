----------------------------- MODULE CheckoutProofs -----------------------------
(***************************************************************************)
(* Proofs about Checkout, for any number of orders, requests and cart      *)
(* lines, with or without faults: that the checkout runs inside the order  *)
(* service as OrderLifecycle describes it, its types, that no order is     *)
(* marked PAID without the money, and that it implements CheckoutContract. *)
(*                                                                         *)
(* A checkout owns an order from the moment CreateOrder is called with its *)
(* id.  Nobody else marks that order PAID, charges it or empties the cart  *)
(* for it; most of the invariant says how far the owner has come.          *)
(*                                                                         *)
(* The last sections prove that without faults no captured payment is      *)
(* abandoned, and that no line is charged twice by retries that are safe.  *)
(***************************************************************************)
EXTENDS Checkout, OrderLifecycleProofs

\* Types of what the checkout adds to the order service.
CheckoutTypes ==
  /\ stage \in [Requests -> Stages]
  /\ lines \in [Requests -> SUBSET Items]
  /\ own \in [Requests -> Orders \cup {NoOrder}]
  /\ outcome \in [Requests -> Outcomes]
  /\ cart \in SUBSET Items /\ added \in SUBSET Items
  /\ payment \in [Orders -> {"none", "sent", "captured", "declined"}]
  /\ ordered \in [Orders -> SUBSET Items]
  /\ emptied \in SUBSET Orders

\* The order that r owns: the one it creates, later the one it has created.
Mine(r) ==
  IF stage[r] = "creating" THEN {o \in Orders : call[r] = CreateCall(o)}
                           ELSE {own[r]} \cap Orders

\* A call of CreateOrder has failed, or it inserts or has inserted r's order.
Creating(r) ==
  /\ pc[r] # "idle"
  /\ \/ pc[r] = "done" /\ reply[r] = "error" /\ call[r] = NoCall
     \/ /\ pc[r] = "done" => reply[r] = "ok"
        /\ \E o \in Orders :
             call[r] = CreateCall(o) /\ ordered[o] # {} /\ (pc[r] # "write" => Exists(o))

\* A call of UpdateOrderStatus that was not refused marks r's order PAID.
Marking(r) ==
  /\ pc[r] # "idle"
  /\ pc[r] \in {"write", "publish"} \/ reply[r] = "ok" => call[r] = PaidCall(own[r])

\* Where a request is in the handler, and what it does in the order service.
HandlerOK(r) ==
  /\ stage[r] \in {"create", "pay", "paying", "mark", "clear", "answer"} => pc[r] = "idle"
  /\ stage[r] \in {"none", "create", "creating"} => own[r] = NoOrder
  /\ stage[r] \in {"pay", "paying", "mark", "marking", "clear"} => own[r] # NoOrder
  /\ own[r] # NoOrder => Exists(own[r])
  /\ stage[r] = "create" => lines[r] # {} /\ lines[r] \subseteq added
  /\ stage[r] = "creating" => Creating(r)
  /\ stage[r] = "marking" => Marking(r)
  /\ stage[r] = "none" /\ pc[r] = "write" => call[r].op # "create" /\ call[r].status # "PAID"
  /\ outcome[r] = "failed" => stage[r] = "answer" /\ own[r] # NoOrder

\* Nobody owns an order twice.
OwnersOK == \A r, q \in Requests : r # q => Mine(r) \cap Mine(q) = {}

\* How far the money and the books of r's order have come.
ProgressOK(r) ==
  /\ stage[r] \in {"creating", "pay"} => \A o \in Mine(r) : payment[o] = "none"
  /\ stage[r] \in {"mark", "marking", "clear"} => payment[own[r]] = "captured"
  /\ stage[r] \in {"creating", "pay", "paying"} \/ outcome[r] = "failed" =>
       \A o \in Mine(r) : "PAID" \notin committed[o]
  /\ stage[r] = "clear" => "PAID" \in committed[own[r]]
  /\ stage[r] # "answer" => Mine(r) \cap emptied = {}

\* Payments, lines and emptied carts are those of orders that allow them.
OrderOK(o) ==
  /\ payment[o] # "none" => Exists(o)
  /\ Exists(o) => ordered[o] # {}
  /\ ordered[o] \subseteq added
  /\ "PAID" \in committed[o] => payment[o] = "captured"
  /\ o \in emptied => "PAID" \in committed[o]

CInv ==
  /\ IInv
  /\ CheckoutTypes
  /\ cart \subseteq added
  /\ \A r \in Requests : HandlerOK(r) /\ ProgressOK(r)
  /\ OwnersOK
  /\ \A o \in Orders : OrderOK(o)

-----------------------------------------------------------------------------
(* The checkout runs inside the order service *)

\* The order of a checkout that has one.
LEMMA Owned ==
  ASSUME CInv, NEW r \in Requests, stage[r] \in {"pay", "paying", "mark", "marking", "clear"}
  PROVE  own[r] \in Orders /\ Mine(r) = {own[r]} /\ Exists(own[r])
<1>1. own[r] # NoOrder /\ Exists(own[r])
  BY DEF CInv, HandlerOK
<1>2. own[r] \in Orders
  BY <1>1 DEF CInv, CheckoutTypes
<1>3. QED
  BY <1>1, <1>2 DEF Mine

LEMMA PaidIsAnEdit ==
  ASSUME NEW o \in Orders
  PROVE  /\ PaidCall(o) \in EditCalls /\ PaidCall(o).op = "update"
         /\ PaidCall(o).status = "PAID" /\ PaidCall(o).order = o
BY DEF PaidCall, EditCalls, Statuses

\* Whatever others ask for is an edit, and not of the status PAID.
LEMMA OtherIsAnEdit ==
  ASSUME NEW c \in OtherCalls
  PROVE  c \in EditCalls /\ c.op # "create" /\ c.status # "PAID"
<1>1. ASSUME NEW o \in Orders, c = CancelCall(o)
      PROVE  c \in EditCalls /\ c.op # "create" /\ c.status # "PAID"
  BY <1>1 DEF CancelCall, EditCalls
<1>2. ASSUME c \in [op : {"update"}, order : Orders, status : OtherStatuses]
      PROVE  c \in EditCalls /\ c.op # "create" /\ c.status # "PAID"
  <2>1. OtherStatuses \subseteq Statuses /\ "PAID" \notin OtherStatuses
    BY OtherStatusesAssumption
  <2>2. c \in [op : {"update"}, order : Orders, status : Statuses]
    BY <1>2, <2>1
  <2>3. QED
    BY <1>2, <2>1, <2>2 DEF EditCalls
<1>3. QED
  BY <1>1, <1>2 DEF OtherCalls

\* Every step of the checkout is a step of the order service, or none of it.
LEMMA StepInside == CInv /\ [CheckoutNext]_allVars => [Next]_vars
<1> SUFFICES ASSUME CInv, [CheckoutNext]_allVars
             PROVE  [Next]_vars
  OBVIOUS
<1>1. ASSUME NEW r \in Requests, NEW o \in Orders, CallCreate(r, o)
      PROVE  [Next]_vars
  BY <1>1 DEF CallCreate, Next
<1>2. ASSUME NEW r \in Requests, Respond(r)
      PROVE  [Next]_vars
  BY <1>2 DEF Next
<1>3. ASSUME NEW r \in Requests, CallMarkPaid(r)
      PROVE  [Next]_vars
  <2>1. PaidCall(own[r]) \in EditCalls
    BY <1>3, Owned, PaidIsAnEdit DEF CallMarkPaid
  <2>2. QED
    BY <1>3, <2>1 DEF CallMarkPaid, Next
<1>4. ASSUME NEW r \in Requests, ServiceStep(r)
      PROVE  [Next]_vars
  BY <1>4 DEF ServiceStep, Next
<1>5. ASSUME NEW r \in Requests, NEW c \in OtherCalls, OtherEdit(r, c)
      PROVE  [Next]_vars
  BY <1>5, OtherIsAnEdit DEF OtherEdit, Next
<1>6. ASSUME NEW lost \in SUBSET Requests, CheckoutCrash(lost)
      PROVE  [Next]_vars
  BY <1>6 DEF CheckoutCrash, Next
<1>7. CASE UNCHANGED allVars
  BY <1>7 DEF allVars
<1>8. ASSUME NEW r \in Requests, ReadCart(r) \/ RefuseCheckout(r)
      PROVE  UNCHANGED vars
  BY <1>8 DEF ReadCart, RefuseCheckout
<1>9. ASSUME NEW r \in Requests, HandlerStep(r)
      PROVE  [Next]_vars
  BY <1>1, <1>2, <1>3, <1>9 DEF HandlerStep, Created, MarkedPaid, Charge, PaymentAnswered,
     PaymentLost, ClearCart, ClearCartFails, Answer
<1>10. ASSUME NEW o \in Orders, Decide(o)
       PROVE  UNCHANGED vars
  BY <1>10 DEF Decide
<1>11. ASSUME NEW i \in Items, AddItem(i)
       PROVE  UNCHANGED vars
  BY <1>11 DEF AddItem
<1>12. ASSUME NEW r \in Requests, OtherAnswered(r)
       PROVE  [Next]_vars
  BY <1>2, <1>12 DEF OtherAnswered
<1>13. QED
  BY <1>4, <1>5, <1>6, <1>7, <1>8, <1>9, <1>10, <1>11, <1>12 DEF CheckoutNext

\* And keeps the types of the checkout.
LEMMA NextTypes == CInv /\ [CheckoutNext]_allVars => CheckoutTypes'
<1> SUFFICES ASSUME CInv, [CheckoutNext]_allVars
             PROVE  CheckoutTypes'
  OBVIOUS
<1> USE DEF CInv, CheckoutTypes
<1>1. ASSUME NEW r \in Requests, ReadCart(r) \/ RefuseCheckout(r)
      PROVE  CheckoutTypes'
  BY <1>1 DEF ReadCart, RefuseCheckout, Enter, Finish, Stages, Outcomes
<1>2. ASSUME NEW r \in Requests, NEW o \in Orders, CallCreate(r, o)
      PROVE  CheckoutTypes'
  BY <1>2 DEF CallCreate, Enter, Stages
<1>3. ASSUME NEW r \in Requests, Created(r)
      PROVE  CheckoutTypes'
  <2>1. reply[r] = "ok" => call[r].order \in Orders
    <3>1. Creating(r)
      BY <1>3 DEF Created, HandlerOK
    <3>2. ASSUME NEW o \in Orders, call[r] = CreateCall(o)
          PROVE  call[r].order \in Orders
      BY <3>2 DEF CreateCall
    <3>3. QED
      BY <3>1, <3>2 DEF Creating
  <2>2. QED
    BY <1>3, <2>1 DEF Created, Enter, Finish, Stages, Outcomes
<1>4. ASSUME NEW r \in Requests, Charge(r)
      PROVE  CheckoutTypes'
  BY <1>4 DEF Charge, Enter, Stages
<1>5. ASSUME NEW r \in Requests,
             PaymentAnswered(r) \/ PaymentLost(r) \/ CallMarkPaid(r) \/ MarkedPaid(r)
      PROVE  CheckoutTypes'
  BY <1>5 DEF PaymentAnswered, PaymentLost, CallMarkPaid, MarkedPaid, Enter, Finish, Stages,
     Outcomes
<1>6. ASSUME NEW r \in Requests, ClearCart(r) \/ ClearCartFails(r)
      PROVE  CheckoutTypes'
  BY <1>6, Owned DEF ClearCart, ClearCartFails, Enter, Finish, Stages, Outcomes
<1>7. ASSUME NEW r \in Requests, Answer(r)
      PROVE  CheckoutTypes'
  BY <1>7 DEF Answer, Enter, Stages, Outcomes
<1>8. ASSUME NEW lost \in SUBSET Requests, CheckoutCrash(lost)
      PROVE  CheckoutTypes'
  BY <1>8 DEF CheckoutCrash, Stages, Outcomes
<1>9. ASSUME NEW o \in Orders, Decide(o)
      PROVE  CheckoutTypes'
  BY <1>9 DEF Decide
<1>10. ASSUME NEW i \in Items, AddItem(i)
       PROVE  CheckoutTypes'
  BY <1>10 DEF AddItem
<1>11. CASE UNCHANGED checkoutVars
  BY <1>11 DEF checkoutVars
<1>12. QED
  BY <1>1, <1>2, <1>3, <1>4, <1>5, <1>6, <1>7, <1>8, <1>9, <1>10, <1>11
  DEF CheckoutNext, HandlerStep, ServiceStep, OtherEdit, OtherAnswered, allVars

-----------------------------------------------------------------------------
(* Whom a step leaves alone *)

\* Nothing of q changes.
Kept(q) ==
  /\ stage'[q] = stage[q] /\ own'[q] = own[q] /\ lines'[q] = lines[q]
  /\ outcome'[q] = outcome[q] /\ pc'[q] = pc[q] /\ call'[q] = call[q] /\ reply'[q] = reply[q]

\* Nothing of o changes that its owner depends on.
Spared(o) ==
  /\ ordered'[o] = ordered[o]
  /\ payment[o] \in {"none", "captured"} => payment'[o] = payment[o]
  /\ "PAID" \in committed'[o] <=> "PAID" \in committed[o]
  /\ o \in emptied' <=> o \in emptied

\* Orders and cart lines only ever become more.
Grows == added \subseteq added' /\ \A o \in Orders : Exists(o) => Exists(o)'

LEMMA Bystander ==
  ASSUME CInv, NEW q \in Requests, Kept(q), Grows, \A o \in Mine(q) : Spared(o)
  PROVE  HandlerOK(q)' /\ ProgressOK(q)' /\ Mine(q)' = Mine(q)
<1> USE DEF Kept
<1>1. Mine(q)' = Mine(q)
  BY DEF Mine
<1>2. HandlerOK(q) /\ ProgressOK(q)
  BY DEF CInv
<1>3. own[q] # NoOrder => own[q] \in Orders
  BY DEF CInv, CheckoutTypes
<1>4. HandlerOK(q)'
  <2>1. stage[q] = "creating" => Creating(q)'
    <3>1. SUFFICES ASSUME stage[q] = "creating"
                   PROVE  Creating(q)'
      OBVIOUS
    <3>2. Creating(q)
      BY <1>2, <3>1 DEF HandlerOK
    <3>3. ASSUME NEW o \in Orders, call[q] = CreateCall(o)
          PROVE  ordered'[o] = ordered[o] /\ (Exists(o) => Exists(o)')
      BY <3>1, <3>3 DEF Mine, Grows, Spared
    <3>4. QED
      BY <3>2, <3>3 DEF Creating
  <2>2. stage[q] = "marking" => Marking(q)'
    BY <1>2 DEF HandlerOK, Marking
  <2>3. own[q] # NoOrder => Exists(own[q])'
    BY <1>2, <1>3 DEF HandlerOK, Grows
  <2>4. stage[q] = "create" => lines[q] # {} /\ lines[q] \subseteq added'
    BY <1>2 DEF HandlerOK, Grows
  <2>5. QED
    BY <1>2, <2>1, <2>2, <2>3, <2>4 DEF HandlerOK
<1>5. ProgressOK(q)'
  <2>1. stage[q] \in {"mark", "marking", "clear"} => own[q] \in Mine(q)
    BY Owned
  <2>2. QED
    BY <1>1, <1>2, <2>1 DEF ProgressOK, Spared
<1>6. QED
  BY <1>1, <1>4, <1>5

\* An order that a step spares stays as its books allow.
LEMMA SparedOrder ==
  ASSUME CInv, NEW o \in Orders, Spared(o), Grows, Exists(o)' => Exists(o),
         payment'[o] # payment[o] => Exists(o)
  PROVE  OrderOK(o)'
<1>1. OrderOK(o)
  BY DEF CInv
<1>2. QED
  BY <1>1 DEF OrderOK, Spared, Grows

\* What is left to show of a step in which nobody acquires an order.
LEMMA Combine ==
  ASSUME CInv, IInv', CheckoutTypes', cart' \subseteq added', NEW r \in Requests,
         \A q \in Requests : q # r => HandlerOK(q)' /\ ProgressOK(q)' /\ Mine(q)' = Mine(q),
         HandlerOK(r)' /\ ProgressOK(r)' /\ Mine(r)' \subseteq Mine(r),
         \A o \in Orders : OrderOK(o)'
  PROVE  CInv'
<1>1. \A q \in Requests : HandlerOK(q)' /\ ProgressOK(q)' /\ Mine(q)' \subseteq Mine(q)
  OBVIOUS
<1>2. OwnersOK'
  <2>1. ASSUME NEW p \in Requests, NEW q \in Requests, p # q
        PROVE  Mine(p)' \cap Mine(q)' = {}
    <3>1. Mine(p) \cap Mine(q) = {}
      BY <2>1 DEF CInv, OwnersOK
    <3>2. QED
      BY <1>1, <3>1
  <2>2. QED
    BY <2>1 DEF OwnersOK
<1>3. QED
  BY <1>1, <1>2 DEF CInv

\* Nobody owns what r owns.
LEMMA NotMine ==
  ASSUME CInv, NEW r \in Requests, NEW q \in Requests, q # r, NEW o \in Mine(r)
  PROVE  o \notin Mine(q)
BY DEF CInv, OwnersOK

-----------------------------------------------------------------------------
(* The steps of the handler that leave the order service alone *)

\* r moves on, and nothing changes that anybody else depends on.
LEMMA MovesOn ==
  ASSUME CInv, NEW r \in Requests, UNCHANGED <<vars, cart, added, ordered>>, CheckoutTypes',
         \A q \in Requests : q # r => /\ stage'[q] = stage[q] /\ own'[q] = own[q]
                                      /\ lines'[q] = lines[q] /\ outcome'[q] = outcome[q],
         \A o \in Orders : o \notin Mine(r) => payment'[o] = payment[o] /\ (o \in emptied' <=> o \in emptied),
         \A o \in Mine(r) : OrderOK(o)',
         HandlerOK(r)', ProgressOK(r)', Mine(r)' \subseteq Mine(r)
  PROVE  CInv'
<1>1. /\ rows' = rows /\ pc' = pc /\ call' = call /\ reply' = reply /\ committed' = committed
      /\ \A o : Exists(o)' <=> Exists(o)
  BY DEF vars, Exists
<1>2. IInv'
  BY NextIInv DEF CInv
<1>3. Grows
  BY <1>1 DEF Grows
<1>4. ASSUME NEW q \in Requests, q # r
      PROVE  HandlerOK(q)' /\ ProgressOK(q)' /\ Mine(q)' = Mine(q)
  <2>1. Kept(q)
    BY <1>1, <1>4 DEF Kept
  <2>2. ASSUME NEW o \in Mine(q)
        PROVE  Spared(o)
    <3>1. o \in Orders /\ o \notin Mine(r)
      BY <1>4, NotMine DEF Mine
    <3>2. QED
      BY <1>1, <3>1 DEF Spared
  <2>3. QED
    BY <1>3, <2>1, <2>2, Bystander
<1>5. ASSUME NEW o \in Orders, o \notin Mine(r)
      PROVE  OrderOK(o)'
  BY <1>1, <1>3, <1>5, SparedOrder DEF Spared
<1>6. QED
  BY <1>2, <1>4, <1>5, Combine DEF CInv

LEMMA ReadCartInv ==
  ASSUME CInv, NEW r \in Requests, ReadCart(r) \/ RefuseCheckout(r), CheckoutTypes'
  PROVE  CInv'
<1>1. /\ UNCHANGED <<vars, cart, added, ordered, payment, emptied, own>>
      /\ stage[r] = "none" /\ pc[r] = "idle" /\ own[r] = NoOrder
      /\ \A q \in Requests : q # r => /\ stage'[q] = stage[q] /\ lines'[q] = lines[q]
                                      /\ outcome'[q] = outcome[q]
  BY DEF ReadCart, RefuseCheckout, Enter, Finish, CInv, HandlerOK, CheckoutTypes
<1>2. \/ stage'[r] = "create" /\ lines'[r] # {} /\ lines'[r] \subseteq added /\ outcome'[r] = outcome[r]
      \/ stage'[r] = "answer" /\ outcome'[r] = "refused"
  BY DEF ReadCart, RefuseCheckout, Enter, Finish, CInv, CheckoutTypes
<1>3. Mine(r) = {} /\ Mine(r)' = {}
  BY <1>1, <1>2, NoOrderAssumption DEF Mine
<1>4. HandlerOK(r)'
  BY <1>1, <1>2 DEF HandlerOK, CInv, vars
<1>5. ProgressOK(r)'
  BY <1>1, <1>2, <1>3 DEF ProgressOK, CInv, HandlerOK
<1>6. QED
  BY <1>1, <1>3, <1>4, <1>5, MovesOn

\* From the charge to the payment's answer.
LEMMA ChargeInv ==
  ASSUME CInv, NEW r \in Requests, Charge(r), CheckoutTypes'
  PROVE  CInv'
<1>1. own[r] \in Orders /\ Mine(r) = {own[r]} /\ Exists(own[r])
  BY Owned DEF Charge
<1>2. /\ UNCHANGED <<vars, cart, added, ordered, emptied, own, lines, outcome>>
      /\ stage[r] = "pay" /\ stage'[r] = "paying"
      /\ \A q \in Requests : q # r => stage'[q] = stage[q]
      /\ payment' = [payment EXCEPT ![own[r]] = "sent"]
  BY DEF Charge, Enter, CInv, CheckoutTypes
<1>3. Mine(r)' = Mine(r)
  BY <1>2 DEF Mine
<1>4. HandlerOK(r)'
  BY <1>1, <1>2 DEF HandlerOK, CInv, vars, Exists
<1>5. ProgressOK(r)'
  BY <1>1, <1>2, <1>3 DEF ProgressOK, CInv, HandlerOK, vars
<1>6. OrderOK(own[r])'
  <2>1. OrderOK(own[r]) /\ "PAID" \notin committed[own[r]]
    BY <1>1, <1>2 DEF CInv, ProgressOK
  <2>2. QED
    BY <1>1, <1>2, <2>1 DEF OrderOK, vars, Exists
<1>7. \A o \in Orders : o \notin Mine(r) => payment'[o] = payment[o]
  BY <1>1, <1>2 DEF CInv, CheckoutTypes
<1>8. QED
  BY <1>1, <1>2, <1>3, <1>4, <1>5, <1>6, <1>7, MovesOn

LEMMA PaymentInv ==
  ASSUME CInv, NEW r \in Requests, PaymentAnswered(r) \/ PaymentLost(r), CheckoutTypes'
  PROVE  CInv'
<1>1. own[r] \in Orders /\ Mine(r) = {own[r]} /\ Exists(own[r])
  BY Owned DEF PaymentAnswered, PaymentLost
<1>2. /\ UNCHANGED <<vars, cart, added, ordered, emptied, own, lines, payment>>
      /\ stage[r] = "paying"
      /\ \/ stage'[r] = "mark" /\ payment[own[r]] = "captured" /\ outcome'[r] = outcome[r]
         \/ stage'[r] = "answer" /\ outcome'[r] = "failed"
      /\ \A q \in Requests : q # r => stage'[q] = stage[q] /\ outcome'[q] = outcome[q]
  BY DEF PaymentAnswered, PaymentLost, PaidAnswer, Enter, Finish, CInv, CheckoutTypes
<1>3. Mine(r)' = Mine(r)
  BY <1>2 DEF Mine
<1>4. HandlerOK(r)'
  BY <1>1, <1>2 DEF HandlerOK, CInv, vars, Exists
<1>5. ProgressOK(r)'
  BY <1>1, <1>2, <1>3 DEF ProgressOK, CInv, HandlerOK, vars
<1>6. OrderOK(own[r])'
  BY <1>1, <1>2 DEF CInv, OrderOK, vars, Exists
<1>7. QED
  BY <1>1, <1>2, <1>3, <1>4, <1>5, <1>6, MovesOn

\* From the emptied cart to the answer.
LEMMA ClearInv ==
  ASSUME CInv, NEW r \in Requests, ClearCart(r) \/ ClearCartFails(r), CheckoutTypes'
  PROVE  CInv'
<1>1. own[r] \in Orders /\ Mine(r) = {own[r]} /\ Exists(own[r])
  BY Owned DEF ClearCart, ClearCartFails
<1>2. /\ UNCHANGED <<vars, added, ordered, own, lines, payment>>
      /\ stage[r] = "clear" /\ stage'[r] = "answer" /\ outcome'[r] = "paid"
      /\ \A q \in Requests : q # r => stage'[q] = stage[q] /\ outcome'[q] = outcome[q]
      /\ \/ cart' = cart /\ emptied' = emptied
         \/ cart' = {} /\ emptied' = emptied \cup {own[r]}
  BY DEF ClearCart, ClearCartFails, Enter, Finish, CInv, CheckoutTypes
<1>3. Mine(r)' = Mine(r)
  BY <1>2 DEF Mine
<1>4. HandlerOK(r)'
  BY <1>1, <1>2 DEF HandlerOK, CInv, vars, Exists
<1>5. ProgressOK(r)'
  BY <1>1, <1>2, <1>3 DEF ProgressOK, CInv, HandlerOK, vars
<1>6. IInv'
  BY <1>2, NextIInv DEF CInv
<1>7. /\ rows' = rows /\ pc' = pc /\ call' = call /\ reply' = reply /\ committed' = committed
      /\ \A o : Exists(o)' <=> Exists(o)
  BY <1>2 DEF vars, Exists
<1>8. Grows
  BY <1>2, <1>7 DEF Grows
<1>9. ASSUME NEW q \in Requests, q # r
      PROVE  HandlerOK(q)' /\ ProgressOK(q)' /\ Mine(q)' = Mine(q)
  <2>1. Kept(q)
    BY <1>2, <1>7, <1>9 DEF Kept
  <2>2. own[r] \notin Mine(q)
    BY <1>1, <1>9, NotMine
  <2>3. \A o \in Mine(q) : Spared(o)
    BY <1>2, <1>7, <2>2 DEF Spared
  <2>4. QED
    BY <1>8, <2>1, <2>3, Bystander
<1>10. ASSUME NEW o \in Orders
       PROVE  OrderOK(o)'
  <2>1. OrderOK(o) /\ "PAID" \in committed[own[r]]
    BY <1>2 DEF CInv, ProgressOK
  <2>2. QED
    BY <1>2, <1>7, <2>1 DEF OrderOK
<1>11. cart' \subseteq added'
  BY <1>2 DEF CInv
<1>12. QED
  BY <1>1, <1>3, <1>4, <1>5, <1>6, <1>9, <1>10, <1>11, Combine

\* The end of a checkout.
LEMMA AnswerInv ==
  ASSUME CInv, NEW r \in Requests, Answer(r), CheckoutTypes'
  PROVE  CInv'
<1>1. /\ UNCHANGED <<vars, cart, added, ordered, payment, emptied>>
      /\ stage[r] = "answer" /\ stage'[r] = "none" /\ pc[r] = "idle" /\ own'[r] = NoOrder
      /\ outcome'[r] = "none"
      /\ \A q \in Requests : q # r => /\ stage'[q] = stage[q] /\ own'[q] = own[q]
                                      /\ lines'[q] = lines[q] /\ outcome'[q] = outcome[q]
  BY DEF Answer, Enter, CInv, HandlerOK, CheckoutTypes
<1>2. Mine(r)' = {}
  BY <1>1, NoOrderAssumption DEF Mine
<1>3. HandlerOK(r)'
  BY <1>1 DEF HandlerOK, vars
<1>4. ProgressOK(r)'
  BY <1>1, <1>2 DEF ProgressOK
<1>5. \A o \in Orders : OrderOK(o)'
  BY <1>1 DEF CInv, OrderOK, vars, Exists
<1>6. \A o \in Mine(r) : o \in Orders
  BY DEF Mine
<1>7. QED
  BY <1>1, <1>2, <1>3, <1>4, <1>5, <1>6, MovesOn

-----------------------------------------------------------------------------
(* The calls of the order service, and their returns *)

\* Nothing is stored, charged or emptied.
Books == <<rows, committed, cart, added, payment, ordered, emptied>>

\* r moves on, in the handler or in the order service, and the books stay.
LEMMA BooksKept ==
  ASSUME CInv, NEW r \in Requests, UNCHANGED Books, IInv', CheckoutTypes',
         \A q \in Requests : q # r => Kept(q),
         HandlerOK(r)', ProgressOK(r)', Mine(r)' \subseteq Mine(r)
  PROVE  CInv'
<1>1. Grows /\ \A o : Spared(o) /\ (Exists(o)' <=> Exists(o)) /\ payment' = payment
  BY DEF Books, Grows, Spared, Exists
<1>2. \A o \in Orders : OrderOK(o)'
  BY <1>1, SparedOrder
<1>3. \A q \in Requests : q # r => HandlerOK(q)' /\ ProgressOK(q)' /\ Mine(q)' = Mine(q)
  BY <1>1, Bystander
<1>4. cart' \subseteq added'
  BY DEF Books, CInv
<1>5. QED
  BY <1>2, <1>3, <1>4, Combine

\* A call that others see nothing of.
LEMMA HoldKeeps ==
  ASSUME CInv, NEW r \in Requests, NEW c, NEW e, Hold(r, c, e)
  PROVE  /\ UNCHANGED <<rows, committed>>
         /\ pc[r] = "idle" /\ pc'[r] = "write" /\ call'[r] = c /\ reply' = reply
         /\ \A q \in Requests : q # r => pc'[q] = pc[q] /\ call'[q] = call[q] /\ reply'[q] = reply[q]
BY DEF Hold, CInv, IInv, TypeOK

LEMMA ReturnKeeps ==
  ASSUME CInv, NEW r \in Requests, NEW answer, Return(r, answer)
  PROVE  /\ UNCHANGED <<rows, committed>>
         /\ pc[r] = "idle" /\ pc'[r] = "done" /\ call'[r] = call[r] /\ reply'[r] = answer
         /\ \A q \in Requests : q # r => pc'[q] = pc[q] /\ call'[q] = call[q] /\ reply'[q] = reply[q]
BY DEF Return, CInv, IInv, TypeOK

LEMMA RespondKeeps ==
  ASSUME CInv, NEW r \in Requests, Respond(r)
  PROVE  /\ UNCHANGED <<rows, committed>>
         /\ pc[r] = "done" /\ pc'[r] = "idle" /\ call'[r] = NoCall /\ reply'[r] = "none"
         /\ \A q \in Requests : q # r => pc'[q] = pc[q] /\ call'[q] = call[q] /\ reply'[q] = reply[q]
BY DEF Respond, CInv, IInv, TypeOK

\* Nobody owns an order whose id is fresh.
LEMMA FreshIsNobodys ==
  ASSUME CInv, NEW o \in Orders, Fresh(o), NEW q \in Requests
  PROVE  o \notin Mine(q)
<1>1. ~Exists(o)
  BY DEF Fresh, Exists
<1>2. HandlerOK(q)
  BY DEF CInv
<1>3. CASE stage[q] = "creating"
  <2>1. SUFFICES ASSUME call[q] = CreateCall(o)
                 PROVE  FALSE
    BY <1>3 DEF Mine
  <2>2. call[q] # NoCall /\ \A p \in Orders : call[q] = CreateCall(p) => p = o
    BY <2>1 DEF CreateCall, NoCall
  <2>3. pc[q] # "write" => Exists(o)
    BY <1>2, <1>3, <2>2 DEF HandlerOK, Creating
  <2>4. QED
    BY <1>1, <2>1, <2>3 DEF Fresh
<1>4. CASE stage[q] # "creating"
  BY <1>1, <1>2, <1>4, NoOrderAssumption DEF HandlerOK, Mine
<1>5. QED
  BY <1>3, <1>4

LEMMA CallCreateInv ==
  ASSUME CInv, NEW r \in Requests, NEW o \in Orders, CallCreate(r, o), IInv', CheckoutTypes'
  PROVE  CInv'
<1>1. /\ UNCHANGED <<rows, committed>>
      /\ pc[r] = "idle" /\ pc'[r] = "write" /\ call'[r] = CreateCall(o) /\ reply' = reply
      /\ \A q \in Requests : q # r => pc'[q] = pc[q] /\ call'[q] = call[q] /\ reply'[q] = reply[q]
  BY HoldKeeps DEF CallCreate, BeginCreate
<1>2. /\ UNCHANGED <<own, lines, outcome, cart, added, payment, emptied>>
      /\ stage[r] = "create" /\ stage'[r] = "creating"
      /\ \A q \in Requests : q # r => stage'[q] = stage[q]
      /\ ordered'[o] = lines[r] /\ \A p \in Orders : p # o => ordered'[p] = ordered[p]
      /\ Fresh(o)
  BY DEF CallCreate, BeginCreate, Enter, CInv, CheckoutTypes
<1>3. Mine(r)' = {o}
  <2>1. \A p \in Orders : CreateCall(o) = CreateCall(p) => p = o
    BY DEF CreateCall
  <2>2. QED
    BY <1>1, <1>2, <2>1 DEF Mine
<1>4. \A q \in Requests : o \notin Mine(q) /\ Mine(q) \subseteq Orders
  BY <1>2, FreshIsNobodys DEF Mine
<1>5. ~Exists(o) /\ committed[o] = {} /\ payment[o] = "none" /\ o \notin emptied
  <2>1. ~Exists(o) /\ committed[o] = {}
    BY <1>2 DEF CInv, IInv, RowsOK, Fresh, Exists
  <2>2. QED
    BY <2>1 DEF CInv, OrderOK
<1>6. Grows /\ \A p : Exists(p)' <=> Exists(p)
  BY <1>1, <1>2 DEF Grows, Exists
<1>7. \A p \in Orders : p # o => Spared(p)
  BY <1>1, <1>2 DEF Spared
<1>8. ASSUME NEW q \in Requests, q # r
      PROVE  HandlerOK(q)' /\ ProgressOK(q)' /\ Mine(q)' = Mine(q)
  <2>1. Kept(q)
    BY <1>1, <1>2, <1>8 DEF Kept
  <2>2. \A p \in Mine(q) : Spared(p)
    BY <1>4, <1>7
  <2>3. QED
    BY <1>6, <2>1, <2>2, Bystander
<1>9. lines[r] # {} /\ lines[r] \subseteq added /\ own[r] = NoOrder /\ outcome[r] # "failed"
  BY <1>2 DEF CInv, HandlerOK
<1>10. HandlerOK(r)'
  <2>1. Creating(r)'
    BY <1>1, <1>2, <1>9 DEF Creating
  <2>2. QED
    BY <1>1, <1>2, <1>9, <2>1 DEF HandlerOK
<1>11. ProgressOK(r)'
  BY <1>1, <1>2, <1>3, <1>5, <1>9 DEF ProgressOK
<1>12. OwnersOK'
  <2>1. \A q \in Requests : q # r => Mine(q)' = Mine(q) /\ Mine(q) \cap {o} = {}
    BY <1>4, <1>8
  <2>2. \A p, q \in Requests : p # q => Mine(p) \cap Mine(q) = {}
    BY DEF CInv, OwnersOK
  <2>3. QED
    BY <1>3, <2>1, <2>2 DEF OwnersOK
<1>13. ASSUME NEW p \in Orders
       PROVE  OrderOK(p)'
  <2>1. CASE p = o
    BY <1>1, <1>2, <1>5, <1>6, <1>9, <2>1 DEF OrderOK
  <2>2. CASE p # o
    BY <1>2, <1>6, <1>7, <2>2, SparedOrder
  <2>3. QED
    BY <2>1, <2>2
<1>14. cart' \subseteq added'
  BY <1>2 DEF CInv
<1>15. QED
  BY <1>8, <1>10, <1>11, <1>12, <1>13, <1>14 DEF CInv

LEMMA CreatedInv ==
  ASSUME CInv, NEW r \in Requests, Created(r), IInv', CheckoutTypes'
  PROVE  CInv'
<1>1. /\ UNCHANGED <<rows, committed>>
      /\ pc[r] = "done" /\ pc'[r] = "idle" /\ call'[r] = NoCall /\ reply'[r] = "none"
      /\ \A q \in Requests : q # r => pc'[q] = pc[q] /\ call'[q] = call[q] /\ reply'[q] = reply[q]
  BY RespondKeeps DEF Created
<1>2. /\ UNCHANGED <<lines, cart, added, payment, ordered, emptied>>
      /\ stage[r] = "creating"
      /\ \/ /\ reply[r] = "ok" /\ stage'[r] = "pay" /\ own'[r] = call[r].order
            /\ outcome'[r] = outcome[r]
         \/ /\ reply[r] # "ok" /\ stage'[r] = "answer" /\ own'[r] = own[r]
            /\ outcome'[r] = "refused"
      /\ \A q \in Requests : q # r => /\ stage'[q] = stage[q] /\ own'[q] = own[q]
                                      /\ outcome'[q] = outcome[q]
  BY DEF Created, Enter, Finish, CInv, CheckoutTypes
<1>3. own[r] = NoOrder /\ Creating(r) /\ outcome[r] # "failed"
  BY <1>2 DEF CInv, HandlerOK
<1>4. CASE reply[r] = "ok"
  <2>1. PICK o \in Orders : call[r] = CreateCall(o) /\ Exists(o)
    BY <1>1, <1>3, <1>4 DEF Creating
  <2>2. call[r].order = o /\ o \in Mine(r)
    BY <1>2, <2>1 DEF CreateCall, Mine
  <2>3. Mine(r)' = {o}
    BY <1>2, <1>4, <2>2 DEF Mine
  <2>4. o # NoOrder /\ Exists(o)'
    BY <1>1, <2>1, NoOrderAssumption DEF Exists
  <2>5. HandlerOK(r)'
    BY <1>1, <1>2, <1>3, <1>4, <2>2, <2>4 DEF HandlerOK
  <2>6. ProgressOK(r)'
    BY <1>1, <1>2, <1>3, <1>4, <2>2, <2>3 DEF ProgressOK, CInv
  <2>7. QED
    BY <1>1, <1>2, <2>2, <2>3, <2>5, <2>6, BooksKept DEF Books, Kept
<1>5. CASE reply[r] # "ok"
  <2>1. Mine(r)' = {}
    BY <1>2, <1>3, <1>5, NoOrderAssumption DEF Mine
  <2>2. HandlerOK(r)'
    BY <1>1, <1>2, <1>3, <1>5 DEF HandlerOK
  <2>3. ProgressOK(r)'
    BY <1>2, <1>5, <2>1 DEF ProgressOK
  <2>4. QED
    BY <1>1, <1>2, <2>1, <2>2, <2>3, BooksKept DEF Books, Kept
<1>6. QED
  BY <1>4, <1>5

LEMMA CallMarkPaidInv ==
  ASSUME CInv, NEW r \in Requests, CallMarkPaid(r), IInv', CheckoutTypes'
  PROVE  CInv'
<1>1. own[r] \in Orders /\ Mine(r) = {own[r]} /\ Exists(own[r])
  BY Owned DEF CallMarkPaid
<1>2. /\ UNCHANGED <<rows, committed>>
      /\ \/ pc'[r] = "write" /\ call'[r] = PaidCall(own[r])
         \/ pc'[r] = "done" /\ reply'[r] \in {"invalid_state", "error"}
      /\ \A q \in Requests : q # r => pc'[q] = pc[q] /\ call'[q] = call[q] /\ reply'[q] = reply[q]
      /\ pc'[r] = "write" => reply'[r] = reply[r]
  BY HoldKeeps, ReturnKeeps DEF CallMarkPaid, Prepare, Refuse, LoadFails
<1>3. /\ UNCHANGED <<own, lines, outcome, cart, added, payment, ordered, emptied>>
      /\ stage[r] = "mark" /\ stage'[r] = "marking"
      /\ \A q \in Requests : q # r => stage'[q] = stage[q]
  BY DEF CallMarkPaid, Enter, CInv, CheckoutTypes
<1>4. Mine(r)' = Mine(r)
  BY <1>3 DEF Mine
<1>5. Exists(own[r])'
  BY <1>1, <1>2, <1>3 DEF Exists
<1>6. HandlerOK(r)'
  <2>1. Marking(r)'
    <3>1. CASE pc'[r] = "write"
      BY <1>2, <1>3, <3>1 DEF Marking
    <3>2. CASE pc'[r] = "done"
      BY <1>2, <3>2 DEF Marking
    <3>3. QED
      BY <1>2, <3>1, <3>2
  <2>2. QED
    BY <1>3, <1>5, <2>1 DEF HandlerOK, CInv
<1>7. ProgressOK(r)'
  BY <1>2, <1>3, <1>4 DEF ProgressOK, CInv, HandlerOK
<1>8. QED
  BY <1>2, <1>3, <1>4, <1>6, <1>7, BooksKept DEF Books, Kept

LEMMA MarkedPaidInv ==
  ASSUME CInv, NEW r \in Requests, MarkedPaid(r), IInv', CheckoutTypes'
  PROVE  CInv'
<1>1. own[r] \in Orders /\ Mine(r) = {own[r]} /\ Exists(own[r])
  BY Owned DEF MarkedPaid
<1>2. /\ UNCHANGED <<rows, committed>>
      /\ pc[r] = "done" /\ pc'[r] = "idle" /\ call'[r] = NoCall /\ reply'[r] = "none"
      /\ \A q \in Requests : q # r => pc'[q] = pc[q] /\ call'[q] = call[q] /\ reply'[q] = reply[q]
  BY RespondKeeps DEF MarkedPaid
<1>3. /\ UNCHANGED <<own, lines, cart, added, payment, ordered, emptied>>
      /\ stage[r] = "marking"
      /\ \/ reply[r] = "ok" /\ stage'[r] = "clear" /\ outcome'[r] = outcome[r]
         \/ stage'[r] = "answer" /\ outcome'[r] = "update_failed"
      /\ \A q \in Requests : q # r => stage'[q] = stage[q] /\ outcome'[q] = outcome[q]
  BY DEF MarkedPaid, Enter, Finish, CInv, CheckoutTypes
<1>4. Mine(r)' = Mine(r)
  BY <1>3 DEF Mine
<1>5. Exists(own[r])'
  BY <1>1, <1>2, <1>3 DEF Exists
<1>6. reply[r] = "ok" => "PAID" \in committed[own[r]]
  <2>1. reply[r] = "ok" => call[r] = PaidCall(own[r])
    BY <1>3 DEF CInv, HandlerOK, Marking
  <2>2. QED
    BY <1>1, <2>1, PaidIsAnEdit DEF CInv, IInv, AnswersOK
<1>7. HandlerOK(r)'
  BY <1>1, <1>2, <1>3, <1>5 DEF HandlerOK, CInv
<1>8. ProgressOK(r)'
  BY <1>2, <1>3, <1>4, <1>6 DEF ProgressOK, CInv, HandlerOK
<1>9. QED
  BY <1>2, <1>3, <1>4, <1>7, <1>8, BooksKept DEF Books, Kept

-----------------------------------------------------------------------------
(* The steps of the order service *)

\* Who is about to write: a checkout that creates or marks its own order, or
\* another request, which asks for something else.
LEMMA Writer ==
  ASSUME CInv, NEW r \in Requests, pc[r] = "write"
  PROVE  /\ stage[r] \in {"none", "creating", "marking"} /\ outcome[r] # "failed"
         /\ call[r].order \in Orders
         /\ stage[r] = "none" => call[r].op # "create" /\ call[r].status # "PAID"
         /\ stage[r] = "creating" =>
              call[r] = CreateCall(call[r].order) /\ ordered[call[r].order] # {}
         /\ stage[r] = "marking" => call[r] = PaidCall(own[r])
<1>1. HandlerOK(r) /\ stage[r] \in Stages
  BY DEF CInv, CheckoutTypes
<1>2. stage[r] \in {"none", "creating", "marking"} /\ outcome[r] # "failed"
  BY <1>1 DEF HandlerOK, Stages
<1>3. call[r].order \in Orders
  BY DEF CInv, IInv, WritersOK, Calls
<1>4. ASSUME stage[r] = "creating"
      PROVE  call[r] = CreateCall(call[r].order) /\ ordered[call[r].order] # {}
  <2>1. PICK o \in Orders : call[r] = CreateCall(o) /\ ordered[o] # {}
    BY <1>1, <1>4 DEF HandlerOK, Creating
  <2>2. call[r].order = o
    BY <2>1 DEF CreateCall
  <2>3. QED
    BY <2>1, <2>2
<1>5. QED
  BY <1>1, <1>2, <1>3, <1>4 DEF HandlerOK, Marking

\* What a commit of r's entity does, before it is known how the call goes on.
LEMMA CommitKeeps ==
  ASSUME CInv, NEW r \in Requests, pc[r] = "write", Commit(r), UNCHANGED checkoutVars,
         \A q \in Requests : q # r => pc'[q] = pc[q] /\ call'[q] = call[q] /\ reply'[q] = reply[q]
  PROVE  /\ Grows
         /\ rows'[call[r].order] # NoRow
         /\ stage[r] # "marking" =>
              \A o \in Orders : "PAID" \in committed'[o] => "PAID" \in committed[o]
         /\ \A q \in Requests : q # r => HandlerOK(q)' /\ ProgressOK(q)' /\ Mine(q)' = Mine(q)
         /\ \A o \in Orders : OrderOK(o)'
<1> DEFINE p == call[r].order
           s == call[r].status
<1>1. /\ p \in Orders
      /\ rows' = [rows EXCEPT ![p] = entity[r]] /\ rows \in [Orders -> Row \cup {NoRow}]
      /\ committed' = [committed EXCEPT ![p] = @ \cup {s}]
      /\ committed \in [Orders -> SUBSET Statuses] /\ RowsOK'
  BY CommitEffect DEF CInv, IInv, TypeOK, Calls
<1>2. UNCHANGED <<stage, own, lines, outcome, cart, added, payment, ordered, emptied>>
  BY DEF checkoutVars
<1>3. rows'[p] # NoRow
  BY <1>1 DEF RowsOK
<1>4. Grows
  <2>1. ASSUME NEW o \in Orders, Exists(o)
        PROVE  Exists(o)'
    BY <1>1, <1>3, <2>1 DEF Exists
  <2>2. QED
    BY <1>2, <2>1 DEF Grows
<1>5. /\ stage[r] = "creating" => s = "PENDING"
      /\ stage[r] = "marking" => s = "PAID" /\ p = own[r] /\ p \in Mine(r) /\ payment[p] = "captured"
      /\ stage[r] = "none" => s # "PAID"
      /\ stage[r] \in {"none", "creating", "marking"}
  <2>1. stage[r] = "creating" => s = "PENDING"
    <3>1. CreateCall(p).status = "PENDING"
      BY DEF CreateCall
    <3>2. QED
      BY <3>1, Writer
  <2>2. stage[r] = "marking" => s = "PAID" /\ p = own[r] /\ p \in Mine(r)
    BY Writer, Owned, PaidIsAnEdit
  <2>3. stage[r] = "marking" => payment[own[r]] = "captured"
    BY DEF CInv, ProgressOK
  <2>4. QED
    BY <2>1, <2>2, <2>3, Writer
<1>6. \A o \in Orders :
        "PAID" \in committed'[o] => "PAID" \in committed[o] \/ (s = "PAID" /\ o = p)
  BY <1>1
<1>7. \A o \in Orders : "PAID" \in committed[o] => "PAID" \in committed'[o]
  BY <1>1
<1>8. stage[r] # "marking" =>
        \A o \in Orders : "PAID" \in committed'[o] => "PAID" \in committed[o]
  BY <1>5, <1>6
<1>9. ASSUME NEW q \in Requests, q # r
      PROVE  HandlerOK(q)' /\ ProgressOK(q)' /\ Mine(q)' = Mine(q)
  <2>1. Kept(q)
    BY <1>2, <1>9 DEF Kept
  <2>2. ASSUME NEW o \in Mine(q)
        PROVE  Spared(o)
    <3>1. o \in Orders /\ o \notin Mine(r)
      BY <1>9, NotMine DEF Mine
    <3>2. "PAID" \in committed'[o] <=> "PAID" \in committed[o]
      BY <1>5, <1>6, <1>7, <3>1
    <3>3. QED
      BY <1>2, <3>2 DEF Spared
  <2>3. QED
    BY <1>4, <2>1, <2>2, Bystander
<1>10. ASSUME NEW o \in Orders
       PROVE  OrderOK(o)'
  <2>1. OrderOK(o)
    BY DEF CInv
  <2>2. Exists(o)' => ordered[o] # {}
    <3>1. CASE Exists(o)
      BY <2>1, <3>1 DEF OrderOK
    <3>2. ASSUME ~Exists(o), Exists(o)'
          PROVE  ordered[o] # {}
      <4>1. o = p
        BY <1>1, <3>2 DEF Exists
      <4>2. Inserting(r)
        BY <3>2, <4>1 DEF CInv, IInv, WritersOK, Updating, Exists
      <4>3. call[r].op = "create" /\ call[r].status = "PENDING"
        BY <4>2 DEF Inserting, CreateCall
      <4>4. stage[r] = "creating"
        BY <1>5, <4>3, Writer
      <4>5. QED
        BY <4>1, <4>4, Writer
    <3>3. QED
      BY <3>1, <3>2
  <2>3. "PAID" \in committed'[o] => payment[o] = "captured"
    BY <1>5, <1>6, <2>1 DEF OrderOK
  <2>4. payment[o] # "none" => Exists(o)'
    BY <1>4, <2>1 DEF OrderOK, Grows
  <2>5. QED
    BY <1>2, <1>7, <2>1, <2>2, <2>3, <2>4 DEF OrderOK
<1>11. QED
  BY <1>3, <1>4, <1>8, <1>9, <1>10

LEMMA CommitInv ==
  ASSUME CInv, NEW r \in Requests, Write(r) \/ WriteUnknown(r), UNCHANGED checkoutVars,
         IInv', CheckoutTypes'
  PROVE  CInv'
<1>1. /\ pc[r] = "write" /\ Commit(r)
      /\ \A q \in Requests : q # r => pc'[q] = pc[q] /\ call'[q] = call[q] /\ reply'[q] = reply[q]
      /\ \/ pc'[r] = "publish" /\ call'[r] = call[r]
         \/ pc'[r] = "done" /\ call'[r] = call[r] /\ reply'[r] = "ok"
         \/ pc'[r] = "done" /\ call'[r] = NoCall /\ reply'[r] = "error"
  BY DEF Write, WriteUnknown, Fail, CInv, IInv, TypeOK
<1>2. UNCHANGED <<stage, own, lines, outcome, cart, added, payment, ordered, emptied>>
  BY DEF checkoutVars
<1>3. /\ Grows /\ rows'[call[r].order] # NoRow
      /\ stage[r] # "marking" =>
           \A o \in Orders : "PAID" \in committed'[o] => "PAID" \in committed[o]
      /\ \A q \in Requests : q # r => HandlerOK(q)' /\ ProgressOK(q)' /\ Mine(q)' = Mine(q)
      /\ \A o \in Orders : OrderOK(o)'
  BY <1>1, CommitKeeps
<1>4. HandlerOK(r) /\ ProgressOK(r)
  BY DEF CInv
<1>5. Mine(r)' \subseteq Mine(r)
  BY <1>1, <1>2 DEF Mine, CreateCall, NoCall
<1>6. HandlerOK(r)'
  <2>1. stage[r] = "creating" => Creating(r)'
    BY <1>1, <1>2, <1>3, Writer DEF Creating, Exists
  <2>2. stage[r] = "marking" => Marking(r)'
    BY <1>1, <1>2, Writer DEF Marking
  <2>3. own[r] # NoOrder => Exists(own[r])'
    BY <1>2, <1>3, <1>4 DEF HandlerOK, Grows, CInv, CheckoutTypes
  <2>4. pc'[r] # "write" /\ pc'[r] # "idle"
    BY <1>1
  <2>5. QED
    BY <1>1, <1>2, <1>4, <2>1, <2>2, <2>3, <2>4, Writer DEF HandlerOK
<1>7. ProgressOK(r)'
  BY <1>1, <1>2, <1>3, <1>4, <1>5, Writer DEF ProgressOK, Mine
<1>8. cart' \subseteq added'
  BY <1>2 DEF CInv
<1>9. QED
  BY <1>3, <1>5, <1>6, <1>7, <1>8, Combine

\* The steps of a call that store nothing.
LEMMA CallInv ==
  ASSUME CInv, NEW r \in Requests, WriteFails(r) \/ Publish(r) \/ PublishFails(r),
         UNCHANGED checkoutVars, IInv', CheckoutTypes'
  PROVE  CInv'
<1>1. /\ UNCHANGED <<rows, committed>>
      /\ pc[r] \in {"write", "publish"} /\ pc'[r] = "done"
      /\ \/ call'[r] = call[r] /\ reply'[r] = "ok" /\ pc[r] = "publish"
         \/ call'[r] = NoCall /\ reply'[r] = "error"
      /\ \A q \in Requests : q # r => pc'[q] = pc[q] /\ call'[q] = call[q] /\ reply'[q] = reply[q]
  BY DEF WriteFails, Publish, PublishFails, Fail, CInv, IInv, TypeOK
<1>2. UNCHANGED <<stage, own, lines, outcome, cart, added, payment, ordered, emptied>>
  BY DEF checkoutVars
<1>3. HandlerOK(r) /\ ProgressOK(r)
  BY DEF CInv
<1>4. Mine(r)' \subseteq Mine(r)
  BY <1>1, <1>2 DEF Mine, CreateCall, NoCall
<1>5. HandlerOK(r)'
  <2>1. stage[r] = "creating" => Creating(r)'
    BY <1>1, <1>2, <1>3 DEF HandlerOK, Creating, Exists
  <2>2. stage[r] = "marking" => Marking(r)'
    BY <1>1, <1>2, <1>3 DEF HandlerOK, Marking
  <2>3. own[r] # NoOrder => Exists(own[r])'
    BY <1>1, <1>2, <1>3 DEF HandlerOK, Exists
  <2>4. QED
    BY <1>1, <1>2, <1>3, <2>1, <2>2, <2>3 DEF HandlerOK
<1>6. ProgressOK(r)'
  BY <1>1, <1>2, <1>3, <1>4 DEF ProgressOK
<1>7. QED
  BY <1>1, <1>2, <1>4, <1>5, <1>6, BooksKept DEF Books, Kept

\* Requests that are not checkouts.
LEMMA OtherInv ==
  ASSUME CInv, NEW r \in Requests,
         OtherAnswered(r) \/ \E c \in OtherCalls : OtherEdit(r, c), IInv', CheckoutTypes'
  PROVE  CInv'
<1>1. /\ UNCHANGED <<rows, committed>> /\ stage[r] = "none"
      /\ \/ pc'[r] = "idle"
         \/ pc'[r] = "write" /\ call'[r].op # "create" /\ call'[r].status # "PAID"
      /\ \A q \in Requests : q # r => pc'[q] = pc[q] /\ call'[q] = call[q] /\ reply'[q] = reply[q]
  <2>1. CASE OtherAnswered(r)
    BY <2>1, RespondKeeps DEF OtherAnswered
  <2>2. ASSUME NEW c \in OtherCalls, OtherEdit(r, c)
        PROVE  /\ UNCHANGED <<rows, committed>> /\ stage[r] = "none"
               /\ pc'[r] = "write" /\ call'[r].op # "create" /\ call'[r].status # "PAID"
               /\ \A q \in Requests : q # r => /\ pc'[q] = pc[q] /\ call'[q] = call[q]
                                              /\ reply'[q] = reply[q]
    BY <2>2, HoldKeeps, OtherIsAnEdit DEF OtherEdit, Prepare
  <2>3. QED
    BY <2>1, <2>2
<1>2. UNCHANGED <<stage, own, lines, outcome, cart, added, payment, ordered, emptied>>
  BY DEF OtherAnswered, OtherEdit, checkoutVars
<1>3. HandlerOK(r) /\ ProgressOK(r)
  BY DEF CInv
<1>4. Mine(r)' = Mine(r)
  BY <1>1, <1>2 DEF Mine
<1>5. HandlerOK(r)'
  BY <1>1, <1>2, <1>3 DEF HandlerOK, Exists
<1>6. ProgressOK(r)'
  BY <1>1, <1>2, <1>3, <1>4 DEF ProgressOK
<1>7. QED
  BY <1>1, <1>2, <1>4, <1>5, <1>6, BooksKept DEF Books, Kept

-----------------------------------------------------------------------------
(* Crashes, the payment service and the customer *)

LEMMA CheckoutCrashInv ==
  ASSUME CInv, NEW lost \in SUBSET Requests, CheckoutCrash(lost), IInv', CheckoutTypes'
  PROVE  CInv'
<1>1. UNCHANGED <<rows, committed, cart, added, payment, ordered, emptied>>
  BY DEF CheckoutCrash, Crash
<1>2. Grows /\ \A o : Spared(o) /\ (Exists(o)' <=> Exists(o))
  BY <1>1 DEF Grows, Spared, Exists
<1>3. \A o \in Orders : OrderOK(o)'
  BY <1>1, <1>2, SparedOrder
<1>4. ASSUME NEW q \in Requests
      PROVE  HandlerOK(q)' /\ ProgressOK(q)' /\ Mine(q)' \subseteq Mine(q)
  <2>1. CASE q \in lost
    <3>1. /\ stage'[q] = "none" /\ own'[q] = NoOrder /\ outcome'[q] = "none" /\ pc'[q] = "idle"
      BY <2>1 DEF CheckoutCrash, Crash
    <3>2. Mine(q)' = {}
      BY <3>1, NoOrderAssumption DEF Mine
    <3>3. HandlerOK(q)' /\ ProgressOK(q)'
      BY <3>1, <3>2 DEF HandlerOK, ProgressOK
    <3>4. QED
      BY <3>2, <3>3
  <2>2. CASE q \notin lost
    <3>1. Kept(q)
      BY <2>2 DEF CheckoutCrash, Crash, Kept
    <3>2. QED
      BY <1>2, <3>1, Bystander
  <2>3. QED
    BY <2>1, <2>2
<1>5. cart' \subseteq added'
  BY <1>1 DEF CInv
<1>6. OwnersOK'
  <2>1. ASSUME NEW p \in Requests, NEW q \in Requests, p # q
        PROVE  Mine(p)' \cap Mine(q)' = {}
    <3>1. Mine(p) \cap Mine(q) = {}
      BY <2>1 DEF CInv, OwnersOK
    <3>2. QED
      BY <1>4, <3>1
  <2>2. QED
    BY <2>1 DEF OwnersOK
<1>7. QED
  BY <1>3, <1>4, <1>5, <1>6 DEF CInv

\* No request takes part in what the payment service and the customer do.
LEMMA OutsideInv ==
  ASSUME CInv, UNCHANGED <<vars, stage, own, lines, outcome, ordered, emptied>>,
         added \subseteq added', cart' \subseteq added', CheckoutTypes',
         \A o \in Orders : payment'[o] # payment[o] => payment[o] = "sent"
  PROVE  CInv'
<1>1. IInv'
  BY NextIInv DEF CInv
<1>2. Grows /\ \A o \in Orders : Spared(o) /\ (Exists(o)' <=> Exists(o))
  BY DEF Grows, Spared, Exists, vars
<1>3. ASSUME NEW o \in Orders
      PROVE  OrderOK(o)'
  <2>1. payment'[o] # payment[o] => Exists(o)
    BY DEF CInv, OrderOK
  <2>2. QED
    BY <1>2, <2>1, SparedOrder
<1>4. ASSUME NEW q \in Requests
      PROVE  HandlerOK(q)' /\ ProgressOK(q)' /\ Mine(q)' = Mine(q)
  <2>1. Kept(q)
    BY DEF Kept, vars
  <2>2. Mine(q) \subseteq Orders
    BY DEF Mine
  <2>3. QED
    BY <1>2, <2>1, <2>2, Bystander
<1>5. OwnersOK'
  BY <1>4 DEF CInv, OwnersOK
<1>6. QED
  BY <1>1, <1>3, <1>4, <1>5 DEF CInv

-----------------------------------------------------------------------------
(* The invariant *)

LEMMA InitCInv == CheckoutInit => CInv
<1> SUFFICES ASSUME CheckoutInit
             PROVE  CInv
  OBVIOUS
<1>1. IInv
  BY InitIInv DEF CheckoutInit
<1>2. CheckoutTypes /\ cart \subseteq added
  BY DEF CheckoutInit, CheckoutTypes, Stages, Outcomes
<1>3. \A r \in Requests : Mine(r) = {}
  BY NoOrderAssumption DEF CheckoutInit, Mine
<1>4. \A r \in Requests : HandlerOK(r) /\ ProgressOK(r)
  BY <1>3 DEF CheckoutInit, Init, HandlerOK, ProgressOK
<1>5. OwnersOK /\ \A o \in Orders : OrderOK(o)
  BY <1>3 DEF OwnersOK, OrderOK, CheckoutInit, Init, Exists
<1>6. QED
  BY <1>1, <1>2, <1>4, <1>5 DEF CInv

LEMMA NextCInv == CInv /\ [CheckoutNext]_allVars => CInv'
<1> SUFFICES ASSUME CInv, [CheckoutNext]_allVars
             PROVE  CInv'
  OBVIOUS
<1>1. IInv'
  BY StepInside, NextIInv DEF CInv
<1>2. CheckoutTypes'
  BY NextTypes
<1>3. ASSUME NEW r \in Requests, ReadCart(r) \/ RefuseCheckout(r)
      PROVE  CInv'
  BY <1>2, <1>3, ReadCartInv
<1>4. ASSUME NEW r \in Requests, NEW o \in Orders, CallCreate(r, o)
      PROVE  CInv'
  BY <1>1, <1>2, <1>4, CallCreateInv
<1>5. ASSUME NEW r \in Requests, Created(r)
      PROVE  CInv'
  BY <1>1, <1>2, <1>5, CreatedInv
<1>6. ASSUME NEW r \in Requests, Charge(r)
      PROVE  CInv'
  BY <1>2, <1>6, ChargeInv
<1>7. ASSUME NEW r \in Requests, PaymentAnswered(r) \/ PaymentLost(r)
      PROVE  CInv'
  BY <1>2, <1>7, PaymentInv
<1>8. ASSUME NEW r \in Requests, CallMarkPaid(r)
      PROVE  CInv'
  BY <1>1, <1>2, <1>8, CallMarkPaidInv
<1>9. ASSUME NEW r \in Requests, MarkedPaid(r)
      PROVE  CInv'
  BY <1>1, <1>2, <1>9, MarkedPaidInv
<1>10. ASSUME NEW r \in Requests, ClearCart(r) \/ ClearCartFails(r)
       PROVE  CInv'
  BY <1>2, <1>10, ClearInv
<1>11. ASSUME NEW r \in Requests, Answer(r)
       PROVE  CInv'
  BY <1>2, <1>11, AnswerInv
<1>12. ASSUME NEW r \in Requests, ServiceStep(r)
       PROVE  CInv'
  BY <1>1, <1>2, <1>12, CommitInv, CallInv DEF ServiceStep
<1>13. ASSUME NEW r \in Requests,
              OtherAnswered(r) \/ \E c \in OtherCalls : OtherEdit(r, c)
       PROVE  CInv'
  BY <1>1, <1>2, <1>13, OtherInv
<1>14. ASSUME NEW lost \in SUBSET Requests, CheckoutCrash(lost)
       PROVE  CInv'
  BY <1>1, <1>2, <1>14, CheckoutCrashInv
<1>15. ASSUME NEW o \in Orders, Decide(o)
       PROVE  CInv'
  <2>1. \A p \in Orders : payment'[p] # payment[p] => payment[p] = "sent"
    BY <1>15 DEF Decide, CInv, CheckoutTypes
  <2>2. QED
    BY <1>2, <1>15, <2>1, OutsideInv DEF Decide, CInv
<1>16. ASSUME NEW i \in Items, AddItem(i)
       PROVE  CInv'
  BY <1>2, <1>16, OutsideInv DEF AddItem, CInv
<1>17. CASE UNCHANGED allVars
  BY <1>2, <1>17, OutsideInv DEF allVars, checkoutVars, CInv
<1>18. QED
  BY <1>3, <1>4, <1>5, <1>6, <1>7, <1>8, <1>9, <1>10, <1>11, <1>12, <1>13, <1>14, <1>15,
     <1>16, <1>17 DEF CheckoutNext, HandlerStep

\* The inductive invariant holds in every reachable state, for any number of
\* orders, requests and cart lines, and whatever fails.
THEOREM CheckoutInvariant == CheckoutSpec => []CInv
<1>1. QED
  BY InitCInv, NextCInv, PTL DEF CheckoutSpec

\* A checkout, whatever is lost or restarted, is a behaviour of the order
\* service: all that is proved of OrderLifecycle holds in it (handler.go:78-104
\* calls CreateOrder and UpdateOrderStatus as any other request does).
THEOREM CheckoutInside == CheckoutSpec => Spec
<1>1. CheckoutInit => Init
  BY DEF CheckoutInit
<1>2. QED
  BY <1>1, CheckoutInvariant, StepInside, PTL DEF CheckoutSpec, Spec

\* Every variable keeps its type.
THEOREM CheckoutTypeCorrect == CheckoutSpec => []CheckoutTypeOK
<1>1. CInv => CheckoutTypeOK
  BY DEF CInv, IInv, CheckoutTypes, CheckoutTypeOK
<1>2. QED
  BY <1>1, CheckoutInvariant, PTL

\* No order is marked PAID whose payment was not captured.
THEOREM BookedWasCaptured == CheckoutSpec => []PaidWasCaptured
<1>1. CInv => PaidWasCaptured
  BY DEF CInv, OrderOK, PaidWasCaptured, Charged
<1>2. QED
  BY <1>1, CheckoutInvariant, PTL

\* A checkout that answers 402 has left its order unpaid.
THEOREM RetryFindsUnpaid == CheckoutSpec => []FailedIsNotPaid
<1>1. ASSUME CInv, NEW r \in Requests, outcome[r] = "failed"
      PROVE  "PAID" \notin committed[own[r]]
  <2>1. stage[r] = "answer" /\ own[r] # NoOrder
    BY <1>1 DEF CInv, HandlerOK
  <2>2. own[r] \in Mine(r)
    BY <1>1, <2>1 DEF CInv, CheckoutTypes, Mine
  <2>3. QED
    BY <1>1, <2>2 DEF CInv, ProgressOK
<1>2. CInv => FailedIsNotPaid
  BY <1>1 DEF FailedIsNotPaid
<1>3. QED
  BY <1>2, CheckoutInvariant, PTL

-----------------------------------------------------------------------------
(* The checkout implements its contract *)

\* How the variables of the contract are read off those of the checkout.
Placed == [o \in Orders |-> IF Exists(o) THEN ordered[o] ELSE {}]

Money == [o \in Orders |-> IF payment[o] = "sent" THEN "none" ELSE payment[o]]

Booked == {o \in Orders : "PAID" \in committed[o]}

PromiseVars == <<cart, added, Placed, Money, Booked, emptied>>

LEMMA PromiseInit == CheckoutInit => Promise!Init
BY DEF CheckoutInit, Init, Exists, Promise!Init

\* Most steps are none of the contract's: the books stay ...
LEMMA KeepsPromise ==
  ASSUME UNCHANGED <<rows, committed, cart, added, emptied>>,
         \A o \in Orders : Exists(o) => ordered'[o] = ordered[o],
         \A o \in Orders : payment'[o] # payment[o] => payment[o] = "none" /\ payment'[o] = "sent"
  PROVE  UNCHANGED PromiseVars
<1>1. Placed' = Placed
  BY DEF Placed, Exists
<1>2. Money' = Money
  BY DEF Money
<1>3. Booked' = Booked
  BY DEF Booked
<1>4. QED
  BY <1>1, <1>2, <1>3 DEF PromiseVars

\* ... also when a request prepares a call, or when it returns.
LEMMA ServiceKeepsPromise ==
  ASSUME UNCHANGED <<rows, committed, cart, added, ordered, payment, emptied>>
  PROVE  UNCHANGED PromiseVars
BY KeepsPromise

\* The steps of the contract that a commit may be.
LEMMA PlaceIsStep ==
  ASSUME NEW o \in Orders, NEW some \in SUBSET Items, Promise!Place(o, some)
  PROVE  Promise!Next
BY DEF Promise!Next

LEMMA BookIsStep ==
  ASSUME NEW o \in Orders, Promise!Book(o)
  PROVE  Promise!Next
BY DEF Promise!Next

\* A commit places an order, books it, or is none of the contract's.
LEMMA CommitPromise ==
  ASSUME CInv, CInv', NEW r \in Requests, pc[r] = "write", Commit(r), UNCHANGED checkoutVars
  PROVE  Promise!Next \/ UNCHANGED PromiseVars
<1> DEFINE s == call[r].status
<1>0. PICK p \in Orders : p = call[r].order
  BY Writer
<1>1. /\ rows' = [rows EXCEPT ![p] = entity[r]] /\ rows \in [Orders -> Row \cup {NoRow}]
      /\ committed' = [committed EXCEPT ![p] = @ \cup {s}]
      /\ committed \in [Orders -> SUBSET Statuses] /\ RowsOK'
  BY <1>0, CommitEffect DEF CInv, IInv, TypeOK, Calls
<1>2. UNCHANGED <<stage, own, cart, added, payment, ordered, emptied>>
  BY DEF checkoutVars
<1>3. rows'[p] # NoRow /\ \A o \in Orders : o # p => (Exists(o)' <=> Exists(o))
  BY <1>1 DEF RowsOK, Exists
<1>4. Money' = Money
  BY <1>2 DEF Money
<1>5. CASE stage[r] = "creating"
  <2>1. s = "PENDING" /\ call[r].op = "create"
    <3>1. CreateCall(p).status = "PENDING" /\ CreateCall(p).op = "create"
      BY DEF CreateCall
    <3>2. QED
      BY <1>0, <1>5, <3>1, Writer
  <2>2. ~Exists(p)
    BY <1>0, <2>1 DEF CInv, IInv, WritersOK, Inserting, Updating, Exists
  <2>3. /\ ordered[p] # {} /\ ordered[p] \subseteq added
        /\ ordered[p] \in SUBSET Items
    BY <1>0, <1>1, <1>5, Writer DEF CInv, CheckoutTypes, OrderOK
  <2>4. Placed' = [Placed EXCEPT ![p] = ordered[p]] /\ Placed[p] = {}
    BY <1>1, <1>2, <1>3, <2>2 DEF Placed, Exists
  <2>5. Booked' = Booked
    BY <1>1, <2>1 DEF Booked
  <2>6. PICK some \in SUBSET Items : some = ordered[p]
    BY <2>3
  <2>7. Promise!Place(p, some)
    BY <1>2, <1>4, <2>3, <2>4, <2>5, <2>6 DEF Promise!Place, Placed, Money, Booked
  <2>8. QED
    BY <2>7, PlaceIsStep
<1>6. CASE stage[r] # "creating"
  <2>1. call[r].op # "create"
    BY <1>6, Writer, Owned, PaidIsAnEdit
  <2>2. Exists(p)
    <3>1. Inserting(r) \/ Updating(r)
      BY DEF CInv, IInv, WritersOK
    <3>2. Inserting(r) => call[r].op = "create"
      BY DEF Inserting, CreateCall
    <3>3. QED
      BY <1>0, <2>1, <3>1, <3>2 DEF Updating, Exists
  <2>3. Placed' = Placed
    BY <1>1, <1>2, <1>3, <2>2 DEF Placed, Exists
  <2>4. CASE stage[r] = "marking"
    <3>1. s = "PAID" /\ p = own[r] /\ payment[p] = "captured"
      BY <1>0, <2>4, Writer, Owned, PaidIsAnEdit DEF CInv, ProgressOK
    <3>2. Booked' = Booked \cup {p}
      BY <1>1, <3>1 DEF Booked, Statuses
    <3>3. Money[p] = "captured"
      BY <1>1, <3>1 DEF Money
    <3>4. Promise!Book(p)
      BY <1>2, <1>4, <2>3, <3>2, <3>3 DEF Promise!Book, Placed, Money, Booked
    <3>5. QED
      BY <3>4, BookIsStep
  <2>5. CASE stage[r] = "none"
    <3>1. s # "PAID"
      BY <2>5, Writer
    <3>2. Booked' = Booked
      BY <1>1, <3>1 DEF Booked
    <3>3. QED
      BY <1>2, <1>4, <2>3, <3>2 DEF PromiseVars
  <2>6. QED
    BY <1>6, <2>4, <2>5, Writer
<1>7. QED
  BY <1>5, <1>6

\* The payment is decided, once, and not before the order is stored.
LEMMA DecidePromise ==
  ASSUME CInv, NEW o \in Orders, Decide(o)
  PROVE  Promise!Next
<1>1. PICK decision \in {"captured", "declined"} :
        payment' = [payment EXCEPT ![o] = decision] /\ payment[o] = "sent"
  BY DEF Decide
<1>2. UNCHANGED <<rows, committed, cart, added, ordered, emptied>>
  BY DEF Decide, vars
<1>3. Placed' = Placed /\ Booked' = Booked
  BY <1>2 DEF Placed, Booked, Exists
<1>4. Placed[o] # {}
  BY <1>1 DEF CInv, OrderOK, Placed
<1>5. Money' = [Money EXCEPT ![o] = decision] /\ Money[o] = "none"
  BY <1>1 DEF CInv, CheckoutTypes, Money
<1>6. Promise!Settle(o, decision)
  BY <1>2, <1>3, <1>4, <1>5 DEF Promise!Settle, Placed, Money, Booked
<1>7. QED
  BY <1>6 DEF Promise!Next

\* The cart is emptied for an order that was booked, and once.
LEMMA ClearPromise ==
  ASSUME CInv, NEW r \in Requests, ClearCart(r)
  PROVE  Promise!Next
<1>1. own[r] \in Orders /\ Mine(r) = {own[r]} /\ stage[r] = "clear"
  BY Owned DEF ClearCart
<1>2. own[r] \in Booked \ emptied
  BY <1>1 DEF CInv, ProgressOK, Booked
<1>3. Placed' = Placed /\ Booked' = Booked /\ Money' = Money
  BY DEF ClearCart, vars, Placed, Booked, Money, Exists
<1>4. Promise!Empty(own[r])
  BY <1>2, <1>3 DEF ClearCart, Promise!Empty, Placed, Money, Booked
<1>5. QED
  BY <1>1, <1>4 DEF Promise!Next

\* Every step of the checkout is a step of the contract, or none of it.
LEMMA StepPromise ==
  CInv /\ CInv' /\ [CheckoutNext]_allVars => Promise!Next \/ UNCHANGED PromiseVars
<1> SUFFICES ASSUME CInv, CInv', [CheckoutNext]_allVars
             PROVE  Promise!Next \/ UNCHANGED PromiseVars
  OBVIOUS
<1>1. ASSUME NEW r \in Requests,
             \/ ReadCart(r) \/ RefuseCheckout(r) \/ PaymentAnswered(r) \/ PaymentLost(r)
             \/ ClearCartFails(r) \/ Answer(r)
      PROVE  UNCHANGED PromiseVars
  BY <1>1, ServiceKeepsPromise DEF ReadCart, RefuseCheckout, PaymentAnswered, PaymentLost,
     ClearCartFails, Answer, vars
<1>2. ASSUME NEW r \in Requests, NEW o \in Orders, CallCreate(r, o)
      PROVE  UNCHANGED PromiseVars
  <2>1. ~Exists(o) /\ UNCHANGED <<rows, committed, cart, added, payment, emptied>>
    BY <1>2 DEF CallCreate, BeginCreate, Fresh, Hold, Exists
  <2>2. \A p \in Orders : Exists(p) => ordered'[p] = ordered[p]
    BY <1>2, <2>1 DEF CallCreate, CInv, CheckoutTypes
  <2>3. QED
    BY <2>1, <2>2, KeepsPromise
<1>3. ASSUME NEW r \in Requests, Created(r) \/ MarkedPaid(r) \/ OtherAnswered(r)
      PROVE  UNCHANGED PromiseVars
  BY <1>3, ServiceKeepsPromise DEF Created, MarkedPaid, OtherAnswered, Respond, checkoutVars
<1>4. ASSUME NEW r \in Requests, Charge(r)
      PROVE  UNCHANGED PromiseVars
  <2>1. payment[own[r]] = "none" /\ own[r] \in Orders
    BY <1>4, Owned DEF Charge, CInv, ProgressOK
  <2>2. \A o \in Orders :
          payment'[o] # payment[o] => payment[o] = "none" /\ payment'[o] = "sent"
    BY <1>4, <2>1 DEF Charge, CInv, CheckoutTypes
  <2>3. QED
    BY <1>4, <2>2, KeepsPromise DEF Charge, vars
<1>5. ASSUME NEW r \in Requests, CallMarkPaid(r)
      PROVE  UNCHANGED PromiseVars
  BY <1>5, ServiceKeepsPromise DEF CallMarkPaid, Prepare, Hold, Refuse, LoadFails, Return
<1>6. ASSUME NEW r \in Requests, NEW c \in OtherCalls, OtherEdit(r, c)
      PROVE  UNCHANGED PromiseVars
  BY <1>6, ServiceKeepsPromise DEF OtherEdit, Prepare, Hold, checkoutVars
<1>7. ASSUME NEW r \in Requests, ServiceStep(r)
      PROVE  Promise!Next \/ UNCHANGED PromiseVars
  <2>1. CASE Write(r) \/ WriteUnknown(r)
    BY <1>7, <2>1, CommitPromise DEF ServiceStep, Write, WriteUnknown
  <2>2. CASE WriteFails(r) \/ Publish(r) \/ PublishFails(r)
    BY <1>7, <2>2, ServiceKeepsPromise DEF ServiceStep, WriteFails, Publish, PublishFails,
       checkoutVars
  <2>3. QED
    BY <1>7, <2>1, <2>2 DEF ServiceStep
<1>8. ASSUME NEW lost \in SUBSET Requests, CheckoutCrash(lost)
      PROVE  UNCHANGED PromiseVars
  BY <1>8, ServiceKeepsPromise DEF CheckoutCrash, Crash
<1>9. ASSUME NEW i \in Items, AddItem(i)
      PROVE  Promise!Next
  <2>1. Placed' = Placed /\ Booked' = Booked /\ Money' = Money
    BY <1>9 DEF AddItem, vars, Placed, Booked, Money, Exists
  <2>2. Promise!Add(i)
    BY <1>9, <2>1 DEF AddItem, Promise!Add, Placed, Money, Booked
  <2>3. QED
    BY <2>2 DEF Promise!Next
<1>10. CASE UNCHANGED allVars
  BY <1>10, ServiceKeepsPromise DEF allVars, vars, checkoutVars
<1>11. QED
  BY <1>1, <1>2, <1>3, <1>4, <1>5, <1>6, <1>7, <1>8, <1>9, <1>10, DecidePromise, ClearPromise
  DEF CheckoutNext, HandlerStep

\* The checkout implements its contract: no payment before the order is stored,
\* no PAID order without the money, no line leaves the cart but by the checkout
\* of an order that was booked (handler.go:86-111).
THEOREM CheckoutKeepsContract == CheckoutSpec => KeepsCheckoutContract
<1>1. PromiseVars = Promise!vars
  BY DEF PromiseVars, Placed, Money, Booked, Promise!vars
<1>2. CInv /\ CInv' /\ [CheckoutNext]_allVars => [Promise!Next]_Promise!vars
  BY <1>1, StepPromise DEF PromiseVars, Placed, Money, Booked, Promise!vars
<1>3. QED
  BY <1>2, PromiseInit, CheckoutInvariant, PTL
  DEF CheckoutSpec, KeepsCheckoutContract, Promise!Spec

-----------------------------------------------------------------------------
(* Without faults, no captured payment is abandoned *)

\* The order is marked PAID, or somebody has cancelled it.
Settled(o) == "PAID" \in committed[o] \/ "CANCELLED" \in committed[o]

\* A checkout is between the charge and the answer of UpdateOrderStatus for o.
IsFollowed(o) ==
  \E r \in Requests : stage[r] \in {"paying", "mark", "marking"} /\ own[r] = o

\* A payment that was sent is waited for, one that was captured is settled or
\* about to be, and an UpdateOrderStatus is refused only for a settled order.
FollowInv ==
  /\ \A o \in Orders :
       /\ payment[o] = "sent" => \E r \in Requests : stage[r] = "paying" /\ own[r] = o
       /\ payment[o] = "captured" => Settled(o) \/ IsFollowed(o)
  /\ \A r \in Requests :
       stage[r] = "marking" /\ pc[r] = "done" /\ reply[r] # "ok" => Settled(own[r])

\* An order that is not PENDING any more was paid for or cancelled.
LEMMA PastPending ==
  ASSUME IInv, NEW o \in Orders, Exists(o), rows[o].status # "PENDING"
  PROVE  Settled(o)
<1>1. rows[o].status \in committed[o] /\ rows[o].status \in Statuses
  BY DEF IInv, RowsOK, TypeOK, Row, Exists
<1>2. ASSUME NEW s \in committed[o], s # "PENDING"
      PROVE  \E from \in committed[o] : CanTransitionTo(from, s)
  BY <1>2 DEF IInv, Grounded, Reachable
<1>3. "PROCESSING" \in committed[o] => "PAID" \in committed[o]
  BY <1>2, TransitionTable
<1>4. "SHIPPED" \in committed[o] => "PROCESSING" \in committed[o]
  BY <1>2, TransitionTable
<1>5. "COMPLETED" \in committed[o] => "SHIPPED" \in committed[o]
  BY <1>2, TransitionTable
<1>6. QED
  BY <1>1, <1>3, <1>4, <1>5 DEF Settled, Statuses

\* UpdateOrderStatus refuses to mark an order PAID only if it is settled.
LEMMA RefusedIsSettled ==
  ASSUME CInv, NEW r \in Requests, stage[r] = "mark", Refuse(r, PaidCall(own[r]))
  PROVE  Settled(own[r])
<1>1. own[r] \in Orders /\ Exists(own[r])
  BY Owned
<1>2. ~Allowed(PaidCall(own[r]), rows[own[r]])
  BY <1>1, PaidIsAnEdit DEF Refuse
<1>3. rows[own[r]].status # "PENDING"
  BY <1>1, <1>2, PaidIsAnEdit DEF Allowed, CanTransitionTo, Transitions
<1>4. QED
  BY <1>1, <1>3, PastPending DEF CInv

\* A step of the handler of r keeps the invariant if it does so for r and its order.
LEMMA FollowOthers ==
  ASSUME CInv, FollowInv, NEW r \in Requests,
         \A o \in Orders : Settled(o) => Settled(o)',
         \A q \in Requests : q # r => stage'[q] = stage[q] /\ own'[q] = own[q],
         \A q \in Requests : q # r => pc'[q] = pc[q] /\ reply'[q] = reply[q],
         \A o \in Orders : o # own[r] => payment'[o] = payment[o],
         own[r] \in Orders =>
           /\ own'[r] = own[r]
           /\ payment'[own[r]] = "sent" => stage'[r] = "paying"
           /\ payment'[own[r]] = "captured" =>
                Settled(own[r])' \/ stage'[r] \in {"paying", "mark", "marking"},
         stage'[r] = "marking" /\ pc'[r] = "done" /\ reply'[r] # "ok" => Settled(own[r])' /\ own'[r] = own[r]
  PROVE  FollowInv'
<1>1. ASSUME NEW o \in Orders, payment'[o] = "sent"
      PROVE  \E q \in Requests : stage'[q] = "paying" /\ own'[q] = o
  <2>1. CASE o = own[r]
    BY <1>1, <2>1
  <2>2. CASE o # own[r]
    BY <1>1, <2>2 DEF FollowInv
  <2>3. QED
    BY <2>1, <2>2
<1>2. ASSUME NEW o \in Orders, payment'[o] = "captured"
      PROVE  Settled(o)' \/ IsFollowed(o)'
  <2>1. CASE o = own[r]
    BY <1>2, <2>1 DEF IsFollowed, Settled
  <2>2. CASE o # own[r]
    <3>1. Settled(o) \/ IsFollowed(o)
      BY <1>2, <2>2 DEF FollowInv
    <3>2. QED
      BY <2>2, <3>1 DEF IsFollowed
  <2>3. QED
    BY <2>1, <2>2
<1>3. ASSUME NEW q \in Requests, stage'[q] = "marking", pc'[q] = "done", reply'[q] # "ok"
      PROVE  Settled(own[q])'
  <2>1. CASE q = r
    <3>1. Settled(own[r])' /\ own'[r] = own[r]
      BY <1>3, <2>1
    <3>2. QED
      BY <2>1, <3>1
  <2>2. CASE q # r
    <3>1. stage[q] = "marking" /\ Settled(own[q]) /\ own'[q] = own[q]
      BY <1>3, <2>2 DEF FollowInv
    <3>2. own[q] \in Orders
      BY <3>1, Owned
    <3>3. QED
      BY <3>1, <3>2 DEF Settled
  <2>3. QED
    BY <2>1, <2>2
<1>4. QED
  BY <1>1, <1>2, <1>3 DEF FollowInv, Settled, IsFollowed

LEMMA NextFollowInv == CInv /\ ~Faults /\ FollowInv /\ [CheckoutNext]_allVars => FollowInv'
<1> SUFFICES ASSUME CInv, ~Faults, FollowInv, [CheckoutNext]_allVars
             PROVE  FollowInv'
  OBVIOUS
<1>0. /\ stage \in [Requests -> Stages] /\ own \in [Requests -> Orders \cup {NoOrder}]
      /\ payment \in [Orders -> {"none", "sent", "captured", "declined"}]
      /\ pc \in [Requests -> PCs] /\ reply \in [Requests -> Replies]
      /\ call \in [Requests -> Calls \cup {NoCall}]
  BY DEF CInv, CheckoutTypes, IInv, TypeOK
<1>s. \A o \in Orders : Settled(o) => Settled(o)'
  BY StepInside, HistoryGrows DEF CInv, Settled
<1>h. \A r \in Requests : HandlerOK(r)
  BY DEF CInv
<1>1. ASSUME NEW r \in Requests, ReadCart(r) \/ RefuseCheckout(r)
      PROVE  FollowInv'
  <2>1. /\ UNCHANGED <<vars, own, payment>> /\ own[r] = NoOrder
        /\ stage'[r] \in {"create", "answer"} /\ \A q \in Requests : q # r => stage'[q] = stage[q]
    BY <1>0, <1>1, <1>h DEF ReadCart, RefuseCheckout, Enter, Finish, HandlerOK
  <2>2. QED
    BY <1>s, <2>1, NoOrderAssumption, FollowOthers DEF vars
<1>2. ASSUME NEW r \in Requests, NEW o \in Orders, CallCreate(r, o)
      PROVE  FollowInv'
  <2>1. /\ UNCHANGED <<own, payment>> /\ own[r] = NoOrder /\ stage'[r] = "creating"
        /\ \A q \in Requests : q # r => stage'[q] = stage[q] /\ pc'[q] = pc[q] /\ reply'[q] = reply[q]
    BY <1>0, <1>2, <1>h DEF CallCreate, BeginCreate, Hold, Enter, HandlerOK
  <2>2. QED
    BY <1>s, <2>1, NoOrderAssumption, FollowOthers
<1>3. ASSUME NEW r \in Requests, Created(r)
      PROVE  FollowInv'
  <2>1. /\ UNCHANGED payment /\ own[r] = NoOrder /\ stage'[r] \in {"pay", "answer"}
        /\ \A q \in Requests : q # r => /\ stage'[q] = stage[q] /\ own'[q] = own[q]
                                        /\ pc'[q] = pc[q] /\ reply'[q] = reply[q]
    BY <1>0, <1>3, <1>h DEF Created, Respond, Enter, Finish, HandlerOK
  <2>2. QED
    BY <1>s, <2>1, NoOrderAssumption, FollowOthers
<1>4. ASSUME NEW r \in Requests, Charge(r)
      PROVE  FollowInv'
  <2>1. /\ UNCHANGED <<vars, own>> /\ stage'[r] = "paying" /\ payment' = [payment EXCEPT ![own[r]] = "sent"]
        /\ \A q \in Requests : q # r => stage'[q] = stage[q]
    BY <1>0, <1>4 DEF Charge, Enter
  <2>2. QED
    BY <1>0, <1>s, <2>1, FollowOthers DEF vars
<1>5. ASSUME NEW r \in Requests, PaymentAnswered(r)
      PROVE  FollowInv'
  <2>1. /\ UNCHANGED <<vars, own, payment>> /\ stage[r] = "paying"
        /\ \/ payment[own[r]] = "captured" /\ stage'[r] = "mark"
           \/ payment[own[r]] = "declined" /\ stage'[r] = "answer"
        /\ \A q \in Requests : q # r => stage'[q] = stage[q]
    BY <1>0, <1>5 DEF PaymentAnswered, PaidAnswer, Enter, Finish
  <2>2. QED
    BY <1>s, <2>1, FollowOthers DEF vars
<1>6. ASSUME NEW r \in Requests, CallMarkPaid(r)
      PROVE  FollowInv'
  <2>1. /\ UNCHANGED <<own, payment>> /\ stage[r] = "mark" /\ stage'[r] = "marking"
        /\ \A q \in Requests : q # r => stage'[q] = stage[q] /\ pc'[q] = pc[q] /\ reply'[q] = reply[q]
        /\ pc'[r] = "done" => Refuse(r, PaidCall(own[r]))
    BY <1>0, <1>6 DEF CallMarkPaid, Prepare, Refuse, LoadFails, Hold, Return, Enter
  <2>2. own[r] \in Orders /\ payment[own[r]] = "captured"
    BY <2>1, Owned DEF CInv, ProgressOK
  <2>3. pc'[r] = "done" => Settled(own[r])'
    BY <1>s, <2>1, <2>2, RefusedIsSettled
  <2>4. QED
    BY <1>s, <2>1, <2>2, <2>3, FollowOthers
<1>7. ASSUME NEW r \in Requests, MarkedPaid(r)
      PROVE  FollowInv'
  <2>1. /\ UNCHANGED <<own, payment>> /\ stage[r] = "marking" /\ stage'[r] \in {"clear", "answer"}
        /\ pc[r] = "done"
        /\ \A q \in Requests : q # r => stage'[q] = stage[q] /\ pc'[q] = pc[q] /\ reply'[q] = reply[q]
    BY <1>0, <1>7 DEF MarkedPaid, Respond, Enter, Finish
  <2>2. own[r] \in Orders /\ payment[own[r]] = "captured"
    BY <2>1, Owned DEF CInv, ProgressOK
  <2>3. CASE reply[r] = "ok"
    <3>1. call[r] = PaidCall(own[r]) /\ call[r].status \in committed[call[r].order]
      BY <1>h, <2>1, <2>3 DEF HandlerOK, Marking, CInv, IInv, AnswersOK
    <3>2. Settled(own[r])
      BY <2>2, <3>1, PaidIsAnEdit DEF Settled
    <3>3. QED
      BY <1>s, <2>1, <2>2, <3>2, FollowOthers
  <2>4. CASE reply[r] # "ok"
    <3>1. Settled(own[r])
      BY <2>1, <2>4 DEF FollowInv
    <3>2. QED
      BY <1>s, <2>1, <2>2, <3>1, FollowOthers
  <2>5. QED
    BY <2>3, <2>4
<1>8. ASSUME NEW r \in Requests, ClearCart(r) \/ ClearCartFails(r)
      PROVE  FollowInv'
  <2>1. /\ UNCHANGED <<vars, own, payment>> /\ stage[r] = "clear" /\ stage'[r] = "answer"
        /\ \A q \in Requests : q # r => stage'[q] = stage[q]
    BY <1>0, <1>8 DEF ClearCart, ClearCartFails, Enter, Finish
  <2>2. own[r] \in Orders /\ payment[own[r]] = "captured" /\ Settled(own[r])
    BY <2>1, Owned DEF CInv, ProgressOK, Settled
  <2>3. QED
    BY <1>s, <2>1, <2>2, FollowOthers DEF vars
<1>9. ASSUME NEW r \in Requests, Answer(r)
      PROVE  FollowInv'
  <2>1. /\ UNCHANGED <<vars, payment>> /\ stage[r] = "answer" /\ stage'[r] = "none"
        /\ \A q \in Requests : q # r => stage'[q] = stage[q] /\ own'[q] = own[q]
    BY <1>0, <1>9 DEF Answer, Enter
  <2>2. \A q \in Requests : stage[q] \in {"paying", "mark", "marking"} =>
          q # r /\ stage'[q] = stage[q] /\ own'[q] = own[q] /\ pc'[q] = pc[q] /\ reply'[q] = reply[q]
    BY <2>1 DEF vars
  <2>3. \A q \in Requests : stage'[q] \in {"marking"} => stage[q] = "marking"
    BY <2>1
  <2>4. \A q \in Requests : stage[q] = "marking" => own[q] \in Orders
    BY Owned
  <2>5. QED
    BY <1>s, <2>1, <2>2, <2>3, <2>4 DEF FollowInv, IsFollowed, Settled, vars
<1>10. ASSUME NEW r \in Requests, ServiceStep(r)
       PROVE  FollowInv'
  <2>1. /\ UNCHANGED checkoutVars /\ \A q \in Requests : q # r => pc'[q] = pc[q] /\ reply'[q] = reply[q]
        /\ pc'[r] = "done" => reply'[r] = "ok"
    BY <1>0, <1>10 DEF ServiceStep, Write, WriteFails, WriteUnknown, Publish, PublishFails
  <2>2. \A q \in Requests : stage[q] = "marking" => own[q] \in Orders
    BY Owned
  <2>3. QED
    BY <1>s, <2>1, <2>2 DEF checkoutVars, FollowInv, IsFollowed, Settled
<1>11. ASSUME NEW r \in Requests, OtherAnswered(r) \/ \E c \in OtherCalls : OtherEdit(r, c)
       PROVE  FollowInv'
  <2>1. /\ UNCHANGED checkoutVars /\ stage[r] = "none"
        /\ \A q \in Requests : q # r => pc'[q] = pc[q] /\ reply'[q] = reply[q]
    BY <1>0, <1>11 DEF OtherAnswered, OtherEdit, Respond, Prepare, Hold
  <2>2. \A q \in Requests : stage[q] = "marking" => own[q] \in Orders
    BY Owned
  <2>3. QED
    BY <1>s, <2>1, <2>2 DEF checkoutVars, FollowInv, IsFollowed, Settled
<1>12. ASSUME NEW o \in Orders, Decide(o)
       PROVE  FollowInv'
  <2>1. /\ UNCHANGED <<vars, stage, own>> /\ payment[o] = "sent" /\ payment'[o] \in {"captured", "declined"}
        /\ \A p \in Orders : p # o => payment'[p] = payment[p]
    BY <1>0, <1>12 DEF Decide
  <2>2. IsFollowed(o)
    BY <2>1 DEF FollowInv, IsFollowed
  <2>3. QED
    BY <1>s, <2>1, <2>2 DEF FollowInv, IsFollowed, Settled, vars
<1>13. CASE \/ \E i \in Items : AddItem(i)
            \/ UNCHANGED allVars
  <2>1. UNCHANGED <<vars, stage, own, payment>>
    BY <1>13 DEF AddItem, allVars, checkoutVars
  <2>2. QED
    BY <2>1 DEF FollowInv, IsFollowed, Settled, vars
<1>14. QED
  BY <1>1, <1>2, <1>3, <1>4, <1>5, <1>6, <1>7, <1>8, <1>9, <1>10, <1>11, <1>12, <1>13
  DEF CheckoutNext, HandlerStep, PaymentLost, CheckoutCrash, Crash

LEMMA InitFollowInv == CheckoutInit => FollowInv
BY DEF CheckoutInit, FollowInv

\* When nothing fails, no captured payment is abandoned, however checkouts race
\* each other and requests that cancel orders or move them on.
THEOREM ChargesAreFollowed == CheckoutSpec => []NoChargeIsAbandoned
<1>1. FollowInv => NoChargeIsAbandoned
  BY DEF FollowInv, NoChargeIsAbandoned, Charged, Settled, IsFollowed
<1>2. CASE Faults
  <2>1. NoChargeIsAbandoned
    BY <1>2 DEF NoChargeIsAbandoned
  <2>2. QED
    BY <2>1, PTL
<1>3. CASE ~Faults
  <2>1. CInv /\ FollowInv /\ [CheckoutNext]_allVars => FollowInv'
    BY <1>3, NextFollowInv
  <2>2. QED
    BY <1>1, <2>1, CheckoutInvariant, InitFollowInv, PTL DEF CheckoutSpec
<1>4. QED
  BY <1>2, <1>3

\* In a checkout too, success answers are true and no event is forgotten.
THEOREM CheckoutKeepsService == CheckoutSpec => [](AnsweredIsDone /\ NoEventIsForgotten)
<1>1. QED
  BY CheckoutInside, AnswersAreTrue, EventsAreOwed, PTL

-----------------------------------------------------------------------------
(* When a retry is safe *)

\* No checkout is in progress, and every payment that was ever sent is declined
\* or has emptied the cart that it pays for.
NothingIsOpen ==
  /\ \A q \in Requests : stage[q] \in {"none", "answer"}
  /\ \A o \in Orders : payment[o] \in {"sent", "captured"} => o \in emptied

\* A step that does not begin a checkout while another one is open.
SafeRetry == \A r \in Requests : ReadCart(r) => NothingIsOpen

\* The order is charged, or its checkout may still charge it.
Chargeable(o) ==
  \/ payment[o] \in {"sent", "captured"}
  \/ \E r \in Requests : stage[r] \in {"creating", "pay"} /\ o \in Mine(r)

\* One checkout at a time; what is or may be charged is charged for different
\* lines; and what a checkout has read or will read is none of them.
OnceInv ==
  /\ \A r, q \in Requests : stage[r] \notin {"none", "answer"} /\ stage[q] \notin {"none", "answer"} => r = q
  /\ \A o, p \in Orders : Chargeable(o) /\ Chargeable(p) /\ o # p => ordered[o] \cap ordered[p] = {}
  /\ \A r \in Requests : stage[r] = "create" =>
       \A o \in Orders : Chargeable(o) => lines[r] \cap ordered[o] = {}
  /\ \A o \in emptied : ordered[o] \cap cart = {}

\* Most steps make less chargeable, and begin nothing.
BeginsNothing ==
  \A q \in Requests :
    /\ stage'[q] \notin {"none", "answer"} => stage[q] \notin {"none", "answer"}
    /\ stage'[q] = "create" => stage[q] = "create" /\ lines'[q] = lines[q]

OwnsNoMore ==
  \A q \in Requests : stage'[q] \in {"creating", "pay"} =>
    stage[q] \in {"creating", "pay"} /\ Mine(q)' \subseteq Mine(q)

ChargesNoMore == \A o \in Orders : payment'[o] \in {"sent", "captured"} => Chargeable(o)

LEMMA LessIsOpen ==
  ASSUME OnceInv, UNCHANGED <<ordered, emptied, cart>>, BeginsNothing, OwnsNoMore, ChargesNoMore
  PROVE  OnceInv'
<1>1. ASSUME NEW o \in Orders, Chargeable(o)'
      PROVE  Chargeable(o)
  BY <1>1 DEF Chargeable, OwnsNoMore, ChargesNoMore
<1>2. \A q \in Requests : /\ stage'[q] \notin {"none", "answer"} => stage[q] \notin {"none", "answer"}
                          /\ stage'[q] = "create" => stage[q] = "create" /\ lines'[q] = lines[q]
  BY DEF BeginsNothing
<1>3. \A r, q \in Requests : stage'[r] \notin {"none", "answer"} /\ stage'[q] \notin {"none", "answer"} => r = q
  BY <1>2 DEF OnceInv
<1>4. \A o, p \in Orders : Chargeable(o)' /\ Chargeable(p)' /\ o # p => ordered'[o] \cap ordered'[p] = {}
  BY <1>1 DEF OnceInv
<1>5. \A r \in Requests : stage'[r] = "create" =>
        \A o \in Orders : Chargeable(o)' => lines'[r] \cap ordered'[o] = {}
  BY <1>1, <1>2 DEF OnceInv
<1>6. \A o \in emptied' : ordered'[o] \cap cart' = {}
  BY DEF OnceInv
<1>7. QED
  BY <1>3, <1>4, <1>5, <1>6 DEF OnceInv

\* A checkout begins: what it reads was never charged.
LEMMA ReadCartOnce ==
  ASSUME CInv, OnceInv, NEW r \in Requests, ReadCart(r), NothingIsOpen
  PROVE  OnceInv'
<1>0. stage \in [Requests -> Stages] /\ lines \in [Requests -> SUBSET Items]
  BY DEF CInv, CheckoutTypes
<1>1. /\ UNCHANGED <<ordered, emptied, cart, payment, own, call>>
      /\ stage' = [stage EXCEPT ![r] = "create"] /\ lines' = [lines EXCEPT ![r] = cart]
  BY DEF ReadCart, Enter, vars
<1>2. ASSUME NEW o \in Orders, Chargeable(o)'
      PROVE  Chargeable(o) /\ o \in emptied
  <2>1. \A q \in Requests : stage'[q] \notin {"creating", "pay"}
    BY <1>0, <1>1 DEF NothingIsOpen
  <2>2. QED
    BY <1>1, <1>2, <2>1 DEF Chargeable, NothingIsOpen
<1>3. \A q \in Requests : stage'[q] \notin {"none", "answer"} => q = r
  BY <1>0, <1>1 DEF NothingIsOpen
<1>4. \A q \in Requests : stage'[q] = "create" => q = r /\ lines'[q] = cart
  BY <1>0, <1>1, <1>3
<1>5. \A o, p \in Orders : Chargeable(o)' /\ Chargeable(p)' /\ o # p => ordered'[o] \cap ordered'[p] = {}
  BY <1>1, <1>2 DEF OnceInv
<1>6. \A q \in Requests : stage'[q] = "create" =>
        \A o \in Orders : Chargeable(o)' => lines'[q] \cap ordered'[o] = {}
  <2>1. \A o \in emptied : cart \cap ordered[o] = {}
    BY DEF OnceInv
  <2>2. QED
    BY <1>1, <1>2, <1>4, <2>1
<1>7. \A o \in emptied' : ordered'[o] \cap cart' = {}
  BY <1>1 DEF OnceInv
<1>8. QED
  BY <1>3, <1>5, <1>6, <1>7 DEF OnceInv

\* Its order is made from those lines.
LEMMA CallCreateOnce ==
  ASSUME CInv, OnceInv, NEW r \in Requests, NEW o \in Orders, CallCreate(r, o)
  PROVE  OnceInv'
<1>0. /\ stage \in [Requests -> Stages] /\ call \in [Requests -> Calls \cup {NoCall}]
      /\ ordered \in [Orders -> SUBSET Items]
      /\ payment \in [Orders -> {"none", "sent", "captured", "declined"}]
  BY DEF CInv, CheckoutTypes, IInv, TypeOK
<1>1. /\ UNCHANGED <<emptied, cart, payment, own, lines>> /\ stage[r] = "create" /\ Fresh(o)
      /\ stage' = [stage EXCEPT ![r] = "creating"] /\ ordered' = [ordered EXCEPT ![o] = lines[r]]
      /\ call' = [call EXCEPT ![r] = CreateCall(o)]
  BY DEF CallCreate, BeginCreate, Hold, Enter
<1>2. o \notin emptied /\ payment[o] = "none"
  BY <1>0, <1>1 DEF Fresh, CInv, OrderOK, Exists, IInv, RowsOK
<1>3. \A q \in Requests : q # r => stage'[q] \in {"none", "answer"}
  BY <1>0, <1>1 DEF OnceInv
<1>4. Mine(r)' \subseteq {o}
  BY <1>0, <1>1 DEF Mine, CreateCall
<1>5. ASSUME NEW p \in Orders, Chargeable(p)', p # o
      PROVE  Chargeable(p) /\ ordered'[p] = ordered[p] /\ lines[r] \cap ordered[p] = {}
  <2>1. Chargeable(p)
    BY <1>1, <1>3, <1>4, <1>5 DEF Chargeable
  <2>2. QED
    BY <1>0, <1>1, <1>5, <2>1 DEF OnceInv
<1>6. \A q, p \in Requests : stage'[q] \notin {"none", "answer"} /\ stage'[p] \notin {"none", "answer"} => q = p
  BY <1>3
<1>7. \A p, q \in Orders : Chargeable(p)' /\ Chargeable(q)' /\ p # q => ordered'[p] \cap ordered'[q] = {}
  <2>1. ordered'[o] = lines[r]
    BY <1>0, <1>1
  <2>2. \A p, q \in Orders : Chargeable(p) /\ Chargeable(q) /\ p # q => ordered[p] \cap ordered[q] = {}
    BY DEF OnceInv
  <2>3. QED
    BY <1>5, <2>1, <2>2
<1>8. \A q \in Requests : stage'[q] # "create"
  BY <1>0, <1>1, <1>3
<1>9. \A p \in emptied' : ordered'[p] \cap cart' = {}
  <2>1. \A p \in emptied : p # o /\ p \in Orders
    BY <1>2 DEF CInv, CheckoutTypes
  <2>2. QED
    BY <1>0, <1>1, <2>1 DEF OnceInv
<1>10. QED
  BY <1>6, <1>7, <1>8, <1>9 DEF OnceInv

\* A cart that is emptied, or that gets a new line, has no line of an order that
\* was emptied before.
LEMMA CartOnce ==
  ASSUME CInv, OnceInv, UNCHANGED <<ordered, payment, own, call, lines>>,
         \/ UNCHANGED stage /\ UNCHANGED emptied /\ \E i \in Items : i \notin added /\ cart' = cart \cup {i}
         \/ \E r \in Requests : stage' = [stage EXCEPT ![r] = "answer"] /\ cart' = {}
  PROVE  OnceInv'
<1>0. stage \in [Requests -> Stages] /\ emptied \in SUBSET Orders
  BY DEF CInv, CheckoutTypes
<1>1. \A q \in Requests : stage'[q] = stage[q] \/ stage'[q] = "answer"
  BY <1>0
<1>2. ASSUME NEW o \in Orders, Chargeable(o)'
      PROVE  Chargeable(o)
  BY <1>1, <1>2 DEF Chargeable, Mine
<1>3. \A r, q \in Requests : stage'[r] \notin {"none", "answer"} /\ stage'[q] \notin {"none", "answer"} => r = q
  BY <1>1 DEF OnceInv
<1>4. \A o, p \in Orders : Chargeable(o)' /\ Chargeable(p)' /\ o # p => ordered'[o] \cap ordered'[p] = {}
  BY <1>2 DEF OnceInv
<1>5. \A r \in Requests : stage'[r] = "create" =>
        \A o \in Orders : Chargeable(o)' => lines'[r] \cap ordered'[o] = {}
  BY <1>1, <1>2 DEF OnceInv
<1>6. \A o \in emptied' : ordered'[o] \cap cart' = {}
  <2>1. CASE cart' = {}
    BY <2>1
  <2>2. ASSUME NEW i \in Items, i \notin added, cart' = cart \cup {i}, UNCHANGED emptied
        PROVE  \A o \in emptied' : ordered'[o] \cap cart' = {}
    <3>1. \A o \in emptied : i \notin ordered[o] /\ ordered[o] \cap cart = {}
      BY <1>0, <2>2 DEF CInv, OrderOK, OnceInv
    <3>2. QED
      BY <2>2, <3>1
  <2>3. QED
    BY <2>1, <2>2
<1>7. QED
  BY <1>3, <1>4, <1>5, <1>6 DEF OnceInv

\* The steps of a checkout between its order and its answer.
LEMMA HandlerOnce ==
  ASSUME CInv, OnceInv, NEW r \in Requests,
         \/ Created(r) \/ Charge(r) \/ PaymentAnswered(r) \/ PaymentLost(r)
         \/ CallMarkPaid(r) \/ MarkedPaid(r) \/ ClearCartFails(r)
         \/ Answer(r) \/ RefuseCheckout(r)
  PROVE  OnceInv'
<1>0. /\ stage \in [Requests -> Stages] /\ own \in [Requests -> Orders \cup {NoOrder}]
      /\ payment \in [Orders -> {"none", "sent", "captured", "declined"}]
      /\ call \in [Requests -> Calls \cup {NoCall}] /\ lines \in [Requests -> SUBSET Items]
  BY DEF CInv, CheckoutTypes, IInv, TypeOK
<1>1. /\ UNCHANGED <<ordered, emptied, cart>>
      /\ \A q \in Requests : q # r => stage'[q] = stage[q] /\ lines'[q] = lines[q] /\ own'[q] = own[q] /\ call'[q] = call[q]
      /\ stage'[r] \in {"pay", "paying", "mark", "marking", "clear", "answer", "none"}
      /\ stage'[r] \in {"none", "answer"} \/ stage[r] \notin {"none", "answer"}
  BY <1>0 DEF Created, Charge, PaymentAnswered, PaymentLost, CallMarkPaid, MarkedPaid, ClearCartFails, Answer,
     RefuseCheckout, Enter, Finish, Respond, Prepare, Refuse, LoadFails, Hold, Return, vars
<1>2. \A q \in Requests : q # r => Mine(q)' = Mine(q)
  BY <1>1 DEF Mine
<1>3. ASSUME stage'[r] = "pay"
      PROVE  stage[r] = "creating" /\ Mine(r)' \subseteq Mine(r)
  <2>1. stage[r] = "creating" /\ reply[r] = "ok" /\ own'[r] = call[r].order
    BY <1>0, <1>3 DEF Created, Charge, PaymentAnswered, PaymentLost, CallMarkPaid, MarkedPaid, ClearCartFails, Answer,
       RefuseCheckout, Enter, Finish
  <2>2. PICK o \in Orders : call[r] = CreateCall(o)
    BY <2>1 DEF CInv, HandlerOK, Creating
  <2>3. Mine(r)' \subseteq {o}
    BY <1>3, <2>1, <2>2 DEF Mine, CreateCall
  <2>4. o \in Mine(r)
    BY <2>1, <2>2 DEF Mine
  <2>5. QED
    BY <2>1, <2>3, <2>4
<1>4. ASSUME NEW o \in Orders, payment'[o] \in {"sent", "captured"}
      PROVE  Chargeable(o)
  <2>1. CASE payment'[o] = payment[o]
    BY <1>4, <2>1 DEF Chargeable
  <2>2. CASE payment'[o] # payment[o]
    <3>1. stage[r] = "pay" /\ o = own[r]
      BY <1>0, <2>2 DEF Created, Charge, PaymentAnswered, PaymentLost, CallMarkPaid, MarkedPaid, ClearCartFails, Answer,
         RefuseCheckout
    <3>2. QED
      BY <3>1 DEF Chargeable, Mine
  <2>3. QED
    BY <2>1, <2>2
<1>5. BeginsNothing
  BY <1>1 DEF BeginsNothing
<1>6. OwnsNoMore
  BY <1>1, <1>2, <1>3 DEF OwnsNoMore
<1>7. ChargesNoMore
  BY <1>4 DEF ChargesNoMore
<1>8. QED
  BY <1>1, <1>5, <1>6, <1>7, LessIsOpen

LEMMA NextOnceInv == CInv /\ OnceInv /\ [CheckoutNext]_allVars /\ [SafeRetry]_allVars => OnceInv'
<1> SUFFICES ASSUME CInv, OnceInv, [CheckoutNext]_allVars, [SafeRetry]_allVars
             PROVE  OnceInv'
  OBVIOUS
<1>0. stage \in [Requests -> Stages] /\ call \in [Requests -> Calls \cup {NoCall}]
  BY DEF CInv, CheckoutTypes, IInv, TypeOK
<1>1. ASSUME NEW r \in Requests, ReadCart(r)
      PROVE  OnceInv'
  <2>1. stage' # stage
    BY <1>0, <1>1 DEF ReadCart, Enter
  <2>2. NothingIsOpen
    BY <1>1, <2>1 DEF SafeRetry, allVars, checkoutVars
  <2>3. QED
    BY <1>1, <2>2, ReadCartOnce
<1>2. ASSUME NEW r \in Requests, NEW o \in Orders, CallCreate(r, o)
      PROVE  OnceInv'
  BY <1>2, CallCreateOnce
<1>3. ASSUME NEW r \in Requests, ClearCart(r)
      PROVE  OnceInv'
  BY <1>3, CartOnce DEF ClearCart, Finish, Enter, vars
<1>4. ASSUME NEW i \in Items, AddItem(i)
      PROVE  OnceInv'
  BY <1>4, CartOnce DEF AddItem, vars
<1>5. ASSUME NEW r \in Requests,
             \/ ServiceStep(r) \/ OtherAnswered(r) \/ \E c \in OtherCalls : OtherEdit(r, c)
      PROVE  OnceInv'
  <2>1. /\ UNCHANGED <<ordered, emptied, cart, stage, lines, own, payment>>
        /\ \A q \in Requests : stage[q] = "creating" => call'[q] = call[q] \/ call'[q] = NoCall
    BY <1>0, <1>5 DEF checkoutVars, ServiceStep, OtherAnswered, OtherEdit, Write, WriteFails, WriteUnknown, Fail,
       Publish, PublishFails, Respond, Prepare, Hold
  <2>2. \A q \in Requests : stage[q] \in {"creating", "pay"} => Mine(q)' \subseteq Mine(q)
    BY <2>1 DEF Mine, NoCall, CreateCall
  <2>3. QED
    <3>1. BeginsNothing
      BY <2>1 DEF BeginsNothing
    <3>2. OwnsNoMore
      BY <2>1, <2>2 DEF OwnsNoMore
    <3>3. ChargesNoMore
      BY <2>1 DEF ChargesNoMore, Chargeable
    <3>4. QED
      BY <2>1, <3>1, <3>2, <3>3, LessIsOpen
<1>6. ASSUME NEW lost \in SUBSET Requests, CheckoutCrash(lost)
      PROVE  OnceInv'
  <2>1. /\ UNCHANGED <<ordered, emptied, cart, payment>>
        /\ \A q \in Requests : stage'[q] # "none" =>
             stage'[q] = stage[q] /\ lines'[q] = lines[q] /\ own'[q] = own[q] /\ call'[q] = call[q]
    BY <1>6 DEF CheckoutCrash, Crash
  <2>2. \A q \in Requests : stage'[q] \in {"creating", "pay"} => Mine(q)' \subseteq Mine(q)
    BY <2>1 DEF Mine
  <2>3. QED
    <3>1. BeginsNothing
      BY <2>1 DEF BeginsNothing
    <3>2. OwnsNoMore
      BY <2>1, <2>2 DEF OwnsNoMore
    <3>3. ChargesNoMore
      BY <2>1 DEF ChargesNoMore, Chargeable
    <3>4. QED
      BY <2>1, <3>1, <3>2, <3>3, LessIsOpen
<1>7. ASSUME NEW o \in Orders, Decide(o)
      PROVE  OnceInv'
  <2>1. /\ UNCHANGED <<ordered, emptied, cart, stage, lines, own, call>> /\ payment[o] = "sent"
        /\ \A p \in Orders : p # o => payment'[p] = payment[p]
    BY <1>7 DEF Decide, vars, CInv, CheckoutTypes
  <2>2. \A q \in Requests : Mine(q)' = Mine(q)
    BY <2>1 DEF Mine
  <2>3. QED
    <3>1. BeginsNothing
      BY <2>1 DEF BeginsNothing
    <3>2. OwnsNoMore
      BY <2>1, <2>2 DEF OwnsNoMore
    <3>3. ChargesNoMore
      BY <2>1 DEF ChargesNoMore, Chargeable
    <3>4. QED
      BY <2>1, <3>1, <3>2, <3>3, LessIsOpen
<1>8. CASE UNCHANGED allVars
  <2>1. UNCHANGED <<ordered, emptied, cart, stage, lines, own, call, payment>>
    BY <1>8 DEF allVars, checkoutVars, vars
  <2>2. \A q \in Requests : Mine(q)' = Mine(q)
    BY <2>1 DEF Mine
  <2>3. QED
    <3>1. BeginsNothing
      BY <2>1 DEF BeginsNothing
    <3>2. OwnsNoMore
      BY <2>1, <2>2 DEF OwnsNoMore
    <3>3. ChargesNoMore
      BY <2>1 DEF ChargesNoMore, Chargeable
    <3>4. QED
      BY <2>1, <3>1, <3>2, <3>3, LessIsOpen
<1>9. QED
  BY <1>1, <1>2, <1>3, <1>4, <1>5, <1>6, <1>7, <1>8, HandlerOnce DEF CheckoutNext, HandlerStep

LEMMA InitOnceInv == CheckoutInit => OnceInv
BY DEF CheckoutInit, OnceInv, Chargeable

\* Whatever fails, no line is charged twice if a checkout begins only when nothing
\* is open: when the payments sent before were declined, or have emptied their
\* cart.  The caller cannot tell, since a 402 answers a declined payment and a lost
\* one alike, and that is what is wrong with the retry of
\* docs/plans/stripe-checkout-orchestrator.md:419-420.
THEOREM SafeRetryChargesOnce == CheckoutSpec /\ [][SafeRetry]_allVars => []ChargedOnce
<1>1. OnceInv => ChargedOnce
  BY DEF OnceInv, ChargedOnce, Chargeable, Charged
<1>2. QED
  BY <1>1, CheckoutInvariant, InitOnceInv, NextOnceInv, PTL DEF CheckoutSpec
================================================================================
