------------------------------ MODULE OrderMoney ------------------------------
(***************************************************************************)
(* The money of an order in go/internal/order: what a customer asked for,  *)
(* what the tables keep of it, and which totals the service tells to the   *)
(* outside (answers, events, the payment service).                         *)
(*                                                                         *)
(* A total is computed from lines, and the lines exist twice: with the     *)
(* prices of the request, in the Order that CreateOrder made, and with     *)
(* prices of whole cents, in the columns NUMERIC(10,2) of order_items.     *)
(* Every read computes the total anew from the stored lines, and every     *)
(* update writes that total back, so the stored total may change with the  *)
(* first update of the order.                                              *)
(*                                                                         *)
(* An order is inserted by one transaction in several statements, and read *)
(* by two queries with no transaction around them, while other requests    *)
(* run.  Statuses and the order of the events are OrderLifecycle's; here   *)
(* an update is any request that reads an order and writes it.  Lines are  *)
(* numbered; in which order an answer lists them is left out.              *)
(***************************************************************************)
EXTENDS Integers, Sequences, FiniteSets, Functions

CONSTANTS Orders,      \* order identifiers
          Requests,    \* the requests that may be in progress at once
          Carts,       \* what a request may ask for: sequences of lines
          Cent,        \* amounts are in fractions of a cent, Cent to the cent
          MaxAmount    \* the largest amount that the column NUMERIC(10,2) holds

ASSUME CentAssumption == Cent \in Nat \ {0} /\ MaxAmount \in Nat

Line == [quantity : Nat \ {0}, unitPrice : Nat]

ASSUME CartsAssumption == Carts \subseteq Seq(Line) \ {<<>>}

VARIABLES
  stored,     \* the orders whose row can be read
  total,      \* total[o]: column total_amount of the row
  items,      \* items[o]: the rows of order_items for o
  pc,         \* pc[r]: where request r is
  op,         \* op[r]: what r is for
  entity,     \* entity[r]: the orders that r has in memory, each an *Order
  inserted,   \* inserted[r]: the lines that r's open transaction has inserted
  asked,      \* history: asked[o] are the lines that o was made from
  via,        \* history: via[o] says whether a checkout has placed o
  told        \* history: told[o] are the (lines, total) told to the outside

vars == <<stored, total, items, pc, op, entity, inserted, asked, via, told>>

-----------------------------------------------------------------------------
(* Amounts *)

\* Mutant: fractions of a cent are cut off.
Round_Down(x) == (x \div Cent) * Cent

\* Decimal.Round(2) and StringFixed(2): to whole cents, half a cent goes up.
Round(x) == ((2 * x + Cent) \div (2 * Cent)) * Cent

\* OrderItem.RecalculateSubtotal.
Subtotal(line) == Round(line.unitPrice * line.quantity)

\* The loop of Order.RecalculateTotals.
Total(lines) == SumFunction([i \in DOMAIN lines |-> Subtotal(lines[i])])

\* An Order without lines, as NewOrder makes it.
Blank == [total |-> 0, lines |-> <<>>]

\* Mutant: the sum starts from the total that the order has.
Recalculated_Accumulates(e) == [e EXCEPT !.total = @ + Total(e.lines)]

\* Order.RecalculateTotals.
Recalculated(e) == [e EXCEPT !.total = Total(e.lines)]

\* order_items keeps a price in whole cents (its total_price is never read).
StoredLine(line) == [line EXCEPT !.unitPrice = Round(@)]

\* Mutant: the checkout passes the prices of the cart on as they are.
Priced_AsGiven(cart) == cart

\* The checkout rounds the prices of the cart before it makes the order.
Priced(cart) == [i \in DOMAIN cart |-> [cart[i] EXCEPT !.unitPrice = Round(@)]]

\* CreateOrderRequest.Validate, of the prices.
Valid(lines) == \A i \in DOMAIN lines : lines[i].unitPrice > 0

\* Mutant: the column has no precision.
Fits_Always(amount) == TRUE

\* A larger amount makes the statement fail: numeric field overflow.
Fits(amount) == Round(amount) <= MaxAmount

\* toOrderResponse: amounts are shown in whole cents.
Shown(e) ==
  [lines |-> [i \in DOMAIN e.lines |->
                [quantity |-> e.lines[i].quantity,
                 unitPrice |-> Round(e.lines[i].unitPrice),
                 subtotal |-> Subtotal(e.lines[i])]],
   total |-> Round(e.total)]

-----------------------------------------------------------------------------
(* Types and the initial state *)

PCs == {"idle", "row", "lines", "items", "write", "tell"}

\* The orders that r has in memory; one, unless r is a listing.
InMemory(r) == DOMAIN entity[r]

NothingInMemory == [o \in {} |-> Blank]

Entity == [total : Nat, lines : Seq(Line)]

ShownLine == [quantity : Nat \ {0}, unitPrice : Nat, subtotal : Nat]

MoneyTypeOK ==
  /\ stored \subseteq Orders
  /\ total \in [Orders -> Nat]
  /\ items \in [Orders -> Seq(Line)]
  /\ pc \in [Requests -> PCs]
  /\ op \in [Requests -> {"none", "create", "get", "list", "update"}]
  /\ \A r \in Requests : InMemory(r) \subseteq Orders /\ entity[r] \in [InMemory(r) -> Entity]
  /\ inserted \in [Requests -> Seq(Line)]
  /\ asked \in [Orders -> Seq(Line)]
  /\ via \in [Orders -> {"none", "api", "checkout"}]
  /\ \A o \in Orders : told[o] \subseteq [lines : Seq(ShownLine), total : Nat]
  /\ \A o \in stored : total[o] <= MaxAmount

Init ==
  /\ stored = {}
  /\ total = [o \in Orders |-> 0]
  /\ items = [o \in Orders |-> <<>>]
  /\ pc = [r \in Requests |-> "idle"]
  /\ op = [r \in Requests |-> "none"]
  /\ entity = [r \in Requests |-> NothingInMemory]
  /\ inserted = [r \in Requests |-> <<>>]
  /\ asked = [o \in Orders |-> <<>>]
  /\ via = [o \in Orders |-> "none"]
  /\ told = [o \in Orders |-> {}]

Goto(r, label) == pc' = [pc EXCEPT ![r] = label]

\* r ends: what it has in memory is gone, and so is an uncommitted transaction.
End(r) ==
  /\ Goto(r, "idle")
  /\ op' = [op EXCEPT ![r] = "none"]
  /\ entity' = [entity EXCEPT ![r] = NothingInMemory]
  /\ inserted' = [inserted EXCEPT ![r] = <<>>]

-----------------------------------------------------------------------------
(* An order is placed *)

\* CreateOrder, of POST /api/orders or of a checkout, makes the Order.
Submit(r, o, cart, how) ==
  LET lines == IF how = "checkout" THEN Priced(cart) ELSE cart
  IN /\ pc[r] = "idle"
     /\ asked[o] = <<>>
     /\ Valid(lines)
     /\ Goto(r, "row")
     /\ op' = [op EXCEPT ![r] = "create"]
     /\ entity' = [entity EXCEPT ![r] =
          [p \in {o} |-> Recalculated([Blank EXCEPT !.lines = lines])]]
     /\ asked' = [asked EXCEPT ![o] = cart]
     /\ via' = [via EXCEPT ![o] = how]
     /\ UNCHANGED <<stored, total, items, inserted, told>>

\* Mutant: the statements run on the pool, each in a transaction of its own.
InsertRow_Autocommit(r, o) ==
  /\ pc[r] = "row" /\ o \in InMemory(r)
  /\ Fits(entity[r][o].total)
  /\ stored' = stored \cup {o}
  /\ total' = [total EXCEPT ![o] = Round(entity[r][o].total)]
  /\ Goto(r, "lines")
  /\ UNCHANGED <<items, op, entity, inserted, asked, via, told>>

\* Create begins a transaction and inserts the row; nobody else sees it.
InsertRow(r, o) ==
  /\ pc[r] = "row" /\ o \in InMemory(r)
  /\ Fits(entity[r][o].total)
  /\ Goto(r, "lines")
  /\ UNCHANGED <<stored, total, items, op, entity, inserted, asked, via, told>>

\* The loop over the items inserts the next line (which fits: it costs no more
\* than the whole order).
InsertLine(r, o) ==
  /\ pc[r] = "lines" /\ o \in InMemory(r)
  /\ Len(inserted[r]) < Len(entity[r][o].lines)
  /\ inserted' = [inserted EXCEPT
       ![r] = Append(@, StoredLine(entity[r][o].lines[Len(@) + 1]))]
  /\ UNCHANGED <<stored, total, items, pc, op, entity, asked, via, told>>

AllInserted(r, o) ==
  /\ pc[r] = "lines" /\ o \in InMemory(r)
  /\ Len(inserted[r]) = Len(entity[r][o].lines)

\* The row and its lines become visible at once.
MakeVisible(r, o) ==
  /\ stored' = stored \cup {o}
  /\ total' = [total EXCEPT ![o] = Round(entity[r][o].total)]
  /\ items' = [items EXCEPT ![o] = inserted[r]]
  /\ UNCHANGED <<asked, via, told>>

Commit(r, o) ==
  /\ AllInserted(r, o)
  /\ MakeVisible(r, o)
  /\ Goto(r, "tell")
  /\ UNCHANGED <<op, entity, inserted>>

\* The commit happens and its outcome is lost: the caller gets an error.
CommitUnknown(r, o) ==
  /\ AllInserted(r, o)
  /\ MakeVisible(r, o)
  /\ End(r)

\* A statement or the commit fails, or the server dies: rollback.
CreateFails(r) ==
  /\ pc[r] \in {"row", "lines"}
  /\ End(r)
  /\ UNCHANGED <<stored, total, items, asked, via, told>>

-----------------------------------------------------------------------------
(* Orders are read and updated *)

\* getOrderRow, or the query of ListByCustomer: rows of committed orders, with
\* the total of the column.
ReadRows(r, kind, os) ==
  /\ pc[r] = "idle"
  /\ os # {} /\ os \subseteq stored
  /\ IF kind = "list" THEN os = stored ELSE Cardinality(os) = 1
  /\ Goto(r, "items")
  /\ op' = [op EXCEPT ![r] = kind]
  /\ entity' = [entity EXCEPT ![r] = [o \in os |-> [Blank EXCEPT !.total = total[o]]]]
  /\ UNCHANGED <<stored, total, items, inserted, asked, via, told>>

\* listItems or listItemsByOrderIDs, another query, and RecalculateTotals.
ReadItems(r) ==
  /\ pc[r] = "items"
  /\ entity' = [entity EXCEPT ![r] =
       [o \in InMemory(r) |-> Recalculated([@[o] EXCEPT !.lines = items[o]])]]
  /\ Goto(r, IF op[r] = "update" THEN "write" ELSE "tell")
  /\ UNCHANGED <<stored, total, items, op, inserted, asked, via, told>>

\* store.Update writes the row, and with it the total as recomputed.
Rewrite(r, o) ==
  /\ pc[r] = "write" /\ o \in InMemory(r)
  /\ Fits(entity[r][o].total)
  /\ total' = [total EXCEPT ![o] = Round(entity[r][o].total)]
  /\ UNCHANGED <<stored, items, asked, via, told>>

Write(r, o) ==
  /\ Rewrite(r, o)
  /\ Goto(r, "tell")
  /\ UNCHANGED <<op, entity, inserted>>

WriteUnknown(r, o) ==
  /\ Rewrite(r, o)
  /\ End(r)

\* A query fails, the order is another customer's or its status forbids the
\* update, the total does not fit, the transaction fails, or the server dies:
\* nothing is shown.
Withhold(r) ==
  /\ pc[r] \in {"items", "write", "tell"}
  /\ End(r)
  /\ UNCHANGED <<stored, total, items, asked, via, told>>

\* The answer goes out; after a create so do order.created and the payment
\* request of a checkout, after an update order.paid: all with the total of
\* the Order in memory.
Tell(r) ==
  /\ pc[r] = "tell"
  /\ told' = [o \in Orders |-> IF o \in InMemory(r)
                               THEN told[o] \cup {Shown(entity[r][o])} ELSE told[o]]
  /\ End(r)
  /\ UNCHANGED <<stored, total, items, asked, via>>

Next ==
  \E r \in Requests :
    \/ \E o \in Orders :
         \/ \E cart \in Carts, how \in {"api", "checkout"} : Submit(r, o, cart, how)
         \/ InsertRow(r, o) \/ InsertLine(r, o) \/ Commit(r, o) \/ CommitUnknown(r, o)
         \/ Write(r, o) \/ WriteUnknown(r, o)
    \/ CreateFails(r)
    \/ \E kind \in {"get", "list", "update"}, os \in SUBSET Orders : ReadRows(r, kind, os)
    \/ ReadItems(r) \/ Withhold(r) \/ Tell(r)

Spec == Init /\ [][Next]_vars
-----------------------------------------------------------------------------
(* Properties *)

\* Whoever is shown an order is shown the whole of it: every line that was
\* asked for, and a total that is their sum, although rows and lines are
\* written by several statements and read by two queries (store.go:53-132,
\* 134-161).
ShownIsWhole ==
  \A o \in Orders : \A a \in told[o] :
    /\ Len(a.lines) = Len(asked[o])
    /\ \A i \in DOMAIN a.lines : a.lines[i].quantity = asked[o][i].quantity
    /\ a.total = SumFunction([i \in DOMAIN a.lines |-> a.lines[i].subtotal])

\* The amount that a checkout charges is the one that the order shows ever
\* after and that order.paid reports, and it is the one in the table: prices
\* are rounded before the order is made (checkout/handler.go:84, 92;
\* service.go:151).  So such an order never outgrows its column either.
MoneyAgrees ==
  \A o \in Orders : via[o] = "checkout" =>
    /\ \A a \in told[o] : o \in stored /\ a.total = total[o]
    /\ o \in stored => total[o] = Total(items[o])

\* Other totals may change, but only once, however often the order is read and
\* updated: what was told at its creation, and what its stored lines sum up to
\* (model.go:161-168).
AtMostTwoTotals ==
  \A o \in Orders : Cardinality({a.total : a \in told[o]}) <= 2

Distance(x, y) == IF x < y THEN y - x ELSE x - y

\* No total is further from the exact price than half a cent for every unit
\* ordered (model.go:121-123, store.go:106-107).
TotalsClose ==
  \A o \in Orders : \A a \in told[o] :
    LET exact == SumFunction([i \in DOMAIN asked[o] |-> asked[o][i].unitPrice * asked[o][i].quantity])
        units == SumFunction([i \in DOMAIN asked[o] |-> asked[o][i].quantity])
    IN 2 * Distance(a.total, exact) <= units * Cent
=============================================================================
