\* Two requests on two orders and a cart of two lines; each is a checkout, or
\* cancels an order or moves it to PROCESSING or CANCELLED; calls are lost, the database
\* fails and servers die.
SPECIFICATION CheckoutSpec
CONSTANTS
  o1 = o1
  o2 = o2
  r1 = r1
  r2 = r2
  i1 = i1
  i2 = i2
  Orders = {o1, o2}
  Requests = {r1, r2}
  Items = {i1, i2}
  NoOrder = NoOrder
  Faults = TRUE
  MaxCount = 1
  OtherStatuses = {"PROCESSING", "CANCELLED"}
SYMMETRY Symmetry
VIEW EventsAside
INVARIANTS
  CheckoutTypeOK
  PaidWasCaptured
  FailedIsNotPaid
PROPERTIES
  KeepsCheckoutContract
